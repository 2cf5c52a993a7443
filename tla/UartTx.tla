------------------------------- MODULE UartTx -------------------------------
(***************************************************************************)
(* How a serial port sends: uartTransfer in scr_code/veth_serial.c takes   *)
(* data out of the transmit ring and hands it to the transmit DMA, either  *)
(* a block at a time through two buffers that the DMA empties in turn, or  *)
(* the rest of the ring through a third.  A completion interrupt can come  *)
(* between any two reads of the superloop.                                 *)
(*                                                                         *)
(* Data is numbered in the order in which it enters the ring (TxFifo), so  *)
(* the ring holds taken + 1 .. put, and a buffer is the set of numbers in  *)
(* it.                                                                     *)
(***************************************************************************)
EXTENDS Integers

CONSTANTS
  Block,      \* what a DMA block holds (DOUBLE_BUFFER_LENGTH)
  MaxPiece,    \* the largest piece of network data (COM_DATA_SIZE)
  MaxUnits,   \* bound: how much data arrives in all
  MaxIrqs     \* bound: completions during one call of uartTransfer

ASSUME UartAssumption ==
  /\ Block \in Nat \ {0} /\ MaxPiece \in Nat \ {0}
  /\ MaxUnits \in Nat /\ MaxIrqs \in Nat \ {0}

READY     == "READY"     \* huart->State: BUSY_RX is never set by this firmware
BUSY_TX   == "BUSY_TX"
MEM_EMPTY == 0

VARIABLES
  put, taken,      \* what has gone into and come out of the ring
  pbuffer1, pbuffer2, mem0_length, mem1_length,  \* the buffers of a double transfer
  pbuffer,         \* the buffer of a single transfer
  State, single_finish_targ, double_finish_targ,
  count_targ,      \* since when less than a block waits
  EN, DBM, CT,     \* the DMA stream: enabled, two buffers, which one is current
  pc, ct, irqs,    \* where uartTransfer is, the target it read, completions so far
  sent             \* what has gone out on the line

ring   == <<put, taken>>
dma    == <<EN, DBM, CT>>
flags  == <<State, single_finish_targ, double_finish_targ>>
double == <<pbuffer1, pbuffer2, mem0_length, mem1_length>>
vars   == <<ring, double, pbuffer, flags, count_targ, dma, pc, ct, irqs, sent>>

\* What ReadFIFO takes: the n oldest pieces in the ring.
Oldest(n) == taken + 1 .. taken + n

Init ==
  /\ put = 0 /\ taken = 0
  /\ pbuffer1 = {} /\ pbuffer2 = {} /\ pbuffer = {}
  /\ mem0_length = MEM_EMPTY /\ mem1_length = MEM_EMPTY
  /\ State = READY /\ single_finish_targ = 1 /\ double_finish_targ = 0
  /\ count_targ = "unset"
  /\ EN = 0 /\ DBM = 0 /\ CT = 0
  /\ pc = "idle" /\ ct = 0 /\ irqs = 0
  /\ sent = {}

-----------------------------------------------------------------------------
(* uartTransfer *)

\* The network part: a piece, if there is one, goes into the ring (TxFifo!Fill).
Fill ==
  /\ pc = "idle" /\ pc' = "check" /\ irqs' = 0
  /\ \E n \in 0 .. MaxPiece : put + n <= MaxUnits /\ put' = put + n
  /\ UNCHANGED <<taken, double, pbuffer, flags, count_targ, dma, ct, sent>>

\* Mutant of CheckRest: the time starts again on every pass.
CheckRestAnew ==
  /\ 0 < put - taken /\ put - taken < Block
  /\ count_targ' = "running" /\ pc' = "idle"

\* Less than a block waits for a while and until the last block is out.
CheckRest ==
  /\ 0 < put - taken /\ put - taken < Block
  /\ \/ count_targ = "unset" /\ count_targ' = "running" /\ pc' = "idle"
     \/ /\ count_targ = "elapsed" /\ double_finish_targ = 1
        /\ count_targ' = "unset" /\ pc' = "little"
     \/ /\ count_targ = "running" \/ (count_targ = "elapsed" /\ double_finish_targ = 0)
        /\ pc' = "idle" /\ UNCHANGED count_targ

\* Mutant of CheckBlock: does not wait for a whole block.
CheckBlockEager ==
  /\ put > taken
  /\ count_targ' = "unset"
  /\ pc' = IF single_finish_targ = 1 THEN "target" ELSE "idle"

\* A block is ready, but a single transfer may still be under way.
CheckBlock ==
  /\ put - taken >= Block
  /\ count_targ' = "unset"
  /\ pc' = IF single_finish_targ = 1 THEN "target" ELSE "idle"

CheckNone == put = taken /\ pc' = "idle" /\ UNCHANGED count_targ

Check ==
  /\ pc = "check"
  /\ CheckBlock \/ CheckRest \/ CheckNone
  /\ UNCHANGED <<ring, double, pbuffer, flags, dma, ct, irqs, sent>>

-----------------------------------------------------------------------------
(* halUartTransmitDma *)

ReadTarget ==
  /\ pc = "target" /\ pc' = "state" /\ ct' = CT
  /\ UNCHANGED <<ring, double, pbuffer, flags, count_targ, dma, irqs, sent>>

ReadBusy ==
  /\ pc = "state" /\ State = BUSY_TX /\ pc' = "length"
  /\ UNCHANGED <<ring, double, pbuffer, flags, count_targ, dma, ct, irqs, sent>>

\* fillinComBuffer1 into the first buffer, for a transfer that is to start.
\* No interrupt comes while the DMA is off.  The block is there: Check has seen
\* it, and nothing else takes from the ring.
FillFirst ==
  /\ taken' = taken + Block
  /\ pbuffer1' = Oldest(Block) /\ mem0_length' = Block
  /\ UNCHANGED <<pbuffer2, mem1_length>>

\* HAL_DMAEx_MultiBufferStart_IT on pbuffer1 and pbuffer2.
StartDouble ==
  /\ State' = BUSY_TX /\ double_finish_targ' = 0
  /\ EN' = 1 /\ DBM' = 1
  /\ pc' = "idle"
  /\ UNCHANGED <<put, pbuffer, single_finish_targ, count_targ, ct, irqs, sent>>

\* The port is ready and the target was the first buffer.  The current target
\* of the DMA stays as it is.
StartM0 ==
  /\ pc = "state" /\ State = READY /\ ct = 0
  /\ \/ mem0_length # MEM_EMPTY /\ UNCHANGED <<taken, double>>
     \/ mem0_length = MEM_EMPTY /\ FillFirst
  /\ StartDouble /\ UNCHANGED CT

\* Mutant of MoveSecond: the length moves, the data does not.
MoveSecondLength ==
  /\ mem0_length' = mem1_length /\ mem1_length' = MEM_EMPTY
  /\ UNCHANGED <<taken, pbuffer1, pbuffer2>>

\* A block left in the second buffer becomes the first.
MoveSecond ==
  /\ pbuffer1' = pbuffer2
  /\ mem0_length' = mem1_length /\ mem1_length' = MEM_EMPTY
  /\ UNCHANGED <<taken, pbuffer2>>

\* The port is ready and the target was the second buffer.
StartM1 ==
  /\ pc = "state" /\ State = READY /\ ct = 1
  /\ \/ mem1_length # MEM_EMPTY /\ MoveSecond
     \/ mem1_length = MEM_EMPTY /\ mem0_length # MEM_EMPTY /\ UNCHANGED <<taken, double>>
     \/ mem1_length = MEM_EMPTY /\ mem0_length = MEM_EMPTY /\ FillFirst
  /\ StartDouble /\ CT' = 0

\* Mutant of ReadLength: fills the other buffer though it may not be empty.
ReadLengthBlind ==
  /\ pc = "length"
  /\ pc' = IF ct = 0 THEN "copy1" ELSE "copy0"
  /\ UNCHANGED <<ring, double, pbuffer, flags, count_targ, dma, ct, irqs, sent>>

\* The port is busy with one buffer: the other is filled if it is empty.
ReadLength ==
  /\ pc = "length"
  /\ pc' = IF ct = 0 THEN IF mem1_length = MEM_EMPTY THEN "copy1" ELSE "idle"
                     ELSE IF mem0_length = MEM_EMPTY THEN "copy0" ELSE "idle"
  /\ UNCHANGED <<ring, double, pbuffer, flags, count_targ, dma, ct, irqs, sent>>

Copy1 ==
  /\ pc = "copy1" /\ pc' = "set1"
  /\ pbuffer2' = Oldest(Block) /\ taken' = taken + Block
  /\ UNCHANGED <<put, pbuffer1, mem0_length, mem1_length, pbuffer, flags, count_targ,
                 dma, ct, irqs, sent>>

Set1 ==
  /\ pc = "set1" /\ pc' = "idle" /\ mem1_length' = Block
  /\ UNCHANGED <<ring, pbuffer1, pbuffer2, mem0_length, pbuffer, flags, count_targ,
                 dma, ct, irqs, sent>>

Copy0 ==
  /\ pc = "copy0" /\ pc' = "set0"
  /\ pbuffer1' = Oldest(Block) /\ taken' = taken + Block
  /\ UNCHANGED <<put, pbuffer2, mem0_length, mem1_length, pbuffer, flags, count_targ,
                 dma, ct, irqs, sent>>

Set0 ==
  /\ pc = "set0" /\ pc' = "idle" /\ mem0_length' = Block
  /\ UNCHANGED <<ring, pbuffer1, pbuffer2, mem1_length, pbuffer, flags, count_targ,
                 dma, ct, irqs, sent>>

-----------------------------------------------------------------------------
(* halUartTransmitDmaLittle *)

\* fillinComBuffer2 takes all there is; HAL_DMA_Start_IT sets the DMA to one
\* buffer.
StartLittle ==
  /\ pc = "little" /\ State = READY
  /\ taken' = put /\ pbuffer' = Oldest(put - taken)
  /\ State' = BUSY_TX /\ single_finish_targ' = 0
  /\ EN' = 1 /\ DBM' = 0 /\ CT' = 0
  /\ pc' = "idle"
  /\ UNCHANGED <<put, double, double_finish_targ, count_targ, ct, irqs, sent>>

LittleBusy ==
  /\ pc = "little" /\ State = BUSY_TX /\ pc' = "idle"
  /\ UNCHANGED <<ring, double, pbuffer, flags, count_targ, dma, ct, irqs, sent>>

Superloop ==
  \/ Fill \/ Check \/ ReadTarget \/ ReadBusy \/ StartM0 \/ StartM1
  \/ ReadLength \/ Copy1 \/ Set1 \/ Copy0 \/ Set0 \/ StartLittle \/ LittleBusy

-----------------------------------------------------------------------------
(* The end of a transfer: the DMA goes on to the other buffer by itself and *)
(* HAL_DMA_IRQHandler calls the callback of the one it has finished.         *)

\* A block takes much longer than a call: at most MaxIrqs end during one.
Interrupt ==
  /\ EN = 1
  /\ pc = "idle" \/ irqs < MaxIrqs
  /\ irqs' = IF pc = "idle" THEN 0 ELSE irqs + 1

\* Mutant of Stop: nobody is told that the double transfer is over.
StopSilent == EN' = 0 /\ State' = READY /\ UNCHANGED double_finish_targ

Stop == EN' = 0 /\ State' = READY /\ double_finish_targ' = 1

GoOn == UNCHANGED <<EN, State, double_finish_targ>>

\* Mutant of StopOrGoOn: goes on whether or not the other buffer holds a block.
StopNever(other) == GoOn

\* The other buffer is current now; with nothing in it the DMA is stopped.
StopOrGoOn(other) == IF other = MEM_EMPTY THEN Stop ELSE GoOn

uartDmaXferCpltCallback ==
  /\ Interrupt /\ DBM = 1 /\ CT = 0 /\ CT' = 1
  /\ sent' = sent \union pbuffer1
  /\ mem0_length' = MEM_EMPTY
  /\ StopOrGoOn(mem1_length)
  /\ UNCHANGED <<ring, pbuffer1, pbuffer2, mem1_length, pbuffer, single_finish_targ,
                 count_targ, DBM, pc, ct>>

uartDmaXferM1CpltCallback ==
  /\ Interrupt /\ DBM = 1 /\ CT = 1 /\ CT' = 0
  /\ sent' = sent \union pbuffer2
  /\ mem1_length' = MEM_EMPTY
  /\ StopOrGoOn(mem0_length)
  /\ UNCHANGED <<ring, pbuffer1, pbuffer2, mem0_length, pbuffer, single_finish_targ,
                 count_targ, DBM, pc, ct>>

DmaXferCpltCallback ==
  /\ Interrupt /\ DBM = 0
  /\ sent' = sent \union pbuffer
  /\ EN' = 0 /\ State' = READY /\ single_finish_targ' = 1
  /\ UNCHANGED <<ring, double, pbuffer, double_finish_targ, count_targ, DBM, CT, pc, ct>>

Isr == uartDmaXferCpltCallback \/ uartDmaXferM1CpltCallback \/ DmaXferCpltCallback

\* LITTLE_DATA_TIMEOUT passes.
Timeout ==
  /\ count_targ = "running" /\ count_targ' = "elapsed"
  /\ UNCHANGED <<ring, double, pbuffer, flags, dma, pc, ct, irqs, sent>>

Next == Superloop \/ Isr \/ Timeout

\* The superloop goes round for ever, a started transfer ends, time passes.
Fairness == WF_vars(Superloop) /\ WF_vars(Isr) /\ WF_vars(Timeout)

Spec == Init /\ [][Next]_vars /\ Fairness

-----------------------------------------------------------------------------
Single == EN = 1 /\ DBM = 0   \* what kind of transfer is under way
Double == EN = 1 /\ DBM = 1

DataOK ==
  /\ put \in Nat /\ taken \in 0 .. put
  /\ pbuffer1 \subseteq 1 .. taken /\ pbuffer2 \subseteq 1 .. taken
  /\ pbuffer \subseteq 1 .. taken /\ sent \subseteq 1 .. taken

ControlOK ==
  /\ mem0_length \in {MEM_EMPTY, Block} /\ mem1_length \in {MEM_EMPTY, Block}
  /\ State \in {READY, BUSY_TX}
  /\ single_finish_targ \in 0 .. 1 /\ double_finish_targ \in 0 .. 1
  /\ count_targ \in {"unset", "running", "elapsed"}
  /\ EN \in 0 .. 1 /\ DBM \in 0 .. 1 /\ CT \in 0 .. 1 /\ ct \in 0 .. 1 /\ irqs \in 0 .. MaxIrqs
  /\ pc \in {"idle", "check", "target", "state", "length", "copy1", "set1", "copy0",
             "set0", "little"}

TypeOK == DataOK /\ ControlOK

\* What a buffer whose length is not MEM_EMPTY, or about to be set, or the
\* single transfer under way, still has to send.
Held ==
  (IF mem0_length # MEM_EMPTY \/ pc = "set0" THEN pbuffer1 ELSE {})
    \union (IF mem1_length # MEM_EMPTY \/ pc = "set1" THEN pbuffer2 ELSE {})
    \union (IF Single THEN pbuffer ELSE {})

\* Data that has left the ring is on the line or still held: no interleaving
\* of the completion interrupt with the superloop drops or overwrites a block.
NothingLost == 1 .. taken \subseteq sent \union Held

\* The flags uartTransfer decides by tell what the DMA does.  A port that is
\* busy with the DMA off, or a finish flag left at 0, would never send again.
FlagsTellTruth ==
  /\ EN = 1 <=> State = BUSY_TX
  /\ Single <=> single_finish_targ = 0
  /\ Double => double_finish_targ = 0
  /\ double_finish_targ = 0 /\ sent # {} => Double

\* The superloop never copies into the buffer the DMA is sending from.
NoTornBlock ==
  /\ pc = "copy1" => ~(Double /\ CT = 1)
  /\ pc = "copy0" => ~(Double /\ CT = 0)

\* Every transfer comes to an end: the DMA is not left running in circles.
BusyEnds == State = BUSY_TX ~> State = READY

\* Once a first block is out, all that is put into the ring leaves it, also
\* what never fills a block.
RingDrains == double_finish_targ = 1 ~> put = taken

\* Data leaves in the order in which it came: what is sent is all that came
\* up to some point.
SentInOrder == \A u \in sent : 1 .. u \subseteq sent
=============================================================================
