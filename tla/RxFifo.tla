------------------------------- MODULE RxFifo -------------------------------
(***************************************************************************)
(* The receive ring of a serial port (huart->rxFIFO).  The DMA interrupt   *)
(* uartDmaRcvCpltCallback writes it, the superloop reads it through        *)
(* getUartRecievedData (both in scr_code/veth_serial.c).  The processor    *)
(* has one core: the interrupt runs to its end between two accesses of the *)
(* reader, and the reader is taken apart at its accesses to what the       *)
(* interrupt writes.  The functions of FIFO.c that would mask interrupts   *)
(* have the calls commented out.                                           *)
(*                                                                         *)
(* Bytes accepted and bytes read are counted modulo Sequence, so that the  *)
(* bytes still to be read are known whatever the ring believes.            *)
(***************************************************************************)
EXTENDS Fifo

CONSTANTS
  Chunk,      \* the largest chunk of the DMA (INIT_RCV_LENGTH)
  ReadMax,    \* the most the reader takes at a time (2000)
  Sequence    \* bytes are counted modulo this, more than twice Length

VARIABLES
  rxFIFO,    \* the ring
  accepted,  \* bytes the interrupt has written
  taken,     \* bytes the reader has copied
  pc,        \* where the reader is
  flag,      \* the reader's copy of FlagWrite
  length,    \* how much getUartRecievedData asks for
  left       \* bytes the loop of ReadFIFO still has to copy

reader == <<pc, flag, length, left>>
vars   == <<rxFIFO, accepted, taken, reader>>

Init ==
  /\ IsNewFIFO(rxFIFO)
  /\ accepted = 0 /\ taken = 0
  /\ pc = "idle" /\ flag = ZeroCircle /\ length = 0 /\ left = 0

(***************************************************************************)
(* The interrupt, with a full chunk or what an idle line left of one.  A   *)
(* chunk that does not fit is dropped and counted (test_fifo_full).        *)
(***************************************************************************)
Interrupt(s) ==
  /\ IF CheckCanWriteNum(rxFIFO) > Len(s)
     THEN /\ rxFIFO' = WriteFIFO(rxFIFO, s)
          /\ accepted' = (accepted + Len(s)) % Sequence
     ELSE UNCHANGED <<rxFIFO, accepted>>
  /\ UNCHANGED <<taken, reader>>

(***************************************************************************)
(* getUartRecievedData: CheckCanReadNum reads the flag, then the index.    *)
(***************************************************************************)
CheckFlag ==
  /\ pc = "idle"
  /\ flag' = rxFIFO.FlagWrite
  /\ pc' = "check"
  /\ UNCHANGED <<rxFIFO, accepted, taken, length, left>>

CheckIndex ==
  LET can == CanReadNum(rxFIFO, flag, rxFIFO.CurrentWriteNum)
  IN  /\ pc = "check"
      /\ length' = IF can > ReadMax THEN ReadMax ELSE can
      /\ pc' = "read"
      /\ UNCHANGED <<rxFIFO, accepted, taken, flag, left>>

\* ReadFIFO does the same again, and gives up if there is less than length.
ReadFlag ==
  /\ pc = "read"
  /\ flag' = rxFIFO.FlagWrite
  /\ pc' = "compare"
  /\ UNCHANGED <<rxFIFO, accepted, taken, length, left>>

ReadIndex ==
  /\ pc = "compare"
  /\ IF CanReadNum(rxFIFO, flag, rxFIFO.CurrentWriteNum) >= length /\ length > 0
     THEN left' = length /\ pc' = "copy"
     ELSE UNCHANGED left /\ pc' = "idle"
  /\ UNCHANGED <<rxFIFO, accepted, taken, flag, length>>

\* The end of one round of the loop.
NextByte == left' = left - 1 /\ pc' = IF left = 1 THEN "idle" ELSE "copy"

\* Copy a byte and move on, to the index Length at the end of the ring.
CopyByte ==
  /\ pc = "copy"
  /\ taken' = (taken + 1) % Sequence
  /\ IF rxFIFO.CurrentReadNum + 1 = Length
     THEN /\ rxFIFO' = [rxFIFO EXCEPT !.CurrentReadNum = 0]
          /\ pc' = "clear"
          /\ UNCHANGED left
     ELSE /\ rxFIFO' = [rxFIFO EXCEPT !.CurrentReadNum = @ + 1]
          /\ NextByte
  /\ UNCHANGED <<accepted, flag, length>>

\* The read index is 0 again; the flag follows.
ClearFlag ==
  /\ pc = "clear"
  /\ rxFIFO' = [rxFIFO EXCEPT !.FlagWrite = ZeroCircle]
  /\ NextByte
  /\ UNCHANGED <<accepted, taken, flag, length>>

Next ==
  \/ \E n \in 1 .. Chunk : \E s \in [1 .. n -> Byte] : Interrupt(s)
  \/ CheckFlag \/ CheckIndex \/ ReadFlag \/ ReadIndex \/ CopyByte \/ ClearFlag

Spec == Init /\ [][Next]_vars

-----------------------------------------------------------------------------
\* WriteFIFO returns an error "if the data exceeds the writable length"
\* (FIFO.c), so there are never more bytes to read than the ring holds: no
\* byte is overwritten before it is read.
NoOverrun == ((accepted - taken) % Sequence) <= Length
=============================================================================
