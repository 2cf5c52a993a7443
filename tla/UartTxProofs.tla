---------------------------- MODULE UartTxProofs ----------------------------
(***************************************************************************)
(* For every block size, amount of data and number of interrupts: no data  *)
(* is lost between the transmit ring and the line, the flags are right,    *)
(* and the buffer being sent is left alone.                                *)
(***************************************************************************)
EXTENDS UartTx, TLAPS

Filling1 == pc \in {"copy1", "set1"}
Filling0 == pc \in {"copy0", "set0"}

\* A call that got past Check has a block to take.
BlockReady ==
  pc \in {"target", "state", "length", "copy1", "copy0"} => taken + Block <= put

\* A call of halUartTransmitDma finds no single transfer under way, one of
\* halUartTransmitDmaLittle no double one.
CallKnows ==
  /\ pc \in {"target", "state", "length"} \/ Filling1 \/ Filling0 => single_finish_targ = 1
  /\ pc = "little" \/ Single => double_finish_targ = 1

\* Only an empty buffer is filled.
EmptyIsFilled ==
  /\ Filling1 => mem1_length = MEM_EMPTY
  /\ Filling0 => mem0_length = MEM_EMPTY

\* When the DMA has stopped, both buffers are empty until the call that was
\* interrupted sets the length of the one it has filled.
OneLeft ==
  /\ ~Double => mem0_length = MEM_EMPTY \/ mem1_length = MEM_EMPTY
  /\ (pc = "length" \/ Filling1 \/ Filling0) /\ EN = 0 =>
       mem0_length = MEM_EMPTY /\ mem1_length = MEM_EMPTY

\* If the target has changed since it was read, the DMA has gone on to a buffer
\* that holds a block.
TargetMoved ==
  pc \in {"state", "length"} /\ Double =>
    /\ ct = 0 /\ CT = 1 => mem1_length # MEM_EMPTY
    /\ ct = 1 /\ CT = 0 => mem0_length # MEM_EMPTY

Control == FlagsTellTruth /\ CallKnows /\ EmptyIsFilled /\ OneLeft /\ TargetMoved /\ NoTornBlock

IInv == TypeOK /\ BlockReady /\ Control /\ NothingLost

USE UartAssumption DEF READY, BUSY_TX, MEM_EMPTY, Single, Double

\* The initial state satisfies all of it.
LEMMA Initially == Init => IInv
<1> SUFFICES ASSUME Init PROVE IInv
  OBVIOUS
<1>1. TypeOK /\ BlockReady
  <2>1. DataOK
    BY DEF Init, DataOK
  <2>2. ControlOK /\ BlockReady
    BY DEF Init, ControlOK, BlockReady
  <2> QED
    BY <2>1, <2>2 DEF Init, TypeOK
<1>2. Control
  BY DEF Init, Control, FlagsTellTruth, CallKnows, EmptyIsFilled, OneLeft, TargetMoved,
         NoTornBlock, Filling1, Filling0
<1>3. NothingLost
  BY DEF Init, NothingLost
<1> QED
  BY <1>1, <1>2, <1>3 DEF IInv

\* No step takes more than the ring holds: a call past Check is the only taker.
LEMMA DataKept == TypeOK /\ BlockReady /\ [Next]_vars => DataOK' /\ BlockReady'
<1> SUFFICES ASSUME TypeOK, BlockReady, [Next]_vars PROVE DataOK' /\ BlockReady'
  OBVIOUS
<1> USE DEF TypeOK, DataOK, BlockReady
<1>1. CASE Fill
  BY <1>1 DEF Fill, double, flags, dma
<1>2. CASE Check
  BY <1>2 DEF Check, CheckBlock, CheckRest, CheckNone, ring, double, flags, dma
<1>3. CASE ReadTarget
  BY <1>3 DEF ReadTarget, ring, double, flags, dma
<1>4. CASE ReadBusy
  BY <1>4 DEF ReadBusy, ring, double, flags, dma
<1>5. CASE StartM0
  <2>1. /\ pc = "state" /\ pc' = "idle" /\ UNCHANGED <<put, pbuffer2, pbuffer, sent>>
        /\ \/ taken' = taken /\ (pbuffer1' = pbuffer1)
           \/ taken' = taken + Block /\ pbuffer1' = taken + 1 .. taken + Block
    BY <1>5 DEF StartM0, StartDouble, FillFirst, Oldest, double
  <2>2. taken' \in Nat /\ taken <= taken' /\ taken' <= put
    BY <2>1
  <2>3. pbuffer1' \subseteq 1 .. taken'
    <3>1. CASE taken' = taken /\ (pbuffer1' = pbuffer1)
      BY <3>1
    <3>2. CASE taken' = taken + Block /\ pbuffer1' = taken + 1 .. taken + Block
      BY <3>2
    <3> QED
      BY <2>1, <3>1, <3>2
  <2> QED
    BY <2>1, <2>2, <2>3
<1>6. CASE StartM1
  <2>1. /\ pc = "state" /\ pc' = "idle" /\ UNCHANGED <<put, pbuffer2, pbuffer, sent>>
        /\ \/ taken' = taken /\ (pbuffer1' = pbuffer1 \/ pbuffer1' = pbuffer2)
           \/ taken' = taken + Block /\ pbuffer1' = taken + 1 .. taken + Block
    BY <1>6 DEF StartM1, StartDouble, FillFirst, MoveSecond, Oldest, double
  <2>2. taken' \in Nat /\ taken <= taken' /\ taken' <= put
    BY <2>1
  <2>3. pbuffer1' \subseteq 1 .. taken'
    <3>1. CASE taken' = taken /\ (pbuffer1' = pbuffer1 \/ pbuffer1' = pbuffer2)
      BY <3>1
    <3>2. CASE taken' = taken + Block /\ pbuffer1' = taken + 1 .. taken + Block
      BY <3>2
    <3> QED
      BY <2>1, <3>1, <3>2
  <2> QED
    BY <2>1, <2>2, <2>3
<1>7. CASE ReadLength
  BY <1>7 DEF ReadLength, ring, double, flags, dma
<1>8. CASE Copy1
  BY <1>8 DEF Copy1, Oldest, flags, dma
<1>9. CASE Set1
  BY <1>9 DEF Set1, ring, flags, dma
<1>10. CASE Copy0
  BY <1>10 DEF Copy0, Oldest, flags, dma
<1>11. CASE Set0
  BY <1>11 DEF Set0, ring, flags, dma
<1>12. CASE StartLittle
  BY <1>12 DEF StartLittle, Oldest, double
<1>13. CASE LittleBusy
  BY <1>13 DEF LittleBusy, ring, double, flags, dma
<1>14. CASE uartDmaXferCpltCallback
  <2>1. UNCHANGED <<put, taken, pbuffer1, pbuffer2, pbuffer, pc>>
    BY <1>14 DEF uartDmaXferCpltCallback, ring
  <2>2. sent' = sent \union pbuffer1
    BY <1>14 DEF uartDmaXferCpltCallback
  <2> QED
    BY <2>1, <2>2
<1>15. CASE uartDmaXferM1CpltCallback
  <2>1. UNCHANGED <<put, taken, pbuffer1, pbuffer2, pbuffer, pc>>
    BY <1>15 DEF uartDmaXferM1CpltCallback, ring
  <2>2. sent' = sent \union pbuffer2
    BY <1>15 DEF uartDmaXferM1CpltCallback
  <2> QED
    BY <2>1, <2>2
<1>16. CASE DmaXferCpltCallback
  BY <1>16 DEF DmaXferCpltCallback, ring, double
<1>17. CASE Timeout
  BY <1>17 DEF Timeout, ring, double, flags, dma
<1>18. CASE UNCHANGED vars
  BY <1>18 DEF vars, ring, double, flags, dma
<1> QED
  BY <1>1, <1>2, <1>3, <1>4, <1>5, <1>6, <1>7, <1>8, <1>9, <1>10, <1>11, <1>12, <1>13,
     <1>14, <1>15, <1>16, <1>17, <1>18 DEF Next, Superloop, Isr

\* Registers, flags and lengths stay in their ranges.
LEMMA TypeKept == TypeOK /\ BlockReady /\ [Next]_vars => TypeOK'
<1> SUFFICES ASSUME TypeOK, [Next]_vars PROVE ControlOK'
  BY DataKept DEF TypeOK
<1> USE DEF TypeOK, ControlOK
<1>1. CASE Fill
  BY <1>1 DEF Fill, double, flags, dma
<1>2. CASE Check
  BY <1>2 DEF Check, CheckBlock, CheckRest, CheckNone, ring, double, flags, dma
<1>3. CASE ReadTarget
  BY <1>3 DEF ReadTarget, ring, double, flags, dma
<1>4. CASE ReadBusy
  BY <1>4 DEF ReadBusy, ring, double, flags, dma
<1>5. CASE StartM0
  BY <1>5 DEF StartM0, StartDouble, FillFirst, Oldest, double
<1>6. CASE StartM1
  BY <1>6 DEF StartM1, StartDouble, FillFirst, MoveSecond, Oldest, double
<1>7. CASE ReadLength
  BY <1>7 DEF ReadLength, ring, double, flags, dma
<1>8. CASE Copy1
  BY <1>8 DEF Copy1, Oldest, flags, dma
<1>9. CASE Set1
  BY <1>9 DEF Set1, ring, flags, dma
<1>10. CASE Copy0
  BY <1>10 DEF Copy0, Oldest, flags, dma
<1>11. CASE Set0
  BY <1>11 DEF Set0, ring, flags, dma
<1>12. CASE StartLittle
  BY <1>12 DEF StartLittle, Oldest, double
<1>13. CASE LittleBusy
  BY <1>13 DEF LittleBusy, ring, double, flags, dma
<1>14. CASE uartDmaXferCpltCallback
  BY <1>14 DEF uartDmaXferCpltCallback, Interrupt, StopOrGoOn, Stop, GoOn, ring
<1>15. CASE uartDmaXferM1CpltCallback
  BY <1>15 DEF uartDmaXferM1CpltCallback, Interrupt, StopOrGoOn, Stop, GoOn, ring
<1>16. CASE DmaXferCpltCallback
  BY <1>16 DEF DmaXferCpltCallback, Interrupt, ring, double
<1>17. CASE Timeout
  BY <1>17 DEF Timeout, ring, double, flags, dma
<1>18. CASE UNCHANGED vars
  BY <1>18 DEF vars, ring, double, flags, dma
<1> QED
  BY <1>1, <1>2, <1>3, <1>4, <1>5, <1>6, <1>7, <1>8, <1>9, <1>10, <1>11, <1>12, <1>13,
     <1>14, <1>15, <1>16, <1>17, <1>18 DEF Next, Superloop, Isr

\* One case per step of the superloop, callback and timeout.
LEMMA ControlKept == TypeOK /\ Control /\ [Next]_vars => Control'
<1> SUFFICES ASSUME TypeOK, Control, [Next]_vars PROVE Control'
  OBVIOUS
<1> USE DEF TypeOK, ControlOK, Control, FlagsTellTruth, CallKnows, EmptyIsFilled, OneLeft, TargetMoved,
            NoTornBlock, Filling1, Filling0
<1>1. CASE Fill
  BY <1>1 DEF Fill, double, flags, dma
<1>2. CASE Check
  BY <1>2 DEF Check, CheckBlock, CheckRest, CheckNone, ring, double, flags, dma
<1>3. CASE ReadTarget
  BY <1>3 DEF ReadTarget, ring, double, flags, dma
<1>4. CASE ReadBusy
  BY <1>4 DEF ReadBusy, ring, double, flags, dma
<1>5. CASE StartM0
  BY <1>5 DEF StartM0, StartDouble, FillFirst, double
<1>6. CASE StartM1
  BY <1>6 DEF StartM1, StartDouble, FillFirst, MoveSecond, double
<1>7. CASE ReadLength
  BY <1>7 DEF ReadLength, ring, double, flags, dma
<1>8. CASE Copy1
  BY <1>8 DEF Copy1, flags, dma
<1>9. CASE Set1
  BY <1>9 DEF Set1, ring, flags, dma
<1>10. CASE Copy0
  BY <1>10 DEF Copy0, flags, dma
<1>11. CASE Set0
  BY <1>11 DEF Set0, ring, flags, dma
<1>12. CASE StartLittle
  BY <1>12 DEF StartLittle, double
<1>13. CASE LittleBusy
  BY <1>13 DEF LittleBusy, ring, double, flags, dma
<1>14. CASE uartDmaXferCpltCallback
  BY <1>14 DEF uartDmaXferCpltCallback, Interrupt, StopOrGoOn, Stop, GoOn, ring
<1>15. CASE uartDmaXferM1CpltCallback
  BY <1>15 DEF uartDmaXferM1CpltCallback, Interrupt, StopOrGoOn, Stop, GoOn, ring
<1>16. CASE DmaXferCpltCallback
  BY <1>16 DEF DmaXferCpltCallback, Interrupt, ring, double
<1>17. CASE Timeout
  BY <1>17 DEF Timeout, ring, double, flags, dma
<1>18. CASE UNCHANGED vars
  BY <1>18 DEF vars, ring, double, flags, dma
<1> QED
  BY <1>1, <1>2, <1>3, <1>4, <1>5, <1>6, <1>7, <1>8, <1>9, <1>10, <1>11, <1>12, <1>13,
     <1>14, <1>15, <1>16, <1>17, <1>18 DEF Next, Superloop, Isr

\* Each step that takes data out of the ring puts it into a buffer that holds
\* nothing; each step that empties a buffer has sent it.
LEMMA NothingLostKept == IInv /\ [Next]_vars => NothingLost'
<1> SUFFICES ASSUME IInv, [Next]_vars PROVE NothingLost'
  OBVIOUS
<1> USE DEF IInv, NothingLost, Held
<1>1. CASE Fill
  BY <1>1 DEF Fill, double, flags, dma
<1>2. CASE Check
  BY <1>2 DEF Check, CheckBlock, CheckRest, CheckNone, ring, double, flags, dma
<1>3. CASE ReadTarget
  BY <1>3 DEF ReadTarget, ring, double, flags, dma
<1>4. CASE ReadBusy
  BY <1>4 DEF ReadBusy, ring, double, flags, dma
<1>5. CASE StartM0
  BY <1>5 DEF StartM0, StartDouble, FillFirst, Oldest, double, TypeOK, DataOK, ControlOK, Control, FlagsTellTruth
<1>6. CASE StartM1
  BY <1>6 DEF StartM1, StartDouble, FillFirst, MoveSecond, Oldest, double, TypeOK, DataOK, ControlOK, Control,
              FlagsTellTruth, OneLeft
<1>7. CASE ReadLength
  BY <1>7 DEF ReadLength, ring, double, flags, dma
<1>8. CASE Copy1
  BY <1>8 DEF Copy1, Oldest, flags, dma, TypeOK, DataOK, ControlOK, Control, EmptyIsFilled, Filling1
<1>9. CASE Set1
  BY <1>9 DEF Set1, ring, flags, dma
<1>10. CASE Copy0
  BY <1>10 DEF Copy0, Oldest, flags, dma, TypeOK, DataOK, ControlOK, Control, EmptyIsFilled, Filling0
<1>11. CASE Set0
  BY <1>11 DEF Set0, ring, flags, dma
<1>12. CASE StartLittle
  BY <1>12 DEF StartLittle, Oldest, double, TypeOK, DataOK, ControlOK, Control, FlagsTellTruth
<1>13. CASE LittleBusy
  BY <1>13 DEF LittleBusy, ring, double, flags, dma
<1>14. CASE uartDmaXferCpltCallback
  BY <1>14 DEF uartDmaXferCpltCallback, Interrupt, StopOrGoOn, Stop, GoOn, ring
<1>15. CASE uartDmaXferM1CpltCallback
  BY <1>15 DEF uartDmaXferM1CpltCallback, Interrupt, StopOrGoOn, Stop, GoOn, ring
<1>16. CASE DmaXferCpltCallback
  BY <1>16 DEF DmaXferCpltCallback, Interrupt, ring, double
<1>17. CASE Timeout
  BY <1>17 DEF Timeout, ring, double, flags, dma
<1>18. CASE UNCHANGED vars
  BY <1>18 DEF vars, ring, double, flags, dma
<1> QED
  BY <1>1, <1>2, <1>3, <1>4, <1>5, <1>6, <1>7, <1>8, <1>9, <1>10, <1>11, <1>12, <1>13,
     <1>14, <1>15, <1>16, <1>17, <1>18 DEF Next, Superloop, Isr

\* The inductive invariant holds for ever.
LEMMA Inductive == Spec => []IInv
<1>1. IInv /\ [Next]_vars => IInv'
  BY DataKept, TypeKept, ControlKept, NothingLostKept DEF IInv
<1> QED
  BY Initially, <1>1, PTL DEF Spec

\* The state keeps its type: uartTransfer never takes more than the ring holds.
THEOREM TypeCorrect == Spec => []TypeOK
  BY Inductive, PTL DEF IInv

\* Data taken out of the ring is sent, or still held by a buffer, whatever the
\* moments at which transfers end (halUartTransmitDma and the callbacks).
THEOREM NoDataLost == Spec => []NothingLost
  BY Inductive, PTL DEF IInv

\* huart->State and the finish flags agree with the DMA at every moment.
THEOREM FlagsRight == Spec => []FlagsTellTruth
  BY Inductive, PTL DEF IInv, Control

\* The buffer under the DMA is never written.
THEOREM BufferLeftAlone == Spec => []NoTornBlock
  BY Inductive, PTL DEF IInv, Control
=============================================================================
