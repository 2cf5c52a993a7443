------------------------------- MODULE TxFifo -------------------------------
(***************************************************************************)
(* The transmit ring of a serial port (huart->pfifo): uartTransfer in      *)
(* scr_code/veth_serial.c moves data from the network into it and, through *)
(* fillinComBuffer1 and fillinComBuffer2, out to the DMA buffers.  Both    *)
(* ends run in the superloop, so each call is one step.                    *)
(***************************************************************************)
EXTENDS Fifo

CONSTANTS
  NodeMax,     \* the room uartTransfer asks of the ring (NODE_MAX_NUM)
  MaxPiece,    \* the largest piece it is then handed (COM_DATA_SIZE)
  Block,       \* the size of a DMA block (DOUBLE_BUFFER_LENGTH)
  MaxRefused   \* a bound on the pieces refused

ASSUME PieceAssumption ==
  /\ NodeMax \in Nat \ {0} /\ MaxPiece \in Nat
  /\ NodeMax <= MaxPiece /\ MaxPiece <= Length
  /\ Block \in Nat \ {0} /\ MaxRefused \in Nat

VARIABLES
  pfifo,           \* the ring
  test_fifo_full   \* pieces the ring refused

vars == <<pfifo, test_fifo_full>>

\* The pieces getServerSerialData returns: the call asks for at most MaxPiece
\* bytes, which is more than the room uartTransfer has made sure of, and than
\* tem_buffer holds, the copy WriteFIFO reads: of that overrun the model takes
\* the outcome in which nothing else used it writes over.
Piece == UNION {[1 .. n -> Byte] : n \in 1 .. MaxPiece}

Init == IsNewFIFO(pfifo) /\ test_fifo_full = 0

Fits(s) == Len(s) <= CheckCanWriteNum(pfifo)

\* The piece goes into the ring.
Store(s) ==
  Fits(s) /\ pfifo' = WriteFIFO(pfifo, s) /\ UNCHANGED test_fifo_full

\* The piece is lost ("tranfer FIFO overlap"): the queue it came from has
\* given it up, and its memory is freed.
Refuse(s) ==
  /\ ~Fits(s) /\ test_fifo_full < MaxRefused
  /\ pfifo' = WriteFIFO(pfifo, s)
  /\ test_fifo_full' = test_fifo_full + 1

\* Mutant of Fill: takes a piece as soon as there is any room.
FillEager(s) == CheckCanWriteNum(pfifo) > 0 /\ (Store(s) \/ Refuse(s))

\* uartTransfer takes a piece only if one of NodeMax bytes would fit.
Fill(s) == CheckCanWriteNum(pfifo) >= NodeMax /\ (Store(s) \/ Refuse(s))

\* halUartTransmitDma: a whole block is ready, and a DMA buffer is free.
TakeBlock ==
  /\ CheckCanReadNum(pfifo) >= Block
  /\ pfifo' = ReadFIFO(pfifo, Block)
  /\ UNCHANGED test_fifo_full

\* halUartTransmitDmaLittle: less than a block has waited long enough.
TakeRest ==
  LET fifo_len == CheckCanReadNum(pfifo)
  IN  /\ 0 < fifo_len /\ fifo_len < Block
      /\ pfifo' = ReadFIFO(pfifo, fifo_len)
      /\ UNCHANGED test_fifo_full

Next == (\E s \in Piece : Fill(s)) \/ TakeBlock \/ TakeRest

Spec == Init /\ [][Next]_vars

-----------------------------------------------------------------------------
TypeOK == pfifo \in FIFO /\ test_fifo_full \in Nat

\* The flag tells on which side of the read index the write index is.  With
\* the flag wrong, a full ring looks empty.
FlagTells ==
  IF pfifo.FlagWrite = ZeroCircle
  THEN pfifo.CurrentReadNum <= pfifo.CurrentWriteNum
  ELSE pfifo.CurrentWriteNum <= pfifo.CurrentReadNum

\* Room and contents always add up to the ring, so neither counter wraps.
CountsAddUp == CheckCanWriteNum(pfifo) + CheckCanReadNum(pfifo) = Length

\* The bytes in the ring, oldest first.
Contents ==
  [k \in 1 .. CheckCanReadNum(pfifo) |-> pfifo.buf[Around(pfifo.CurrentReadNum + k - 1)]]

\* What happens to a piece uartTransfer has taken off the network queue, and
\* freed.  One of at most NodeMax bytes is never lost, however the ring stands;
\* a longer one may be, but then as a whole: what is in the ring is untouched.
\* One that is stored comes unbroken behind all that waits.
PiecesStayWhole ==
  [][\A s \in Piece : Fill(s) =>
       IF Len(s) <= NodeMax \/ Len(Contents) + Len(s) <= Length
       THEN Contents' = Contents \o s /\ UNCHANGED test_fifo_full
       ELSE UNCHANGED Contents /\ test_fifo_full' = test_fifo_full + 1]_vars

Queue == INSTANCE BoundedQueue WITH q <- Contents, Element <- Byte, Capacity <- Length

\* The ring is a queue: nothing is lost, repeated or reordered.
IsQueue == Queue!Spec
=============================================================================
