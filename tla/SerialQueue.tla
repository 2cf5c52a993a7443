---------------------------- MODULE SerialQueue ----------------------------
(***************************************************************************)
(* serialutility/SerialQueue.c and SerialUtility.c: the queues between the *)
(* network and the serial ports.  An array has MAX_QUEUE_NUM slots; a port *)
(* takes a free slot with its first piece of data and gives it back when   *)
(* it finds its queue empty.  A piece is a sequence of units of data.      *)
(***************************************************************************)
EXTENDS Integers, SequencesExt

CONSTANTS
  MAX_SERIAL_NUM,   \* how many serial ports there are
  MAX_QUEUE_NUM,    \* how many slots an array of queues has
  Modulus           \* the counters are unsigned: 2^32

ASSUME QueueAssumption ==
  /\ MAX_SERIAL_NUM \in Nat \ {0} /\ MAX_QUEUE_NUM \in Nat
  /\ MAX_QUEUE_NUM >= MAX_SERIAL_NUM
  /\ Modulus \in Nat

Ports    == 0 .. MAX_SERIAL_NUM - 1
Slots    == 0 .. MAX_QUEUE_NUM - 1
NoSerial == MAX_SERIAL_NUM   \* the code writes 200

EmptySlot == [empty_queue |-> 1, serial_no |-> NoSerial, queue |-> <<>>]

Piece  == Seq(Nat) \ {<<>>}
Queue  == Seq(Piece)

\* How much data there is in a sequence of pieces.
Total(pieces) ==
  LET upTo[k \in 0 .. Len(pieces)] == IF k = 0 THEN 0 ELSE upTo[k - 1] + Len(pieces[k])
  IN  upTo[Len(pieces)]

\* A counter less n: below zero it starts again from the top.
Minus(m, n) == IF n <= m THEN m - n ELSE m - n + Modulus

FirstOf(S) == CHOOSE i \in S : \A j \in S : i <= j

\* The slots in which the search for the queue of port p stops.
SlotsOf(array, p) == {i \in Slots : array[i].empty_queue = 0 /\ array[i].serial_no = p}
SlotOf(array, p)  == FirstOf(SlotsOf(array, p))
FreeSlots(array)  == {i \in Slots : array[i].empty_queue = 1}

\* What waits for port p.
Contents(array, p) ==
  IF SlotsOf(array, p) = {} THEN <<>> ELSE array[SlotOf(array, p)].queue

Add(array, i, pieces) == [array EXCEPT ![i].queue = @ \o pieces]

\* Mutant of NewQueue: the slot is not given its port.
NewQueueUnnamed(array, p, pieces) ==
  [array EXCEPT ![FirstOf(FreeSlots(array))] =
     [@ EXCEPT !.empty_queue = 0, !.queue = pieces]]

\* The queue of a port that had none.
NewQueue(array, p, pieces) ==
  [array EXCEPT ![FirstOf(FreeSlots(array))] =
     [empty_queue |-> 0, serial_no |-> p, queue |-> pieces]]

\* Mutant of addToQueue: looks for a free slot before the port's own.
addToQueueFree(array, p, pieces) ==
  IF pieces = <<>> THEN array
  ELSE IF FreeSlots(array) # {} THEN NewQueue(array, p, pieces)
  ELSE IF SlotsOf(array, p) # {} THEN Add(array, SlotOf(array, p), pieces)
  ELSE array

\* Pieces added one after the other, to the port's own queue if it has one, to
\* a new one if a slot is free, and else to none.
addToQueue(array, p, pieces) ==
  IF pieces = <<>> THEN array
  ELSE IF SlotsOf(array, p) # {} THEN Add(array, SlotOf(array, p), pieces)
  ELSE IF FreeSlots(array) # {} THEN NewQueue(array, p, pieces)
  ELSE array

\* A queue found empty gives its slot back.  The slot keeps its serial_no.
FreeSlot(array, p) == [array EXCEPT ![SlotOf(array, p)].empty_queue = 1]

DropFirst(queue, n) == SubSeq(queue, n + 1, Len(queue))

\* The n oldest pieces of port p leave.
Withdraw(array, p, n) == [array EXCEPT ![SlotOf(array, p)].queue = DropFirst(@, n)]

\* How many pieces getQueueData hands out, called until it refuses one that
\* would not fit into length any more, or until length is reached.
Fitting(queue, length) ==
  CHOOSE n \in 0 .. Len(queue) :
    /\ Total(SubSeq(queue, 1, n)) <= length
    /\ \A m \in n + 1 .. Len(queue) : Total(SubSeq(queue, 1, m)) > length

\* What readClientQueueToBuf copies into a buffer of the given length.
Batch(array, p, length) ==
  SubSeq(Contents(array, p), 1, Fitting(Contents(array, p), length))

\* Mutant of DataLengthLeft: the loop does not reset data_length.
DataLengthLeftKept(batch) == IF batch = <<>> THEN 0 ELSE Len(Last(batch))

\* data_length as the call finds it that comes after the last piece: a call
\* that hands out no piece leaves it as it is.
DataLengthLeft(batch) == 0

\* What the calls of getClientSerialData take off the counter: the length of
\* each piece, and data_length once more if the last call refused a piece.  One
\* that finds no queue, or an empty one, takes nothing off.
TakenOff(array, p, length) ==
  LET batch == Batch(array, p, length)
  IN  Total(batch) +
      IF Len(batch) < Len(Contents(array, p)) /\ Total(batch) < length
      THEN DataLengthLeft(batch) ELSE 0

\* The array after readClientQueueToBuf: having emptied the queue without
\* filling the buffer it asks once more, and that call frees the slot.
AfterBatch(array, p, length) ==
  LET n == Len(Batch(array, p, length))
  IN  IF SlotsOf(array, p) = {} THEN array
      ELSE IF n = Len(Contents(array, p)) /\ Total(Batch(array, p, length)) < length
           THEN FreeSlot(Withdraw(array, p, n), p) ELSE Withdraw(array, p, n)

\* Data cut into pieces of at most size units, as transmitLocalSerial does.
Cut(data, size) ==
  [k \in 1 .. (Len(data) + size - 1) \div size |->
     SubSeq(data, (k - 1) * size + 1,
            IF k * size <= Len(data) THEN k * size ELSE Len(data))]

-----------------------------------------------------------------------------
\* A slot in use has a port.
ArrayOf(array) ==
  /\ array \in [Slots -> [empty_queue : 0 .. 1, serial_no : Ports \union {NoSerial},
                          queue : Queue]]
  /\ \A s \in Slots : array[s].empty_queue = 0 => array[s].serial_no \in Ports

\* No port has two queues, and one without a queue finds a free slot.
SlotForEach(array) ==
  /\ \A s, t \in Slots :
       array[s].empty_queue = 0 /\ array[t].empty_queue = 0
         /\ array[s].serial_no = array[t].serial_no => s = t
  /\ \A p \in Ports : SlotsOf(array, p) = {} => FreeSlots(array) # {}
=============================================================================
