-------------------------------- MODULE Fifo --------------------------------
(***************************************************************************)
(* The ring buffer of scr_code/FIFO.c, as operators on a FIFO structure.   *)
(* The fields CanWriteNum and CanReadNum are scratch: every function sets  *)
(* them before it looks at them, so they are results here, not state.      *)
(***************************************************************************)
EXTENDS Integers, Sequences

CONSTANTS
  Length,    \* how many bytes the ring holds (DmaFIFO->Length)
  Modulus,   \* the counters are unsigned: they wrap at this value
  Byte       \* what the ring holds

ASSUME LengthAssumption ==
  /\ Length \in Nat \ {0}
  /\ Modulus \in Nat /\ Modulus > 2 * Length

Index == 0 .. Length - 1

ZeroCircle == 0   \* the write index is ahead of the read index, or level with it
OneCircle  == 1   \* the write index has gone round once more than the read index

FIFO == [buf : [Index -> Byte], CurrentWriteNum : Index,
         CurrentReadNum : Index, FlagWrite : {ZeroCircle, OneCircle}]

\* InitFIFO, over a buffer that holds anything.
IsNewFIFO(f) ==
  /\ f \in FIFO
  /\ f.CurrentWriteNum = 0 /\ f.CurrentReadNum = 0 /\ f.FlagWrite = ZeroCircle

\* An unsigned difference; the operands are at most Length apart.
Unsigned(n) == IF n < 0 THEN n + Modulus ELSE n

\* Mutant of CheckCanWriteNum: keeps one place free on one side only.
CheckCanWriteNumLess(f) ==
  Unsigned(IF f.FlagWrite = ZeroCircle
           THEN Length - f.CurrentWriteNum + f.CurrentReadNum - 1
           ELSE f.CurrentReadNum - f.CurrentWriteNum)

CheckCanWriteNum(f) ==
  Unsigned(IF f.FlagWrite = ZeroCircle
           THEN Length - f.CurrentWriteNum + f.CurrentReadNum
           ELSE f.CurrentReadNum - f.CurrentWriteNum)

\* CheckCanReadNum, with the flag and the write index its reads returned.
CanReadNum(f, flag, write) ==
  Unsigned(IF flag = ZeroCircle THEN write - f.CurrentReadNum
           ELSE Length - f.CurrentReadNum + write)

CheckCanReadNum(f) == CanReadNum(f, f.FlagWrite, f.CurrentWriteNum)

\* Mutant of Around: off by one.
AroundLate(i) == IF i > Length THEN i - Length ELSE i

\* An index past the last place of the ring goes on at the first.
Around(i) == IF i >= Length THEN i - Length ELSE i

\* How far place i of the ring is after place from.
Distance(from, i) == IF i >= from THEN i - from ELSE i - from + Length

\* The loop of WriteFIFO: s goes in at the write index; the flag is set when
\* the index returns to 0.
Written(f, s) ==
  [buf |-> [i \in Index |-> IF Distance(f.CurrentWriteNum, i) < Len(s)
                            THEN s[Distance(f.CurrentWriteNum, i) + 1] ELSE f.buf[i]],
   CurrentWriteNum |-> Around(f.CurrentWriteNum + Len(s)),
   CurrentReadNum |-> f.CurrentReadNum,
   FlagWrite |-> IF f.CurrentWriteNum + Len(s) >= Length THEN OneCircle ELSE f.FlagWrite]

\* WriteFIFO: all of s, or nothing (NOMORENUM) if it does not fit.
WriteFIFO(f, s) == IF CheckCanWriteNum(f) >= Len(s) THEN Written(f, s) ELSE f

\* Mutant of ReadOut: the flag stays set when the read index returns to 0.
ReadOutSticky(f, n) == [f EXCEPT !.CurrentReadNum = Around(@ + n)]

\* The loop of ReadFIFO over n bytes; the flag is cleared when the read index
\* returns to 0.
ReadOut(f, n) ==
  [f EXCEPT !.CurrentReadNum = Around(@ + n),
            !.FlagWrite = IF f.CurrentReadNum + n >= Length THEN ZeroCircle ELSE @]

\* ReadFIFO: n bytes or nothing (NOMORENUM).
ReadFIFO(f, n) == IF CheckCanReadNum(f) >= n THEN ReadOut(f, n) ELSE f
=============================================================================
