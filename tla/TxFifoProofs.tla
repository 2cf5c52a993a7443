---------------------------- MODULE TxFifoProofs ----------------------------
(***************************************************************************)
(* The transmit ring for every ring length, piece size and block size: its *)
(* flag is always right, a piece goes in whole or not at all, and it is a  *)
(* queue.                                                                  *)
(***************************************************************************)
EXTENDS TxFifo, SequenceTheorems, TLAPS

\* The inductive invariant: the flag, which tells a full ring from an empty
\* one, is right.
Inv == TypeOK /\ FlagTells

\* What the invariant says of the indices and the two counts, by arithmetic.
LEMMA Counts ==
  ASSUME TypeOK, FlagTells
  PROVE  /\ Length \in Nat \ {0}
         /\ pfifo.CurrentReadNum \in 0 .. Length - 1
         /\ pfifo.CurrentWriteNum \in 0 .. Length - 1
         /\ CheckCanReadNum(pfifo) \in 0 .. Length
         /\ CheckCanWriteNum(pfifo) = Length - CheckCanReadNum(pfifo)
         /\ CheckCanReadNum(pfifo) =
              IF pfifo.FlagWrite = ZeroCircle
              THEN pfifo.CurrentWriteNum - pfifo.CurrentReadNum
              ELSE Length - pfifo.CurrentReadNum + pfifo.CurrentWriteNum
<1>1. /\ Length \in Nat \ {0} /\ Modulus \in Nat
      /\ pfifo.CurrentReadNum \in 0 .. Length - 1
      /\ pfifo.CurrentWriteNum \in 0 .. Length - 1
      /\ pfifo.FlagWrite \in {ZeroCircle, OneCircle}
  BY LengthAssumption DEF TypeOK, FIFO, Index
<1> QED BY <1>1 DEF FlagTells, CheckCanReadNum, CanReadNum, CheckCanWriteNum,
                    Unsigned, ZeroCircle, OneCircle

\* The same of the bytes to read, as a state predicate.
Tally ==
  CheckCanReadNum(pfifo) =
    IF pfifo.FlagWrite = ZeroCircle
    THEN pfifo.CurrentWriteNum - pfifo.CurrentReadNum
    ELSE Length - pfifo.CurrentReadNum + pfifo.CurrentWriteNum

\* It holds whenever the flag is right.
LEMMA Counted == Inv => Tally
BY Counts DEF Inv, Tally

\* A piece is a sequence, and not an empty one.
LEMMA PieceType ==
  ASSUME NEW s \in Piece
  PROVE  /\ s \in Seq(Byte) /\ Len(s) \in 1 .. MaxPiece
         /\ \A i \in 1 .. Len(s) : s[i] \in Byte
<1>1. PICK n \in 1 .. MaxPiece : s \in [1 .. n -> Byte]
  BY DEF Piece
<1>2. n \in Nat /\ n >= 1
  BY PieceAssumption
<1>3. s \in Seq(Byte) /\ Len(s) = n
  BY <1>1, <1>2
<1> QED BY <1>1, <1>2, <1>3

\* A piece that is refused leaves the ring as it is.
LEMMA RefuseKeeps ==
  ASSUME Inv, NEW s \in Piece, Refuse(s)
  PROVE  Inv' /\ pfifo' = pfifo /\ UNCHANGED Contents
<1>1. pfifo' = pfifo
  BY Counts, PieceType DEF Inv, Refuse, Fits, WriteFIFO
<1>2. test_fifo_full' \in Nat
  BY DEF Refuse, Inv, TypeOK
<1> QED BY <1>1, <1>2 DEF Inv, TypeOK, FlagTells, Contents

\* A piece that fits leaves the flag right.
LEMMA StoreKeepsInv ==
  ASSUME Inv, NEW s \in Piece, Store(s)
  PROVE  /\ Inv'
         /\ pfifo' = Written(pfifo, s)
         /\ Len(s) <= CheckCanWriteNum(pfifo)
<1>1. Len(s) <= CheckCanWriteNum(pfifo)
  BY DEF Store, Fits
<1>2. pfifo' = Written(pfifo, s) /\ test_fifo_full' = test_fifo_full
  BY <1>1, PieceType, Counts DEF Inv, Store, WriteFIFO
<1> DEFINE W == pfifo.CurrentWriteNum
           R == pfifo.CurrentReadNum
           n == Len(s)
<1>3. /\ W \in 0 .. Length - 1 /\ R \in 0 .. Length - 1 /\ n \in Nat
      /\ Length \in Nat \ {0} /\ pfifo.FlagWrite \in {ZeroCircle, OneCircle}
      /\ n <= IF pfifo.FlagWrite = ZeroCircle THEN Length - W + R ELSE R - W
  BY <1>1, Counts, PieceType DEF Inv, TypeOK, FIFO
<1>4. Around(W + n) \in 0 .. Length - 1
  BY <1>3 DEF Around, Inv, FlagTells
<1>5. pfifo' \in FIFO
  <2>1. ASSUME NEW i \in Index
        PROVE  (IF Distance(W, i) < n THEN s[Distance(W, i) + 1] ELSE pfifo.buf[i]) \in Byte
    <3>1. Distance(W, i) \in Nat
      BY <1>3 DEF Distance, Index
    <3>2. Distance(W, i) < n => s[Distance(W, i) + 1] \in Byte
      BY <1>3, <3>1, PieceType
    <3>3. pfifo.buf[i] \in Byte
      BY DEF Inv, TypeOK, FIFO
    <3> QED BY <3>2, <3>3
  <2>2. pfifo'.buf \in [Index -> Byte]
    BY <1>2, <2>1 DEF Written
  <2> QED BY <1>2, <1>3, <1>4, <2>2 DEF Written, FIFO, Index
<1>6. FlagTells'
  BY <1>2, <1>3, <1>4 DEF Written, Around, FlagTells, Inv, ZeroCircle, OneCircle
<1> QED BY <1>1, <1>2, <1>5, <1>6 DEF Inv, TypeOK

\* Taking bytes that are there leaves the flag right.
LEMMA ReadKeepsInv ==
  ASSUME Inv, NEW n \in Nat, n <= CheckCanReadNum(pfifo),
         pfifo' = ReadFIFO(pfifo, n), UNCHANGED test_fifo_full
  PROVE  Inv' /\ pfifo' = ReadOut(pfifo, n)
<1>1. pfifo' = ReadOut(pfifo, n)
  BY Counts DEF Inv, ReadFIFO
<1> DEFINE W == pfifo.CurrentWriteNum
           R == pfifo.CurrentReadNum
<1>2. /\ W \in 0 .. Length - 1 /\ R \in 0 .. Length - 1
      /\ Length \in Nat \ {0} /\ pfifo.FlagWrite \in {ZeroCircle, OneCircle}
      /\ n <= IF pfifo.FlagWrite = ZeroCircle THEN W - R ELSE Length - R + W
  BY Counts DEF Inv, TypeOK, FIFO
<1>3. Around(R + n) \in 0 .. Length - 1
  BY <1>2 DEF Around, Inv, FlagTells
<1>4. pfifo' \in FIFO
  BY <1>1, <1>3 DEF ReadOut, FIFO, Index, Inv, TypeOK
<1>5. /\ pfifo'.CurrentReadNum = Around(R + n)
      /\ pfifo'.CurrentWriteNum = W
      /\ pfifo'.FlagWrite = IF R + n >= Length THEN ZeroCircle ELSE pfifo.FlagWrite
  BY <1>1 DEF ReadOut, Inv, TypeOK, FIFO
<1>6. FlagTells'
  BY <1>2, <1>3, <1>5 DEF Around, FlagTells, Inv, ZeroCircle, OneCircle
<1> QED BY <1>1, <1>4, <1>6 DEF Inv, TypeOK

\* Every step out of the ring takes at least one byte that is there.
LEMMA TakeReads ==
  ASSUME Inv, TakeBlock \/ TakeRest
  PROVE  \E n \in 1 .. CheckCanReadNum(pfifo) :
            pfifo' = ReadFIFO(pfifo, n) /\ UNCHANGED test_fifo_full
<1>1. CheckCanReadNum(pfifo) \in Nat
  BY Counts DEF Inv
<1>2. CASE TakeBlock
  BY <1>1, <1>2, PieceAssumption DEF TakeBlock
<1>3. CASE TakeRest
  BY <1>1, <1>3 DEF TakeRest
<1> QED BY <1>2, <1>3

\* An empty ring meets the invariant.
LEMMA InitInv == Init => Inv
BY LengthAssumption DEF Init, IsNewFIFO, Inv, TypeOK, FlagTells

\* Every step keeps the invariant.
LEMMA NextKeepsInv == Inv /\ [Next]_vars => Inv'
<1> SUFFICES ASSUME Inv, [Next]_vars
             PROVE  Inv'
  OBVIOUS
<1>1. CASE \E s \in Piece : Fill(s)
  BY <1>1, StoreKeepsInv, RefuseKeeps DEF Fill
<1>2. CASE TakeBlock \/ TakeRest
  <2>1. PICK n \in 1 .. CheckCanReadNum(pfifo) :
           pfifo' = ReadFIFO(pfifo, n) /\ UNCHANGED test_fifo_full
    BY <1>2, TakeReads
  <2>2. n \in Nat /\ n <= CheckCanReadNum(pfifo)
    BY <2>1, Counts DEF Inv
  <2> QED BY <2>1, <2>2, ReadKeepsInv
<1>3. CASE UNCHANGED vars
  BY <1>3 DEF vars, Inv, TypeOK, FlagTells
<1> QED BY <1>1, <1>2, <1>3 DEF Next

\* The flag is right, and the ring and its indices have their types, in every
\* behaviour.
THEOREM Invariance == Spec => []Inv
BY InitInv, NextKeepsInv, PTL DEF Spec

\* The ring and the count of refused pieces always have their types: the
\* indices WriteFIFO and ReadFIFO move never leave the ring.
THEOREM TypeCorrect == Spec => []TypeOK
BY Invariance, PTL DEF Inv

\* The flag by which FIFO.c tells a full ring from an empty one is always right.
THEOREM FlagRight == Spec => []FlagTells
BY Invariance, PTL DEF Inv

\* CheckCanWriteNum and CheckCanReadNum always add up to the ring, so neither
\* unsigned counter wraps.
THEOREM CountsRight == Spec => []CountsAddUp
<1>1. Inv => CountsAddUp
  BY Counts DEF Inv, CountsAddUp
<1> QED BY <1>1, Invariance, PTL

-----------------------------------------------------------------------------
(***************************************************************************)
(* The ring implements the queue.                                          *)
(***************************************************************************)
\* The contents are a sequence of as many bytes as CheckCanReadNum counts.
ContentsRight ==
  /\ Contents \in Seq(Byte)
  /\ Len(Contents) = CheckCanReadNum(pfifo)
  /\ CheckCanReadNum(pfifo) \in 0 .. Length
  /\ \A k \in 1 .. CheckCanReadNum(pfifo) :
       Contents[k] = pfifo.buf[Around(pfifo.CurrentReadNum + k - 1)]

\* They are, in every state of the ring: its places stay inside the buffer.
LEMMA ContentsAreRight == Inv => ContentsRight
<1> SUFFICES ASSUME Inv
             PROVE  ContentsRight
  OBVIOUS
<1> DEFINE m == CheckCanReadNum(pfifo)
           R == pfifo.CurrentReadNum
<1>1. /\ m \in 0 .. Length /\ R \in 0 .. Length - 1 /\ Length \in Nat \ {0}
  BY Counts DEF Inv
<1>2. pfifo.buf \in [Index -> Byte]
  BY DEF Inv, TypeOK, FIFO
<1>3. \A k \in 1 .. m : Around(R + k - 1) \in Index
  BY <1>1 DEF Around, Index
<1>4. Contents = [k \in 1 .. m |-> pfifo.buf[Around(R + k - 1)]]
  BY DEF Contents
<1> HIDE DEF m, R
<1>5. Contents \in [1 .. m -> Byte]
  BY <1>2, <1>3, <1>4
<1>6. Contents \in Seq(Byte) /\ Len(Contents) = m
  BY <1>1, <1>5
<1> QED BY <1>1, <1>4, <1>6 DEF m, R, ContentsRight

\* A piece that goes in leaves the places of the bytes already there alone.
LEMMA StoreKeepsPlaces ==
  ASSUME Inv, NEW s \in Piece, Store(s),
         NEW k \in 1 .. CheckCanReadNum(pfifo)
  PROVE  LET i == Around(pfifo.CurrentReadNum + k - 1)
         IN  pfifo'.buf[i] = pfifo.buf[i]
<1> DEFINE W == pfifo.CurrentWriteNum
           R == pfifo.CurrentReadNum
           i == Around(R + k - 1)
<1>1. /\ W \in 0 .. Length - 1 /\ R \in 0 .. Length - 1
      /\ Length \in Nat \ {0} /\ k \in Nat \ {0}
      /\ pfifo.FlagWrite \in {ZeroCircle, OneCircle}
      /\ k <= IF pfifo.FlagWrite = ZeroCircle THEN W - R ELSE Length - R + W
  BY Counts DEF Inv, TypeOK, FIFO
<1>2. /\ Len(s) \in Nat
      /\ Len(s) <= IF pfifo.FlagWrite = ZeroCircle THEN Length - W + R ELSE R - W
  BY <1>1, Counts, StoreKeepsInv, PieceType, SMTT(30) DEF Inv
<1>3. i \in Index
  BY <1>1 DEF Around, Index
<1>4. Distance(W, i) >= Len(s)
  BY <1>1, <1>2, SMTT(30) DEF Around, Distance, Inv, FlagTells, ZeroCircle, OneCircle
<1>5. Distance(W, i) \in Nat
  BY <1>1, <1>3 DEF Distance, Index
<1>6. pfifo' = Written(pfifo, s)
  BY StoreKeepsInv
<1>7. pfifo'.buf[i] = IF Distance(W, i) < Len(s)
                      THEN s[Distance(W, i) + 1] ELSE pfifo.buf[i]
  BY <1>3, <1>6 DEF Written
<1> QED BY <1>2, <1>4, <1>5, <1>7

\* Where the ring keeps the place j behind m bytes that begin at place r and
\* end before place w.
LEMMA PlaceBehind ==
  ASSUME NEW r \in 0 .. Length - 1, NEW w \in 0 .. Length - 1, NEW m \in 0 .. Length,
         NEW j \in Nat \ {0}, Length \in Nat \ {0},
         m = w - r \/ m = Length - r + w, m + j <= Length
  PROVE  LET i == Around(r + (m + j) - 1)
         IN  i \in Index /\ Distance(w, i) = j - 1
<1> DEFINE i == Around(r + (m + j) - 1)
<1>1. CASE m = w - r
  <2>1. r + (m + j) - 1 = w + j - 1
    BY <1>1
  <2>2. CASE w + j - 1 >= Length
    <3>1. i = w + j - 1 - Length
      BY <2>1, <2>2 DEF Around
    <3> QED BY <1>1, <2>2, <3>1 DEF Distance, Index
  <2>3. CASE w + j - 1 < Length
    <3>1. i = w + j - 1
      BY <2>1, <2>3 DEF Around
    <3> QED BY <1>1, <2>3, <3>1 DEF Distance, Index
  <2> QED BY <2>2, <2>3
<1>2. CASE m = Length - r + w
  <2>1. r + (m + j) - 1 = Length + (w + j - 1) /\ w + j - 1 < Length
    BY <1>2
  <2>2. i = w + j - 1
    BY <2>1 DEF Around
  <2> QED BY <1>2, <2>1, <2>2 DEF Distance, Index
<1> QED BY <1>1, <1>2

\* A piece that fits goes in, unbroken, behind the bytes already there.
LEMMA StoreAppends ==
  ASSUME Inv, NEW s \in Piece, Store(s)
  PROVE  Contents' = Contents \o s /\ Queue!Put
<1> DEFINE m == CheckCanReadNum(pfifo)
           n == CheckCanReadNum(pfifo')
           W == pfifo.CurrentWriteNum
           R == pfifo.CurrentReadNum
<1>1. Inv' /\ pfifo' = Written(pfifo, s) /\ Len(s) <= CheckCanWriteNum(pfifo)
  BY StoreKeepsInv
<1>2. /\ W \in 0 .. Length - 1 /\ R \in 0 .. Length - 1 /\ Length \in Nat \ {0}
      /\ m \in 0 .. Length /\ CheckCanWriteNum(pfifo) = Length - m
      /\ m = IF pfifo.FlagWrite = ZeroCircle THEN W - R ELSE Length - R + W
      /\ pfifo.FlagWrite \in {ZeroCircle, OneCircle}
      /\ Len(s) \in Nat
  BY Counts, PieceType DEF Inv, TypeOK, FIFO
<1>3. /\ pfifo'.CurrentReadNum = R
      /\ pfifo'.CurrentWriteNum = Around(W + Len(s))
      /\ pfifo'.FlagWrite = IF W + Len(s) >= Length THEN OneCircle ELSE pfifo.FlagWrite
  BY <1>1 DEF Written
<1>4. n = m + Len(s)
  <2>1. n = IF pfifo'.FlagWrite = ZeroCircle
            THEN pfifo'.CurrentWriteNum - R ELSE Length - R + pfifo'.CurrentWriteNum
    <3>1. (Inv => Tally)'
      BY Counted, PTL
    <3> QED BY <1>1, <1>3, <3>1 DEF Tally
  <2>2. Len(s) <= IF pfifo.FlagWrite = ZeroCircle THEN Length - W + R ELSE R - W
    BY <1>1, <1>2
  <2>3. CASE pfifo.FlagWrite = ZeroCircle
    <3>1. n = W + Len(s) - R
      BY <1>2, <1>3, <2>1, <2>2, <2>3 DEF Around, ZeroCircle, OneCircle
    <3> QED BY <1>2, <2>3, <3>1
  <2>4. CASE pfifo.FlagWrite # ZeroCircle
    <3>1. W + Len(s) < Length
      BY <1>2, <2>2, <2>4
    <3>2. n = Length - R + (W + Len(s))
      BY <1>2, <1>3, <2>1, <2>4, <3>1 DEF Around
    <3> QED BY <1>2, <2>4, <3>2
  <2> QED BY <2>3, <2>4
<1>5. /\ Contents \in Seq(Byte) /\ Len(Contents) = m
      /\ \A k \in 1 .. m : Contents[k] = pfifo.buf[Around(R + k - 1)]
  BY ContentsAreRight DEF ContentsRight
<1>6. /\ Contents' \in Seq(Byte) /\ Len(Contents') = n /\ n \in 0 .. Length
      /\ \A k \in 1 .. n : Contents'[k] = pfifo'.buf[Around(R + k - 1)]
  <2>1. (Inv => ContentsRight)'
    BY ContentsAreRight, PTL
  <2> QED BY <1>1, <1>3, <2>1 DEF ContentsRight
<1>7. \A k \in 1 .. m : Contents'[k] = Contents[k]
  <2> SUFFICES ASSUME NEW k \in 1 .. m
               PROVE  Contents'[k] = Contents[k]
    OBVIOUS
  <2>1. k \in 1 .. n
    BY <1>2, <1>4
  <2>2. pfifo'.buf[Around(R + k - 1)] = pfifo.buf[Around(R + k - 1)]
    BY StoreKeepsPlaces
  <2> QED BY <1>5, <1>6, <2>1, <2>2
<1>8. \A j \in 1 .. Len(s) : Contents'[m + j] = s[j]
  <2> SUFFICES ASSUME NEW j \in 1 .. Len(s)
               PROVE  Contents'[m + j] = s[j]
    OBVIOUS
  <2> DEFINE i == Around(R + (m + j) - 1)
  <2> HIDE DEF m, n, R, W
  <2>1. j \in Nat \ {0} /\ j <= Len(s) /\ m + j \in 1 .. n
    BY <1>2, <1>4
  <2>2. m + j <= Length
    BY <1>1, <1>2, <2>1
  <2>3. i \in Index /\ Distance(W, i) = j - 1
    BY <1>2, <2>1, <2>2, PlaceBehind
  <2>4. pfifo'.buf[i] = s[j]
    <3> HIDE DEF i
    <3>1. pfifo'.buf[i] = IF Distance(W, i) < Len(s)
                          THEN s[Distance(W, i) + 1] ELSE pfifo.buf[i]
      BY <1>1, <2>3 DEF Written, W
    <3>2. j - 1 < Len(s) /\ (j - 1) + 1 = j
      BY <1>2, <2>1
    <3> QED BY <2>3, <3>1, <3>2
  <2> QED BY <1>6, <2>1, <2>4
<1> HIDE DEF m, n, R, W
<1>9. SubSeq(Contents', 1, m) = Contents
  <2>1. \A k \in 1 .. m : Contents[k] \in Byte
    BY <1>5, LenProperties
  <2>2. \A k \in 1 .. m : Contents'[k] \in Byte
    BY <1>7, <2>1
  <2>3. /\ SubSeq(Contents', 1, m) \in Seq(Byte)
        /\ Len(SubSeq(Contents', 1, m)) = m
        /\ \A k \in 1 .. m : SubSeq(Contents', 1, m)[k] = Contents'[k]
    BY <1>2, <2>2, SubSeqProperties
  <2> QED BY <1>5, <1>7, <2>3, SeqEqual
<1>10. Queue!Put
  BY <1>2, <1>4, <1>5, <1>6, <1>9 DEF Queue!Put
<1>11. Contents' = Contents \o s
  <2>1. s \in Seq(Byte)
    BY PieceType
  <2>2. /\ Contents \o s \in Seq(Byte) /\ Len(Contents \o s) = m + Len(s)
        /\ \A k \in 1 .. m + Len(s) :
             (Contents \o s)[k] = IF k <= m THEN Contents[k] ELSE s[k - m]
    BY <1>5, <2>1, ConcatProperties
  <2>3. ASSUME NEW k \in 1 .. n
        PROVE  Contents'[k] = (Contents \o s)[k]
    <3>1. CASE k <= m
      <4>1. k \in 1 .. m /\ k \in 1 .. m + Len(s)
        BY <1>2, <1>4, <3>1
      <4> QED BY <1>7, <2>2, <3>1, <4>1
    <3>2. CASE ~(k <= m)
      <4>1. /\ k - m \in 1 .. Len(s) /\ k \in 1 .. m + Len(s)
            /\ m + (k - m) = k /\ ~(k <= m)
        BY <1>2, <1>4, <3>2
      <4>2. Contents'[m + (k - m)] = s[k - m]
        BY <1>8, <4>1
      <4> QED BY <2>2, <4>1, <4>2
    <3> QED BY <3>1, <3>2
  <2> QED BY <1>4, <1>6, <2>2, <2>3, SeqEqual
<1> QED BY <1>10, <1>11

\* Bytes that leave are the oldest.
LEMMA ReadTakes ==
  ASSUME Inv, NEW c \in 1 .. CheckCanReadNum(pfifo),
         pfifo' = ReadFIFO(pfifo, c), UNCHANGED test_fifo_full
  PROVE  Queue!Take
<1> DEFINE m == CheckCanReadNum(pfifo)
           n == CheckCanReadNum(pfifo')
           W == pfifo.CurrentWriteNum
           R == pfifo.CurrentReadNum
<1>1. /\ W \in 0 .. Length - 1 /\ R \in 0 .. Length - 1 /\ Length \in Nat \ {0}
      /\ m \in 0 .. Length /\ c \in Nat \ {0} /\ c <= m
      /\ m = IF pfifo.FlagWrite = ZeroCircle THEN W - R ELSE Length - R + W
      /\ pfifo.FlagWrite \in {ZeroCircle, OneCircle}
  BY Counts DEF Inv, TypeOK, FIFO
<1>2. Inv' /\ pfifo' = ReadOut(pfifo, c)
  BY <1>1, ReadKeepsInv
<1>3. /\ pfifo'.CurrentReadNum = Around(R + c)
      /\ pfifo'.CurrentWriteNum = W
      /\ pfifo'.FlagWrite = IF R + c >= Length THEN ZeroCircle ELSE pfifo.FlagWrite
      /\ pfifo'.buf = pfifo.buf
  BY <1>2 DEF ReadOut, Inv, TypeOK, FIFO
<1>4. n = m - c
  <2>1. n = IF pfifo'.FlagWrite = ZeroCircle
            THEN W - pfifo'.CurrentReadNum ELSE Length - pfifo'.CurrentReadNum + W
    <3>1. (Inv => Tally)'
      BY Counted, PTL
    <3> QED BY <1>2, <1>3, <3>1 DEF Tally
  <2>2. FlagTells
    BY DEF Inv
  <2> HIDE DEF n
  <2> QED BY <1>1, <1>3, <2>1, <2>2 DEF Around, FlagTells, ZeroCircle, OneCircle
<1>5. /\ Contents \in Seq(Byte) /\ Len(Contents) = m
      /\ \A k \in 1 .. m : Contents[k] = pfifo.buf[Around(R + k - 1)]
  BY ContentsAreRight DEF ContentsRight
<1>6. /\ Contents' \in Seq(Byte) /\ Len(Contents') = n
      /\ \A k \in 1 .. n : Contents'[k] = pfifo.buf[Around(Around(R + c) + k - 1)]
  <2>1. (Inv => ContentsRight)'
    BY ContentsAreRight, PTL
  <2> QED BY <1>2, <1>3, <2>1 DEF ContentsRight
<1>7. \A k \in 1 .. n : Contents'[k] = Contents[c + k]
  <2> SUFFICES ASSUME NEW k \in 1 .. n
               PROVE  Contents'[k] = Contents[c + k]
    OBVIOUS
  <2>1. /\ k \in Nat \ {0} /\ c + k <= m /\ c + k \in 1 .. m
    BY <1>1, <1>4
  <2>2. Around(Around(R + c) + k - 1) = Around(R + (c + k) - 1)
    BY <1>1, <2>1 DEF Around
  <2> QED BY <1>5, <1>6, <2>1, <2>2
<1> HIDE DEF m, n, R, W
<1>8. Contents' = SubSeq(Contents, c + 1, m)
  <2>1. \A k \in 1 .. m : Contents[k] \in Byte
    BY <1>5, LenProperties
  <2>2. \A k \in (c + 1) .. m : Contents[k] \in Byte
    BY <1>1, <2>1
  <2>3. /\ SubSeq(Contents, c + 1, m) \in Seq(Byte)
        /\ Len(SubSeq(Contents, c + 1, m)) = n
        /\ \A k \in 1 .. n : SubSeq(Contents, c + 1, m)[k] = Contents[c + k]
    BY <1>1, <1>4, <2>2, SubSeqProperties
  <2> QED BY <1>6, <1>7, <2>3, SeqEqual
<1>9. c \in 1 .. m
  BY <1>1
<1> QED BY <1>5, <1>8, <1>9 DEF Queue!Take

(***************************************************************************)
(* Whatever is put into the transmit ring comes out of it once, in order,  *)
(* and it never holds more than its length: the ring refines the queue.    *)
(***************************************************************************)
THEOREM RingIsQueue == Spec => IsQueue
<1>1. Init => Queue!Init
  <2> SUFFICES ASSUME Init
               PROVE  Contents = <<>>
    BY DEF Queue!Init
  <2>1. CheckCanReadNum(pfifo) = 0
    BY DEF Init, IsNewFIFO, CheckCanReadNum, CanReadNum, Unsigned
  <2>2. Contents \in Seq(Byte) /\ Len(Contents) = 0
    BY <2>1, InitInv, ContentsAreRight DEF ContentsRight
  <2> QED BY <2>2
<1>2. Inv /\ [Next]_vars => [Queue!Next]_Contents
  <2> SUFFICES ASSUME Inv, [Next]_vars
               PROVE  Queue!Next \/ UNCHANGED Contents
    OBVIOUS
  <2>1. CASE \E s \in Piece : Fill(s)
    BY <2>1, StoreAppends, RefuseKeeps DEF Queue!Next, Fill
  <2>2. CASE TakeBlock \/ TakeRest
    BY <2>2, TakeReads, ReadTakes DEF Queue!Next
  <2>3. CASE UNCHANGED vars
    BY <2>3 DEF vars, Contents
  <2> QED BY <2>1, <2>2, <2>3 DEF Next
<1> QED BY <1>1, <1>2, Invariance, PTL DEF Spec, IsQueue, Queue!Spec

(***************************************************************************)
(* A piece of at most NodeMax bytes is never refused, and any other either *)
(* is stored unbroken behind all that waits or leaves the ring untouched.  *)
(***************************************************************************)
THEOREM PiecesWhole == Spec => PiecesStayWhole
<1>1. ASSUME Inv, [Next]_vars, NEW s \in Piece, Fill(s)
      PROVE  IF Len(s) <= NodeMax \/ Len(Contents) + Len(s) <= Length
             THEN Contents' = Contents \o s /\ UNCHANGED test_fifo_full
             ELSE UNCHANGED Contents /\ test_fifo_full' = test_fifo_full + 1
  <2>1. /\ CheckCanWriteNum(pfifo) = Length - CheckCanReadNum(pfifo)
        /\ CheckCanReadNum(pfifo) \in 0 .. Length /\ Length \in Nat
        /\ Len(Contents) = CheckCanReadNum(pfifo)
    BY <1>1, Counts, ContentsAreRight DEF Inv, ContentsRight
  <2>2. Len(s) \in Nat /\ NodeMax \in Nat
    BY PieceType, PieceAssumption
  <2>3. Fits(s) <=> Len(Contents) + Len(s) <= Length
    BY <2>1, <2>2 DEF Fits
  <2>4. Len(s) <= NodeMax => Fits(s)
    BY <1>1, <2>1, <2>2 DEF Fits, Fill
  <2>5. CASE Store(s)
    BY <1>1, <2>3, <2>5, StoreAppends DEF Store
  <2>6. CASE Refuse(s)
    BY <1>1, <2>3, <2>4, <2>6, RefuseKeeps DEF Refuse
  <2> QED BY <1>1, <2>5, <2>6 DEF Fill
<1>2. Inv /\ [Next]_vars =>
        [\A s \in Piece : Fill(s) =>
           IF Len(s) <= NodeMax \/ Len(Contents) + Len(s) <= Length
           THEN Contents' = Contents \o s /\ UNCHANGED test_fifo_full
           ELSE UNCHANGED Contents /\ test_fifo_full' = test_fifo_full + 1]_vars
  BY <1>1
<1> QED BY <1>2, Invariance, PTL DEF Spec, PiecesStayWhole
=============================================================================
