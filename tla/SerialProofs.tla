---------------------------- MODULE SerialProofs ----------------------------
(***************************************************************************)
(* Theorems about Serial, for any number of ports and slots, any sizes and *)
(* any tables of remote hosts.  The invariant IInv says that both arrays   *)
(* of queues are sound, that the counters agree with them and that no port *)
(* has more waiting than the limit allows; each step then moves the two    *)
(* arrays in one of the few ways listed in ServerStep and ClientStep.      *)
(*                                                                         *)
(* Before that, what the operators of SerialQueue do to the queues of the  *)
(* ports: each changes the queue of one port, at one end, and keeps one    *)
(* slot a port.                                                            *)
(***************************************************************************)
EXTENDS Serial, FiniteSetTheorems, SequenceTheorems, TLAPS

-----------------------------------------------------------------------------
(* Data: sums and sequences of pieces *)

\* Every set of natural numbers, unless empty, has a least element.
LEMMA NatLeast ==
  ASSUME NEW S, S \subseteq Nat, S # {}
  PROVE  \E n \in S : \A k \in S : n <= k
<1> DEFINE R == OpToRel(<, Nat)
<1>1. IsWellFoundedOn(R, Nat)
  BY NatLessThanWellFounded
<1>2. PICK n \in S : \A k \in S : ~ (<<k, n>> \in R)
  <2> HIDE DEF R
  <2> QED BY <1>1, WFMin
<1>3. \A k \in S : n <= k
  <2>1. SUFFICES ASSUME NEW k \in S, ~ (n <= k)
                 PROVE  FALSE
    OBVIOUS
  <2>2. k \in Nat /\ n \in Nat /\ k < n
    BY <2>1
  <2>3. <<k, n>> \in R
    BY <2>2 DEF OpToRel
  <2> QED BY <1>2, <2>1, <2>3
<1> QED BY <1>3

\* Induction up to n, for the set of the numbers that have a property.
LEMMA Reaches ==
  ASSUME NEW n \in Nat, NEW Good, 0 \in Good,
         \A k \in 1 .. n : k - 1 \in Good => k \in Good
  PROVE  \A k \in 0 .. n : k \in Good
<1> DEFINE Bad == {k \in 0 .. n : k \notin Good}
<1>1. SUFFICES ASSUME Bad # {} PROVE FALSE
  OBVIOUS
<1>2. Bad \subseteq Nat
  OBVIOUS
<1>3. PICK b \in Bad : \A k \in Bad : b <= k
  <2> HIDE DEF Bad
  <2> QED BY <1>1, <1>2, NatLeast
<1>4. b \in 1 .. n /\ b - 1 \notin Bad
  BY <1>3
<1>5. b - 1 \in 0 .. n
  BY <1>4
<1> QED BY <1>3, <1>4, <1>5

\* The function with which Total adds up.
SumUpTo(pieces, n, f) ==
  f = [k \in 0 .. n |-> IF k = 0 THEN 0 ELSE f[k - 1] + Len(pieces[k])]

LEMMA SumSteps ==
  ASSUME NEW pieces, NEW n \in Nat, NEW f, SumUpTo(pieces, n, f)
  PROVE  /\ f[0] = 0
         /\ \A k \in 1 .. n : f[k] = f[k - 1] + Len(pieces[k])
<1>1. \A k \in 0 .. n : f[k] = IF k = 0 THEN 0 ELSE f[k - 1] + Len(pieces[k])
  BY DEF SumUpTo
<1>2. 0 \in 0 .. n /\ \A k \in 1 .. n : k \in 0 .. n /\ k # 0
  OBVIOUS
<1> QED BY <1>1, <1>2

LEMMA SumExists ==
  ASSUME NEW pieces \in Seq(Seq(Nat))
  PROVE  \E f : SumUpTo(pieces, Len(pieces), f)
<1> DEFINE N == Len(pieces)
           Good == {n \in 0 .. N : \E f : SumUpTo(pieces, n, f)}
<1>1. N \in Nat
  OBVIOUS
<1>2. 0 \in Good
  <2>1. SumUpTo(pieces, 0, [k \in 0 .. 0 |-> 0])
    BY DEF SumUpTo
  <2> QED BY <1>1, <2>1
<1>3. ASSUME NEW n \in 1 .. N, n - 1 \in Good
      PROVE  n \in Good
  <2>1. PICK f : SumUpTo(pieces, n - 1, f)
    BY <1>3
  <2> DEFINE g == [k \in 0 .. n |-> IF k = n THEN f[n - 1] + Len(pieces[n]) ELSE f[k]]
  <2>2. ASSUME NEW k \in 0 .. n
        PROVE  g[k] = IF k = 0 THEN 0 ELSE g[k - 1] + Len(pieces[k])
    <3>1. CASE k = n
      <4>1. n - 1 \in 0 .. n /\ n - 1 # n /\ n # 0
        BY <1>3
      <4> QED BY <3>1, <4>1
    <3>2. CASE k # n
      <4>1. k \in 0 .. n - 1
        BY <3>2
      <4>2. f[k] = IF k = 0 THEN 0 ELSE f[k - 1] + Len(pieces[k])
        BY <2>1, <4>1 DEF SumUpTo
      <4>3. k # 0 => k - 1 \in 0 .. n /\ k - 1 # n
        BY <4>1
      <4> QED BY <3>2, <4>2, <4>3
    <3> QED BY <3>1, <3>2
  <2>3. SumUpTo(pieces, n, g)
    <3> HIDE DEF g
    <3>1. g = [k \in 0 .. n |-> g[k]]
      BY DEF g
    <3> QED BY <2>2, <3>1, Zenon DEF SumUpTo
  <2> QED BY <2>3
<1> HIDE DEF Good, N
<1>4. \A k \in 0 .. N : k \in Good
  BY <1>1, <1>2, <1>3, Reaches, Zenon
<1>5. N \in Good
  BY <1>1, <1>4
<1> QED BY <1>5 DEF Good, N

\* Total is the last value of that function, and every value a number.
LEMMA TotalIsSum ==
  ASSUME NEW pieces \in Seq(Seq(Nat))
  PROVE  \E f : /\ SumUpTo(pieces, Len(pieces), f)
                /\ \A k \in 0 .. Len(pieces) : f[k] \in Nat
                /\ Total(pieces) = f[Len(pieces)]
<1> DEFINE f == CHOOSE f : SumUpTo(pieces, Len(pieces), f)
<1>1. SumUpTo(pieces, Len(pieces), f)
  BY SumExists
<1>2. Total(pieces) = f[Len(pieces)]
  BY DEF Total, SumUpTo
<1> HIDE DEF f
<1> DEFINE Good == {k \in 0 .. Len(pieces) : f[k] \in Nat}
<1>3. Len(pieces) \in Nat
  OBVIOUS
<1>4. 0 \in Good
  BY <1>1, <1>3, SumSteps
<1>5. ASSUME NEW k \in 1 .. Len(pieces), k - 1 \in Good
      PROVE  k \in Good
  <2>1. Len(pieces[k]) \in Nat
    BY ElementOfSeq
  <2>2. f[k] = f[k - 1] + Len(pieces[k])
    BY <1>1, <1>3, SumSteps
  <2> QED BY <1>5, <2>1, <2>2
<1> HIDE DEF Good
<1>6. \A k \in 0 .. Len(pieces) : k \in Good
  BY <1>3, <1>4, <1>5, Reaches, Zenon
<1> QED BY <1>1, <1>2, <1>6 DEF Good

LEMMA TotalType ==
  ASSUME NEW pieces \in Seq(Seq(Nat))
  PROVE  Total(pieces) \in Nat
<1>1. Len(pieces) \in 0 .. Len(pieces)
  OBVIOUS
<1> QED BY <1>1, TotalIsSum

LEMMA TotalOfNone == Total(<<>>) = 0
<1>1. <<>> \in Seq(Seq(Nat)) /\ Len(<<>>) = 0
  OBVIOUS
<1>2. PICK f : SumUpTo(<<>>, 0, f) /\ Total(<<>>) = f[0]
  BY <1>1, TotalIsSum
<1> QED BY <1>2, SumSteps

\* The total of two sequences of pieces, one behind the other.
LEMMA TotalOfConcat ==
  ASSUME NEW s \in Seq(Seq(Nat)), NEW t \in Seq(Seq(Nat))
  PROVE  Total(s \o t) = Total(s) + Total(t)
<1> DEFINE m == Len(s)
           n == Len(t)
<1>1. /\ m \in Nat /\ n \in Nat
      /\ s \o t \in Seq(Seq(Nat)) /\ Len(s \o t) = m + n
      /\ \A k \in 1 .. m : (s \o t)[k] = s[k]
      /\ \A k \in 1 .. n : (s \o t)[m + k] = t[k]
  OBVIOUS
<1>2. PICK f : /\ SumUpTo(s \o t, m + n, f) /\ \A k \in 0 .. m + n : f[k] \in Nat
               /\ Total(s \o t) = f[m + n]
  BY <1>1, TotalIsSum
<1>3. PICK g : /\ SumUpTo(s, m, g) /\ \A k \in 0 .. m : g[k] \in Nat
               /\ Total(s) = g[m]
  BY TotalIsSum
<1>4. PICK h : /\ SumUpTo(t, n, h) /\ \A k \in 0 .. n : h[k] \in Nat
               /\ Total(t) = h[n]
  BY TotalIsSum
<1> HIDE DEF m, n
<1> DEFINE First  == {k \in 0 .. m : f[k] = g[k]}
           Second == {k \in 0 .. n : f[m + k] = g[m] + h[k]}
<1>5. /\ f[0] = 0 /\ \A k \in 1 .. m + n : f[k] = f[k - 1] + Len((s \o t)[k])
      /\ g[0] = 0 /\ \A k \in 1 .. m : g[k] = g[k - 1] + Len(s[k])
      /\ h[0] = 0 /\ \A k \in 1 .. n : h[k] = h[k - 1] + Len(t[k])
  <2>1. m + n \in Nat
    BY <1>1
  <2>2. f[0] = 0 /\ \A k \in 1 .. m + n : f[k] = f[k - 1] + Len((s \o t)[k])
    BY <1>2, <2>1, SumSteps
  <2>3. g[0] = 0 /\ \A k \in 1 .. m : g[k] = g[k - 1] + Len(s[k])
    BY <1>1, <1>3, SumSteps
  <2>4. h[0] = 0 /\ \A k \in 1 .. n : h[k] = h[k - 1] + Len(t[k])
    BY <1>1, <1>4, SumSteps
  <2> QED BY <2>2, <2>3, <2>4
<1>6. \A k \in 0 .. m : k \in First
  <2>1. 0 \in First
    BY <1>1, <1>5
  <2>2. ASSUME NEW k \in 1 .. m, k - 1 \in First
        PROVE  k \in First
    <3>1. k \in 1 .. m + n /\ k \in 0 .. m
      BY <1>1
    <3>2. f[k] = f[k - 1] + Len((s \o t)[k]) /\ g[k] = g[k - 1] + Len(s[k])
      BY <1>5, <3>1
    <3> QED BY <1>1, <2>2, <3>1, <3>2
  <2> HIDE DEF First
  <2> QED BY <1>1, <2>1, <2>2, Reaches, Zenon
<1>7. \A k \in 0 .. n : k \in Second
  <2>1. 0 \in Second
    <3>1. m \in 0 .. m /\ m \in First
      BY <1>1, <1>6
    <3>2. f[m] = g[m] /\ g[m] \in Nat /\ m + 0 = m
      BY <1>1, <1>3, <3>1
    <3> QED BY <1>1, <1>5, <3>2
  <2>2. ASSUME NEW k \in 1 .. n, k - 1 \in Second
        PROVE  k \in Second
    <3>1. /\ m + k \in 1 .. m + n /\ (m + k) - 1 = m + (k - 1)
          /\ k - 1 \in 0 .. n /\ m \in 0 .. m /\ k \in 0 .. n
      BY <1>1
    <3>2. /\ f[m + k] = f[m + (k - 1)] + Len((s \o t)[m + k])
          /\ h[k] = h[k - 1] + Len(t[k])
      BY <1>5, <3>1
    <3>3. Len(t[k]) \in Nat /\ g[m] \in Nat /\ h[k - 1] \in Nat
      <4>1. t[k] \in Seq(Nat)
        BY ElementOfSeq DEF n
      <4> QED BY <1>3, <1>4, <3>1, <4>1
    <3>4. f[m + (k - 1)] = g[m] + h[k - 1] /\ (s \o t)[m + k] = t[k]
      BY <1>1, <2>2
    <3>5. f[m + k] = g[m] + h[k]
      BY <3>2, <3>3, <3>4
    <3> QED BY <3>1, <3>5
  <2> HIDE DEF Second
  <2> QED BY <1>1, <2>1, <2>2, Reaches, Zenon
<1>8. f[m + n] = g[m] + h[n]
  <2>1. n \in 0 .. n
    BY <1>1
  <2>2. n \in Second
    BY <1>7, <2>1
  <2> QED BY <2>2
<1> QED BY <1>2, <1>3, <1>4, <1>8

-----------------------------------------------------------------------------
(* Pieces *)

LEMMA QueueData ==
  /\ Piece \subseteq Seq(Nat)
  /\ Queue \subseteq Seq(Seq(Nat))
<1>1. Piece \subseteq Seq(Nat)
  BY DEF Piece
<1> HIDE DEF Piece
<1>2. ASSUME NEW q \in Seq(Piece) PROVE q \in Seq(Seq(Nat))
  BY <1>1
<1> QED BY <1>1, <1>2 DEF Queue

LEMMA NoPieces == <<>> \in Queue
BY DEF Queue

LEMMA QueueConcat ==
  ASSUME NEW q \in Queue, NEW r \in Queue
  PROVE  /\ q \o r \in Queue
         /\ Len(q \o r) = Len(q) + Len(r)
         /\ SubSeq(q \o r, 1, Len(q)) = q
<1>1. q \in Seq(Piece) /\ r \in Seq(Piece)
  BY DEF Queue
<1> HIDE DEF Piece, Queue
<1>2. q \o r \in Seq(Piece) /\ Len(q \o r) = Len(q) + Len(r)
  BY <1>1, ConcatProperties
<1>3. SubSeq(q \o r, 1, Len(q)) = q
  BY <1>1
<1> QED BY <1>2, <1>3 DEF Queue

\* A queue is its n first pieces and what DropFirst leaves.
LEMMA Split ==
  ASSUME NEW q \in Queue, NEW n \in 0 .. Len(q)
  PROVE  /\ SubSeq(q, 1, n) \in Queue /\ Len(SubSeq(q, 1, n)) = n
         /\ DropFirst(q, n) \in Queue /\ Len(DropFirst(q, n)) = Len(q) - n
         /\ Total(q) = Total(SubSeq(q, 1, n)) + Total(DropFirst(q, n))
<1>1. q \in Seq(Piece) /\ Len(q) \in Nat
  BY DEF Queue
<1> HIDE DEF Piece
<1>2. /\ SubSeq(q, 1, n) \in Seq(Piece) /\ Len(SubSeq(q, 1, n)) = n
      /\ DropFirst(q, n) \in Seq(Piece) /\ Len(DropFirst(q, n)) = Len(q) - n
  <2>1. \A k \in 1 .. Len(q) : q[k] \in Piece
    BY <1>1, ElementOfSeq
  <2> QED BY <1>1, <2>1, SubSeqProperties DEF DropFirst
<1>3. SubSeq(q, 1, n) \o DropFirst(q, n) = q
  <2>1. n \in 1 - 1 .. Len(q) /\ Len(q) \in n .. Len(q) /\ 1 \in 1 .. Len(q) + 1
    BY <1>1
  <2>2. SubSeq(q, 1, n) \o SubSeq(q, n + 1, Len(q)) = SubSeq(q, 1, Len(q))
    BY <1>1, <2>1, ConcatAdjacentSubSeq
  <2> QED BY <1>1, <2>2, SubSeqFull DEF DropFirst
<1>4. /\ SubSeq(q, 1, n) \in Seq(Seq(Nat))
      /\ DropFirst(q, n) \in Seq(Seq(Nat))
  BY <1>2, QueueData DEF Queue
<1>5. Total(SubSeq(q, 1, n) \o DropFirst(q, n)) = Total(SubSeq(q, 1, n)) + Total(DropFirst(q, n))
  BY <1>4, TotalOfConcat
<1> QED BY <1>2, <1>3, <1>5 DEF Queue

LEMMA TotalOfOne ==
  ASSUME NEW piece \in Seq(Nat)
  PROVE  Total(<<piece>>) = Len(piece)
<1>1. <<piece>> \in Seq(Seq(Nat)) /\ Len(<<piece>>) = 1
  OBVIOUS
<1>2. PICK f : SumUpTo(<<piece>>, 1, f) /\ Total(<<piece>>) = f[1]
  BY <1>1, TotalIsSum
<1>3. f[0] = 0 /\ f[1] = f[0] + Len(<<piece>>[1])
  <2>1. 1 - 1 = 0 /\ 1 \in 1 .. 1 /\ 1 \in Nat
    OBVIOUS
  <2> QED BY <1>2, <2>1, SumSteps
<1> QED BY <1>2, <1>3

\* Fitting is defined: some number of pieces fits, and one is the greatest.
LEMMA FittingFits ==
  ASSUME NEW q \in Queue, NEW length \in Nat
  PROVE  Fitting(q, length) \in 0 .. Len(q)
<1> DEFINE Fits == {n \in 0 .. Len(q) : Total(SubSeq(q, 1, n)) <= length}
           Left == {n \in 0 .. Len(q) : Len(q) - n \in Fits}
<1>1. Len(q) \in Nat
  BY DEF Queue
<1>2. 0 \in Fits
  <2>1. SubSeq(q, 1, 0) = <<>>
    <3>1. q \in Seq(Piece)
      BY DEF Queue
    <3> QED BY <3>1, EmptySeq, SubSeqProperties
  <2>2. Total(SubSeq(q, 1, 0)) = 0
    BY <2>1, TotalOfNone, Zenon
  <2> QED BY <1>1, <2>2
<1>3. Len(q) \in Left
  BY <1>1, <1>2
<1>4. PICK l \in Left : \A k \in Left : l <= k
  <2>1. Left \subseteq Nat /\ Left # {}
    BY <1>3
  <2> HIDE DEF Left
  <2> QED BY <2>1, NatLeast
<1> DEFINE n == Len(q) - l
<1>5. n \in 0 .. Len(q) /\ n \in Fits
  BY <1>1, <1>4
<1>6. ASSUME NEW m \in n + 1 .. Len(q)
      PROVE  Total(SubSeq(q, 1, m)) > length
  <2>1. /\ m \in 0 .. Len(q) /\ Len(q) - m \in 0 .. Len(q)
        /\ Len(q) - (Len(q) - m) = m /\ ~ (l <= Len(q) - m)
    BY <1>1, <1>4, <1>5
  <2>2. m \notin Fits
    BY <1>4, <2>1
  <2>3. Total(SubSeq(q, 1, m)) \in Nat
    <3>1. SubSeq(q, 1, m) \in Seq(Seq(Nat))
      BY <2>1, Split, QueueData
    <3> QED BY <3>1, TotalType
  <2> QED BY <2>1, <2>2, <2>3
<1> HIDE DEF n
<1>7. \E k \in 0 .. Len(q) :
        /\ Total(SubSeq(q, 1, k)) <= length
        /\ \A m \in k + 1 .. Len(q) : Total(SubSeq(q, 1, m)) > length
  BY <1>5, <1>6
<1> QED BY <1>7 DEF Fitting

-----------------------------------------------------------------------------
(* Data joined and cut again *)

\* The function with which FlattenSeq joins.
JoinUpTo(seqs, n, f) ==
  f = [k \in 1 .. n |-> IF k = 1 THEN seqs[1] ELSE f[k - 1] \o seqs[k]]

LEMMA JoinExists ==
  ASSUME NEW seqs \in Seq(Seq(Nat)), Len(seqs) # 0
  PROVE  \E f : JoinUpTo(seqs, Len(seqs), f)
<1> DEFINE N == Len(seqs)
           Good == {n \in 0 .. N : \E f : JoinUpTo(seqs, n, f)}
<1>1. N \in Nat
  OBVIOUS
<1>2. 0 \in Good
  <2>1. JoinUpTo(seqs, 0, [k \in 1 .. 0 |-> <<>>])
    BY DEF JoinUpTo
  <2> QED BY <1>1, <2>1
<1>3. ASSUME NEW n \in 1 .. N, n - 1 \in Good
      PROVE  n \in Good
  <2>1. PICK f : JoinUpTo(seqs, n - 1, f)
    BY <1>3
  <2> DEFINE g == [k \in 1 .. n |-> IF k = n
                     THEN (IF n = 1 THEN seqs[1] ELSE f[n - 1] \o seqs[n]) ELSE f[k]]
  <2>2. ASSUME NEW k \in 1 .. n
        PROVE  g[k] = IF k = 1 THEN seqs[1] ELSE g[k - 1] \o seqs[k]
    <3>1. CASE k = n
      <4>1. n # 1 => n - 1 \in 1 .. n /\ n - 1 # n
        BY <1>3
      <4>2. n # 1 => g[n - 1] = f[n - 1]
        BY <4>1
      <4> QED BY <3>1, <4>2
    <3>2. CASE k # n
      <4>1. k \in 1 .. n - 1
        BY <3>2
      <4>2. f[k] = IF k = 1 THEN seqs[1] ELSE f[k - 1] \o seqs[k]
        BY <2>1, <4>1 DEF JoinUpTo
      <4>3. k # 1 => k - 1 \in 1 .. n /\ k - 1 # n
        BY <4>1
      <4> QED BY <3>2, <4>2, <4>3
    <3> QED BY <3>1, <3>2
  <2>3. JoinUpTo(seqs, n, g)
    <3> HIDE DEF g
    <3>1. g = [k \in 1 .. n |-> g[k]]
      BY DEF g
    <3> QED BY <2>2, <3>1, Zenon DEF JoinUpTo
  <2> QED BY <2>3
<1> HIDE DEF Good, N
<1>4. \A k \in 0 .. N : k \in Good
  BY <1>1, <1>2, <1>3, Reaches, Zenon
<1>5. N \in Good
  BY <1>1, <1>4
<1> QED BY <1>5 DEF Good, N

LEMMA FlattenType ==
  ASSUME NEW seqs \in Seq(Seq(Nat))
  PROVE  FlattenSeq(seqs) \in Seq(Nat)
<1>1. CASE Len(seqs) = 0
  <2>1. seqs = <<>>
    BY <1>1, EmptySeq
  <2>2. FlattenSeq(seqs) = seqs
    BY <1>1 DEF FlattenSeq
  <2>3. <<>> \in Seq(Nat)
    OBVIOUS
  <2> QED BY <2>1, <2>2, <2>3, Zenon
<1>2. CASE Len(seqs) # 0
  <2> DEFINE f == CHOOSE f : JoinUpTo(seqs, Len(seqs), f)
  <2>1. JoinUpTo(seqs, Len(seqs), f)
    BY <1>2, JoinExists
  <2>2. FlattenSeq(seqs) = f[Len(seqs)]
    BY <1>2 DEF FlattenSeq, JoinUpTo
  <2> HIDE DEF f
  <2> DEFINE Good == {k \in 0 .. Len(seqs) : k = 0 \/ f[k] \in Seq(Nat)}
  <2>3. Len(seqs) \in Nat
    OBVIOUS
  <2>4. 0 \in Good
    BY <2>3
  <2>5. ASSUME NEW k \in 1 .. Len(seqs), k - 1 \in Good
        PROVE  k \in Good
    <3>1. f[k] = IF k = 1 THEN seqs[1] ELSE f[k - 1] \o seqs[k]
      BY <2>1, Zenon DEF JoinUpTo
    <3>2. seqs[k] \in Seq(Nat)
      BY ElementOfSeq
    <3>3. f[k] \in Seq(Nat)
      <4>1. CASE k = 1
        BY <3>1, <3>2, <4>1
      <4>2. CASE k # 1
        <5>1. f[k - 1] \in Seq(Nat)
          BY <2>5, <4>2
        <5> QED BY <3>1, <3>2, <4>2, <5>1
      <4> QED BY <4>1, <4>2
    <3> QED BY <3>3
  <2> HIDE DEF Good
  <2>6. \A k \in 0 .. Len(seqs) : k \in Good
    BY <2>3, <2>4, <2>5, Reaches, Zenon
  <2>7. f[Len(seqs)] \in Seq(Nat)
    BY <1>2, <2>3, <2>6 DEF Good
  <2> QED BY <2>2, <2>7
<1> QED BY <1>1, <1>2

\* No piece that is cut is empty or outside the data.
LEMMA CutType ==
  ASSUME NEW data \in Seq(Nat), NEW size \in Nat \ {0}
  PROVE  Cut(data, size) \in Queue
<1> DEFINE L == Len(data)
           D == (L + size - 1) \div size
<1>1. L \in Nat /\ D \in Nat /\ D * size <= L + size - 1
  OBVIOUS
<1>2. ASSUME NEW k \in 1 .. D
      PROVE  SubSeq(data, (k - 1) * size + 1, IF k * size <= L THEN k * size ELSE L) \in Piece
  <2> DEFINE m == (k - 1) * size + 1
             n == IF k * size <= L THEN k * size ELSE L
  <2>1. k * size <= D * size /\ (k - 1) * size = k * size - size
    BY <1>1
  <2>2. m \in 1 .. L /\ n \in m .. L
    BY <1>1, <2>1
  <2> HIDE DEF m, n
  <2>3. SubSeq(data, m, n) \in Seq(Nat) /\ Len(SubSeq(data, m, n)) = n - m + 1
    BY <2>2, SubSeqProperties
  <2>4. SubSeq(data, m, n) # <<>>
    <3>1. n - m + 1 # 0 /\ Len(<<>>) = 0
      BY <2>2
    <3> QED BY <2>3, <3>1, Zenon
  <2>5. SubSeq(data, m, n) \in Piece
    BY <2>3, <2>4 DEF Piece
  <2> QED BY <2>5 DEF m, n
<1> DEFINE piece(k) ==
      SubSeq(data, (k - 1) * size + 1, IF k * size <= L THEN k * size ELSE L)
<1>3. Cut(data, size) = [k \in 1 .. D |-> piece(k)]
  BY DEF Cut
<1> HIDE DEF D, piece, Piece
<1>4. \A k \in 1 .. D : piece(k) \in Piece
  BY <1>2 DEF piece
<1>5. [k \in 1 .. D |-> piece(k)] \in Seq(Piece)
  BY <1>1, <1>4
<1> QED BY <1>3, <1>5 DEF Queue

-----------------------------------------------------------------------------
(* Slots *)

\* No port has two queues.
OneSlotEach(array) ==
  \A s, t \in Slots :
    array[s].empty_queue = 0 /\ array[t].empty_queue = 0
      /\ array[s].serial_no = array[t].serial_no => s = t

Sound(array) == ArrayOf(array) /\ SlotForEach(array)

LEMMA FirstOfIsIn ==
  ASSUME NEW S, S \subseteq Nat, S # {}
  PROVE  FirstOf(S) \in S
<1>1. \E k \in S : \A n \in S : k <= n
  BY NatLeast
<1> QED BY <1>1 DEF FirstOf

LEMMA SlotsAre ==
  /\ Slots \subseteq Nat
  /\ Ports \subseteq Slots
  /\ NoSerial \notin Ports
  /\ IsFiniteSet(Slots) /\ IsFiniteSet(Ports)
  /\ Cardinality(Slots) >= Cardinality(Ports)
  /\ Cardinality(Ports) \in Nat
<1>1. /\ MAX_SERIAL_NUM \in Nat /\ MAX_SERIAL_NUM >= 1 /\ MAX_QUEUE_NUM \in Nat
      /\ MAX_QUEUE_NUM >= MAX_SERIAL_NUM
  BY QueueAssumption
<1>2. /\ IsFiniteSet(Slots) /\ Cardinality(Slots) = MAX_QUEUE_NUM
      /\ IsFiniteSet(Ports) /\ Cardinality(Ports) = MAX_SERIAL_NUM
  <2>1. ASSUME NEW k \in Nat, k >= 1
        PROVE  IsFiniteSet(0 .. k - 1) /\ Cardinality(0 .. k - 1) = k
    <3>1. 0 \in Int /\ k - 1 \in Int /\ ~ (0 > k - 1) /\ (k - 1) - 0 + 1 = k
      BY <2>1
    <3> QED BY <3>1, FS_Interval
  <2>2. IsFiniteSet(Slots) /\ Cardinality(Slots) = MAX_QUEUE_NUM
    <3>1. MAX_QUEUE_NUM >= 1
      BY <1>1
    <3> QED BY <1>1, <2>1, <3>1 DEF Slots
  <2>3. IsFiniteSet(Ports) /\ Cardinality(Ports) = MAX_SERIAL_NUM
    BY <1>1, <2>1 DEF Ports
  <2> QED BY <2>2, <2>3
<1> QED BY <1>1, <1>2 DEF Slots, Ports, NoSerial

\* The pigeonhole: as long as no port has two queues and there are as many
\* slots as ports, a port without a queue finds a free slot.
LEMMA Pigeonhole ==
  ASSUME NEW array, ArrayOf(array), OneSlotEach(array)
  PROVE  SlotForEach(array)
<1>1. SUFFICES ASSUME NEW p \in Ports, SlotsOf(array, p) = {}, FreeSlots(array) = {}
               PROVE  FALSE
  BY DEF SlotForEach, OneSlotEach
<1> DEFINE f == [s \in Slots |-> array[s].serial_no]
           R == Ports \ {p}
<1>2. \A s \in Slots : array[s].empty_queue = 0 /\ array[s].serial_no \in R
  BY <1>1 DEF ArrayOf, FreeSlots, SlotsOf
<1>3. f \in Injection(Slots, R)
  BY <1>2 DEF OneSlotEach, Injection, IsInjective
<1>4. IsFiniteSet(R) /\ Cardinality(R) = Cardinality(Ports) - 1
  BY SlotsAre, FS_RemoveElement
<1>5. Cardinality(Slots) <= Cardinality(R)
  BY <1>3, <1>4, SlotsAre, FS_Injection
<1>6. Cardinality(Slots) \in Nat
  BY SlotsAre, FS_CardinalityType
<1> QED BY <1>4, <1>5, <1>6, SlotsAre

\* The slot in use for port p is the only one.
LEMMA SlotOfPort ==
  ASSUME NEW array, Sound(array), NEW p \in Ports, NEW s \in SlotsOf(array, p)
  PROVE  /\ s \in Slots /\ SlotsOf(array, p) = {s} /\ SlotOf(array, p) = s
         /\ array[s].empty_queue = 0 /\ array[s].serial_no = p
         /\ Contents(array, p) = array[s].queue
<1>1. SlotsOf(array, p) = {s}
  BY DEF Sound, SlotForEach, SlotsOf
<1>2. s \in Slots /\ array[s].empty_queue = 0 /\ array[s].serial_no = p
  BY DEF SlotsOf
<1>3. SlotOf(array, p) = s
  BY <1>1, <1>2, SlotsAre, FirstOfIsIn DEF SlotOf
<1> QED BY <1>1, <1>2, <1>3 DEF Contents

LEMMA ContentsType ==
  ASSUME NEW array, Sound(array), NEW p \in Ports
  PROVE  Contents(array, p) \in Queue
<1>1. CASE SlotsOf(array, p) = {}
  BY <1>1, NoPieces DEF Contents
<1>2. CASE SlotsOf(array, p) # {}
  <2>1. PICK s \in SlotsOf(array, p) : TRUE
    BY <1>2
  <2>2. s \in Slots /\ Contents(array, p) = array[s].queue
    BY <2>1, SlotOfPort
  <2> QED BY <2>2 DEF Sound, ArrayOf
<1> QED BY <1>1, <1>2

\* The queue of p alone becomes q.
Changes(array, after, p, q) ==
  /\ Sound(after)
  /\ Contents(after, p) = q
  /\ \A r \in Ports \ {p} : Contents(after, r) = Contents(array, r)

\* Slot s is written over.
Write(array, s, e, p, q) ==
  [array EXCEPT ![s] = [empty_queue |-> e, serial_no |-> p, queue |-> q]]

\* Changing one field of a record that a slot may hold.
LEMMA FieldWritten ==
  ASSUME NEW array, Sound(array), NEW s \in Slots, NEW e, NEW p, NEW q,
         array[s].empty_queue = e, array[s].serial_no = p, array[s].queue = q
  PROVE  /\ \A r : [array[s] EXCEPT !.queue = r]
                  = [empty_queue |-> e, serial_no |-> p, queue |-> r]
         /\ \A f : [array[s] EXCEPT !.empty_queue = f]
                  = [empty_queue |-> f, serial_no |-> p, queue |-> q]
<1>1. array[s] \in [empty_queue : 0 .. 1, serial_no : Ports \union {NoSerial}, queue : Queue]
  BY DEF Sound, ArrayOf
<1> QED BY <1>1

\* Writing to a slot that is free or p's own, if p has no other.
LEMMA SlotWritten ==
  ASSUME NEW array, Sound(array), NEW p \in Ports, NEW s \in Slots,
         SlotsOf(array, p) \subseteq {s},
         array[s].empty_queue = 1 \/ array[s].serial_no = p,
         NEW e \in {0, 1}, NEW q \in Queue, e = 1 => q = <<>>
  PROVE  Changes(array, Write(array, s, e, p, q), p, q)
<1> DEFINE after == Write(array, s, e, p, q)
<1>0. /\ after \in [Slots -> [empty_queue : 0 .. 1, serial_no : Ports \union {NoSerial},
                               queue : Queue]]
      /\ after[s] = [empty_queue |-> e, serial_no |-> p, queue |-> q]
      /\ \A t \in Slots \ {s} : after[t] = array[t]
  BY DEF Sound, ArrayOf, Write
<1> HIDE DEF after
<1>1. ArrayOf(after)
  BY <1>0 DEF Sound, ArrayOf
<1>2. \A t \in Slots : after[t].empty_queue = 0 /\ after[t].serial_no = p => t = s
  BY <1>0 DEF SlotsOf
<1>3. OneSlotEach(after)
  <2>1. SUFFICES ASSUME NEW t \in Slots, NEW u \in Slots,
                        after[t].empty_queue = 0, after[u].empty_queue = 0,
                        after[t].serial_no = after[u].serial_no
                 PROVE  t = u
    BY DEF OneSlotEach
  <2>2. CASE after[t].serial_no = p
    BY <1>2, <2>1, <2>2
  <2>3. CASE after[t].serial_no # p
    <3>1. t # s /\ u # s
      BY <1>0, <2>1, <2>3
    <3>2. after[t] = array[t] /\ after[u] = array[u]
      BY <1>0, <3>1
    <3> QED BY <2>1, <3>2 DEF Sound, SlotForEach
  <2> QED BY <2>2, <2>3
<1>4. Sound(after)
  BY <1>1, <1>3, Pigeonhole DEF Sound
<1>5. Contents(after, p) = q
  <2>1. CASE e = 0
    <3>1. s \in SlotsOf(after, p)
      BY <1>0, <2>1 DEF SlotsOf
    <3>2. Contents(after, p) = after[s].queue
      BY <1>4, <3>1, SlotOfPort
    <3> QED BY <1>0, <3>2
  <2>2. CASE e = 1
    <3>1. SlotsOf(after, p) = {}
      BY <1>0, <1>2, <2>2 DEF SlotsOf
    <3> QED BY <2>2, <3>1 DEF Contents
  <2> QED BY <2>1, <2>2
<1>6. ASSUME NEW r \in Ports \ {p}
      PROVE  Contents(after, r) = Contents(array, r)
  <2>1. s \notin SlotsOf(after, r) /\ s \notin SlotsOf(array, r)
    BY <1>0 DEF SlotsOf
  <2>2. SlotsOf(after, r) = SlotsOf(array, r)
    BY <1>0, <2>1 DEF SlotsOf
  <2>3. CASE SlotsOf(array, r) = {}
    BY <2>2, <2>3 DEF Contents
  <2>4. CASE SlotsOf(array, r) # {}
    <3>1. PICK t \in SlotsOf(array, r) : TRUE
      BY <2>4
    <3>2. t # s /\ t \in Slots /\ Contents(array, r) = array[t].queue
      BY <2>1, <3>1, SlotOfPort
    <3>3. t \in SlotsOf(after, r) /\ r \in Ports
      BY <2>2, <3>1
    <3>4. Contents(after, r) = after[t].queue
      BY <1>4, <3>3, SlotOfPort
    <3> QED BY <1>0, <3>2, <3>4
  <2> QED BY <2>3, <2>4
<1> QED BY <1>4, <1>5, <1>6 DEF Changes, after

-----------------------------------------------------------------------------
(* What the operations change *)

\* Pieces are put behind what waits for the port, and never lost.
LEMMA AddEffect ==
  ASSUME NEW array, Sound(array), NEW p \in Ports, NEW pieces \in Queue
  PROVE  Changes(array, addToQueue(array, p, pieces), p, Contents(array, p) \o pieces)
<1>1. CASE pieces = <<>>
  <2>1. addToQueue(array, p, pieces) = array
    BY <1>1 DEF addToQueue
  <2>2. Contents(array, p) \o pieces = Contents(array, p)
    <3>1. Contents(array, p) \in Seq(Piece)
      BY ContentsType DEF Queue
    <3> HIDE DEF Piece
    <3> QED BY <1>1, <3>1
  <2> QED BY <2>1, <2>2 DEF Changes
<1>2. CASE pieces # <<>> /\ SlotsOf(array, p) # {}
  <2>1. PICK s \in SlotsOf(array, p) : TRUE
    BY <1>2
  <2>2. /\ s \in Slots /\ SlotsOf(array, p) = {s} /\ SlotOf(array, p) = s
        /\ array[s].empty_queue = 0 /\ array[s].serial_no = p
        /\ Contents(array, p) = array[s].queue
    BY <2>1, SlotOfPort
  <2>3. array[s].queue \in Queue /\ array[s].queue \o pieces \in Queue
    BY <2>2, ContentsType, QueueConcat
  <2>4. addToQueue(array, p, pieces)
          = Write(array, s, 0, p, array[s].queue \o pieces)
    <3>1. addToQueue(array, p, pieces) = [array EXCEPT ![s].queue = array[s].queue \o pieces]
      BY <1>2, <2>2, Zenon DEF addToQueue, Add
    <3>2. [array[s] EXCEPT !.queue = array[s].queue \o pieces]
            = [empty_queue |-> 0, serial_no |-> p, queue |-> array[s].queue \o pieces]
      <4> DEFINE longer == array[s].queue \o pieces
      <4> HIDE DEF longer
      <4>1. [array[s] EXCEPT !.queue = longer]
              = [empty_queue |-> 0, serial_no |-> p, queue |-> longer]
        BY <2>2, FieldWritten
      <4> QED BY <4>1 DEF longer
    <3> QED BY <3>1, <3>2, Zenon DEF Write
  <2>5. Changes(array, Write(array, s, 0, p, array[s].queue \o pieces), p,
                array[s].queue \o pieces)
    BY <2>2, <2>3, SlotWritten
  <2> QED BY <2>2, <2>4, <2>5
<1>3. CASE pieces # <<>> /\ SlotsOf(array, p) = {}
  <2>1. FreeSlots(array) # {} /\ FreeSlots(array) \subseteq Nat
    BY <1>3, SlotsAre DEF Sound, SlotForEach, FreeSlots
  <2> DEFINE s == FirstOf(FreeSlots(array))
  <2>2. s \in Slots /\ array[s].empty_queue = 1
    BY <2>1, FirstOfIsIn DEF FreeSlots
  <2>3. addToQueue(array, p, pieces)
          = Write(array, s, 0, p, pieces)
    BY <1>3, <2>1 DEF addToQueue, NewQueue, Write
  <2>4. Contents(array, p) \o pieces = pieces
    <3>1. Contents(array, p) = <<>> /\ pieces \in Seq(Piece)
      BY <1>3 DEF Contents, Queue
    <3> HIDE DEF Piece
    <3> QED BY <3>1
  <2> HIDE DEF s
  <2>5. Changes(array, Write(array, s, 0, p, pieces), p, pieces)
    BY <1>3, <2>2, SlotWritten
  <2> QED BY <2>3, <2>4, <2>5
<1> QED BY <1>1, <1>2, <1>3

\* A queue found empty gives up its slot and stays empty.
LEMMA FreeEffect ==
  ASSUME NEW array, Sound(array), NEW p \in Ports, SlotsOf(array, p) # {},
         Contents(array, p) = <<>>
  PROVE  Changes(array, FreeSlot(array, p), p, <<>>)
<1>1. PICK s \in SlotsOf(array, p) : TRUE
  OBVIOUS
<1>2. /\ s \in Slots /\ SlotsOf(array, p) = {s} /\ SlotOf(array, p) = s
      /\ array[s].empty_queue = 0 /\ array[s].serial_no = p
      /\ array[s].queue = <<>>
  BY <1>1, SlotOfPort
<1>3. FreeSlot(array, p) = Write(array, s, 1, p, <<>>)
  <2>1. [array[s] EXCEPT !.empty_queue = 1]
          = [empty_queue |-> 1, serial_no |-> p, queue |-> <<>>]
    BY <1>2, FieldWritten
  <2>2. FreeSlot(array, p) = [array EXCEPT ![s].empty_queue = 1]
    BY <1>2, Zenon DEF FreeSlot
  <2> QED BY <2>1, <2>2, Zenon DEF Write
<1>4. Changes(array, Write(array, s, 1, p, <<>>), p, <<>>)
  BY <1>2, NoPieces, SlotWritten
<1> QED BY <1>3, <1>4

LEMMA WithdrawEffect ==
  ASSUME NEW array, Sound(array), NEW p \in Ports, SlotsOf(array, p) # {},
         NEW n \in 0 .. Len(Contents(array, p))
  PROVE  Changes(array, Withdraw(array, p, n), p, DropFirst(Contents(array, p), n))
<1>1. PICK s \in SlotsOf(array, p) : TRUE
  OBVIOUS
<1>2. /\ s \in Slots /\ SlotsOf(array, p) = {s} /\ SlotOf(array, p) = s
      /\ array[s].empty_queue = 0 /\ array[s].serial_no = p
      /\ Contents(array, p) = array[s].queue
  BY <1>1, SlotOfPort
<1>3. DropFirst(array[s].queue, n) \in Queue
  BY <1>2, ContentsType, Split
<1>4. Withdraw(array, p, n) = Write(array, s, 0, p, DropFirst(array[s].queue, n))
  <2>1. [array[s] EXCEPT !.queue = DropFirst(array[s].queue, n)]
          = [empty_queue |-> 0, serial_no |-> p, queue |-> DropFirst(array[s].queue, n)]
    BY <1>2, FieldWritten
  <2>2. Withdraw(array, p, n) = [array EXCEPT ![s].queue = DropFirst(array[s].queue, n)]
    BY <1>2, Zenon DEF Withdraw
  <2> QED BY <2>1, <2>2, Zenon DEF Write
<1>5. Changes(array, Write(array, s, 0, p, DropFirst(array[s].queue, n)), p,
              DropFirst(array[s].queue, n))
  BY <1>2, <1>3, SlotWritten
<1> QED BY <1>2, <1>4, <1>5

\* All that waits for the port of slot s is thrown away.
LEMMA ClearEffect ==
  ASSUME NEW array, Sound(array), NEW s \in Slots, array[s].empty_queue = 0
  PROVE  Changes(array, [array EXCEPT ![s].queue = <<>>], array[s].serial_no, <<>>)
<1> DEFINE p == array[s].serial_no
<1>1. p \in Ports
  BY DEF Sound, ArrayOf
<1>2. s \in SlotsOf(array, p)
  BY DEF SlotsOf
<1>3. SlotsOf(array, p) = {s}
  BY <1>1, <1>2, SlotOfPort
<1>4. [array EXCEPT ![s].queue = <<>>] = Write(array, s, 0, p, <<>>)
  <2>1. [array[s] EXCEPT !.queue = <<>>]
          = [empty_queue |-> 0, serial_no |-> p, queue |-> <<>>]
    BY FieldWritten
  <2> QED BY <2>1, Zenon DEF Write
<1>5. Changes(array, Write(array, s, 0, p, <<>>), p, <<>>)
  BY <1>1, <1>3, NoPieces, SlotWritten
<1> QED BY <1>4, <1>5

\* A batch is the first pieces of the queue, and what remains is the rest.
LEMMA BatchEffect ==
  ASSUME NEW array, Sound(array), NEW p \in Ports, NEW length \in Nat
  PROVE  \E n \in 0 .. Len(Contents(array, p)) :
           /\ Batch(array, p, length) = SubSeq(Contents(array, p), 1, n)
           /\ Changes(array, AfterBatch(array, p, length), p, DropFirst(Contents(array, p), n))
<1> DEFINE q == Contents(array, p)
           n == Fitting(q, length)
           batch == Batch(array, p, length)
<1>1. q \in Queue
  BY ContentsType
<1>2. n \in 0 .. Len(q)
  BY <1>1, FittingFits
<1>3. batch = SubSeq(q, 1, n)
  BY DEF Batch
<1>4. Len(batch) = n
  BY <1>1, <1>2, <1>3, Split
<1>5. Changes(array, AfterBatch(array, p, length), p, DropFirst(q, n))
  <2>1. CASE SlotsOf(array, p) = {}
    <3>1. AfterBatch(array, p, length) = array
      BY <2>1 DEF AfterBatch
    <3>2. q = <<>>
      BY <2>1 DEF Contents
    <3>3. DropFirst(q, n) = <<>>
      BY <1>2, <3>2 DEF DropFirst
    <3> QED BY <3>1, <3>2, <3>3 DEF Changes
  <2>2. CASE SlotsOf(array, p) # {}
    <3> DEFINE rest == Withdraw(array, p, n)
    <3>1. Changes(array, rest, p, DropFirst(q, n))
      BY <1>2, <2>2, WithdrawEffect
    <3>2. \/ AfterBatch(array, p, length) = FreeSlot(rest, p) /\ n = Len(q)
          \/ AfterBatch(array, p, length) = rest
      BY <1>4, <2>2 DEF AfterBatch
    <3>3. ASSUME n = Len(q)
          PROVE  Changes(array, FreeSlot(rest, p), p, DropFirst(q, n))
      <4>1. DropFirst(q, n) = <<>>
        <5>1. DropFirst(q, n) \in Seq(Piece) /\ Len(DropFirst(q, n)) = 0
          <6>1. Len(q) \in Nat
            BY <1>1 DEF Queue
          <6> QED BY <1>1, <1>2, <3>3, <6>1, Split DEF Queue
        <5> QED BY <5>1, EmptySeq
      <4>2. SlotsOf(rest, p) # {}
        <5>1. PICK s \in SlotsOf(array, p) : TRUE
          BY <2>2
        <5>2. /\ s \in Slots /\ SlotOf(array, p) = s
              /\ array[s].empty_queue = 0 /\ array[s].serial_no = p
          BY <5>1, SlotOfPort
        <5>3. rest[s].empty_queue = 0 /\ rest[s].serial_no = p
          BY <5>2 DEF Withdraw, Sound, ArrayOf
        <5> QED BY <5>2, <5>3 DEF SlotsOf
      <4>3. Changes(rest, FreeSlot(rest, p), p, <<>>)
        <5>1. Sound(rest) /\ Contents(rest, p) = <<>>
          BY <3>1, <4>1 DEF Changes
        <5> HIDE DEF rest
        <5> QED BY <4>2, <5>1, FreeEffect
      <4> HIDE DEF rest
      <4> QED BY <3>1, <4>1, <4>3 DEF Changes
    <3> HIDE DEF rest
    <3> QED BY <3>1, <3>2, <3>3
  <2> QED BY <2>1, <2>2
<1> QED BY <1>2, <1>3, <1>5

-----------------------------------------------------------------------------
(* The parts of the invariant *)

IInv == TypeOK /\ SlotsSuffice /\ AccountsRight /\ MemoryBounded

-----------------------------------------------------------------------------
(* An array of queues and the totals kept for it *)

Counted(array, total) ==
  /\ Sound(array)
  /\ total \in [Ports -> Nat]
  /\ \A p \in Ports : total[p] = Total(Contents(array, p))

LEMMA Counts ==
  /\ IInv => /\ Counted(server_array_queue, serial_server_queue_total)
             /\ Counted(client_array_queue, serial_use_memory)
  /\ Counted(server_array_queue, serial_server_queue_total)
       /\ Counted(client_array_queue, serial_use_memory)
     => QueuesOK /\ SlotsSuffice /\ AccountsRight
BY DEF IInv, TypeOK, QueuesOK, ControlOK, SlotsSuffice, AccountsRight, Counted, Sound

LEMMA TotalOfContents ==
  ASSUME NEW array, Sound(array), NEW p \in Ports
  PROVE  Contents(array, p) \in Queue /\ Total(Contents(array, p)) \in Nat
BY ContentsType, QueueData, TotalType

\* The queue of one port changed, and its total with it.
LEMMA CountedAfter ==
  ASSUME NEW array, NEW total, Counted(array, total),
         NEW p \in Ports, NEW after, NEW q \in Queue, Changes(array, after, p, q)
  PROVE  Counted(after, [total EXCEPT ![p] = Total(q)])
<1>1. Total(q) \in Nat
  BY QueueData, TotalType
<1> QED BY <1>1 DEF Counted, Changes

LEMMA PutCounted ==
  ASSUME NEW array, NEW total, Counted(array, total),
         NEW p \in Ports, NEW pieces \in Queue
  PROVE  /\ Changes(array, addToQueue(array, p, pieces), p, Contents(array, p) \o pieces)
         /\ Counted(addToQueue(array, p, pieces), [total EXCEPT ![p] = @ + Total(pieces)])
<1> DEFINE q == Contents(array, p)
<1>1. Sound(array) /\ total[p] = Total(q)
  BY DEF Counted
<1>2. Changes(array, addToQueue(array, p, pieces), p, q \o pieces)
  BY <1>1, AddEffect
<1>3. q \in Queue /\ q \o pieces \in Queue
  BY <1>1, ContentsType, QueueConcat
<1>4. Total(q \o pieces) = Total(q) + Total(pieces)
  BY <1>3, QueueData, TotalOfConcat
<1>5. Counted(addToQueue(array, p, pieces), [total EXCEPT ![p] = Total(q \o pieces)])
  BY <1>2, <1>3, CountedAfter
<1> QED BY <1>1, <1>2, <1>4, <1>5

\* What is dropped from the front of a queue is taken off its total.
LEMMA TakeCounted ==
  ASSUME NEW array, NEW total, Counted(array, total),
         NEW p \in Ports, NEW n \in 0 .. Len(Contents(array, p)), NEW after,
         Changes(array, after, p, DropFirst(Contents(array, p), n)),
         NEW m, m = Total(SubSeq(Contents(array, p), 1, n))
  PROVE  /\ Counted(after, [total EXCEPT ![p] = Minus(@, m)])
         /\ Total(Contents(after, p)) <= Total(Contents(array, p))
<1> DEFINE q == Contents(array, p)
<1>1. Sound(array) /\ total[p] = Total(q) /\ q \in Queue /\ Total(q) \in Nat
  BY TotalOfContents DEF Counted
<1>2. /\ SubSeq(q, 1, n) \in Queue /\ DropFirst(q, n) \in Queue
      /\ Total(q) = Total(SubSeq(q, 1, n)) + Total(DropFirst(q, n))
  BY <1>1, Split
<1>3. Total(SubSeq(q, 1, n)) \in Nat /\ Total(DropFirst(q, n)) \in Nat
  BY <1>2, QueueData, TotalType
<1>4. Minus(total[p], m) = Total(DropFirst(q, n))
  BY <1>1, <1>2, <1>3 DEF Minus
<1>5. Counted(after, [total EXCEPT ![p] = Total(DropFirst(q, n))])
  BY <1>2, CountedAfter
<1>6. Contents(after, p) = DropFirst(q, n)
  BY DEF Changes
<1>7. Total(DropFirst(q, n)) <= Total(q)
  BY <1>1, <1>2, <1>3
<1>8. [total EXCEPT ![p] = Minus(@, m)] = [total EXCEPT ![p] = Total(DropFirst(q, n))]
  BY <1>4, Zenon
<1> HIDE DEF q
<1>9. Counted(after, [total EXCEPT ![p] = Minus(@, m)])
  BY <1>5, <1>8, Zenon
<1> QED BY <1>6, <1>7, <1>9, Zenon DEF q

-----------------------------------------------------------------------------
(* The ways in which the arrays change *)

\* The queue of some port is longer, or shorter, by pieces at one end.
Grows(array, after) ==
  \E p \in Ports : \E pieces \in Queue :
    Changes(array, after, p, Contents(array, p) \o pieces)

Shrinks(array, after) ==
  \E p \in Ports : \E n \in 0 .. Len(Contents(array, p)) :
    Changes(array, after, p, DropFirst(Contents(array, p), n))

ServerStep ==
  \/ UNCHANGED server
  \/ \E p \in Ports : \E pieces \in Queue : addDataToServerQueue(p, pieces)
  \/ i \in Ports /\ (EmptyFound \/ PieceRead)

ClientStep ==
  \/ UNCHANGED client
  \/ \E p \in Ports : readClientQueueToBuf(p)
  \/ \E p \in Ports : \E piece \in Piece :
       Len(piece) <= SerialPiece /\ addDataToClientQueue(p, piece)
  \/ i \in Ports /\ HasData /\ removeAllQueueNode

LEMMA OnePiece ==
  ASSUME NEW piece \in Piece
  PROVE  /\ <<piece>> \in Queue
         /\ Total(<<piece>>) = Len(piece)
         /\ Len(piece) \in Nat
<1>1. piece \in Seq(Nat)
  BY DEF Piece
<1>2. <<piece>> \in Seq(Piece)
  OBVIOUS
<1> QED BY <1>1, <1>2, TotalOfOne DEF Queue

LEMMA UnitsPiece ==
  ASSUME NEW m \in Nat, NEW n \in Nat \ {0}
  PROVE  Units(m, n) \in Piece /\ Len(Units(m, n)) = n
<1>1. Units(m, n) \in Seq(Nat) /\ Len(Units(m, n)) = n
  BY DEF Units
<1> QED BY <1>1 DEF Piece

\* The first piece leaves the queue of port i.
LEMMA ReadEffect ==
  ASSUME NEW array, NEW total, Counted(array, total), NEW p \in Ports,
         Contents(array, p) # <<>>
  PROVE  /\ Changes(array, Withdraw(array, p, 1), p, DropFirst(Contents(array, p), 1))
         /\ Counted(Withdraw(array, p, 1),
                    [total EXCEPT ![p] = Minus(@, Len(Head(Contents(array, p))))])
<1> DEFINE q == Contents(array, p)
<1>1. Sound(array) /\ q \in Seq(Piece) /\ Len(q) \in Nat
  BY ContentsType DEF Counted, Queue
<1>2. Len(q) # 0 /\ SlotsOf(array, p) # {}
  BY <1>1, EmptySeq DEF Contents
<1>3. 1 \in 0 .. Len(q)
  BY <1>1, <1>2
<1>4. Changes(array, Withdraw(array, p, 1), p, DropFirst(q, 1))
  BY <1>1, <1>2, <1>3, WithdrawEffect
<1>5. Total(SubSeq(q, 1, 1)) = Len(Head(q))
  <2>1. q[1] \in Piece /\ Head(q) = q[1]
    BY <1>1, <1>2, ElementOfSeq
  <2>2. SubSeq(q, 1, 1) = <<q[1]>>
    <3> HIDE DEF q, Piece
    <3>1. /\ SubSeq(q, 1, 1) \in Seq(Piece) /\ Len(SubSeq(q, 1, 1)) = 1
          /\ SubSeq(q, 1, 1)[1] = q[1]
      BY <1>1, <1>2, SubSeqProperties
    <3>2. <<q[1]>> \in Seq(Piece) /\ Len(<<q[1]>>) = 1 /\ <<q[1]>>[1] = q[1]
      BY <2>1
    <3>3. \A k \in 1 .. 1 : SubSeq(q, 1, 1)[k] = <<q[1]>>[k]
      BY <3>1, <3>2
    <3> DEFINE s == SubSeq(q, 1, 1)
               t == <<q[1]>>
    <3>4. s \in Seq(Piece) /\ t \in Seq(Piece) /\ Len(s) = Len(t) /\ Len(s) = 1
      BY <3>1, <3>2
    <3>5. \A k \in 1 .. Len(s) : s[k] = t[k]
      BY <3>3, <3>4
    <3> HIDE DEF s, t
    <3>6. s = t
      BY <3>4, <3>5, SeqEqual
    <3> QED BY <3>6 DEF s, t
  <2> QED BY <2>1, <2>2, OnePiece
<1> QED BY <1>3, <1>4, <1>5, TakeCounted

LEMMA ServerStepKeeps ==
  ASSUME Counted(server_array_queue, serial_server_queue_total), ServerStep
  PROVE  /\ Counted(server_array_queue, serial_server_queue_total)'
         /\ \/ UNCHANGED server_array_queue
            \/ Grows(server_array_queue, server_array_queue')
            \/ Shrinks(server_array_queue, server_array_queue')
<1>1. CASE UNCHANGED server
  BY <1>1 DEF server, Counted, Contents, SlotsOf, SlotOf, Sound, ArrayOf, SlotForEach, FreeSlots
<1>2. ASSUME NEW p \in Ports, NEW pieces \in Queue, addDataToServerQueue(p, pieces)
      PROVE  /\ Counted(server_array_queue', serial_server_queue_total')
             /\ Grows(server_array_queue, server_array_queue')
  BY <1>2, PutCounted DEF addDataToServerQueue, Grows
<1>3. CASE i \in Ports /\ EmptyFound
  <2>1. Changes(server_array_queue, server_array_queue', i, <<>>)
    BY <1>3, FreeEffect DEF EmptyFound, Counted, serverQueue
  <2>2. Counted(server_array_queue', serial_server_queue_total')
    <3>1. serial_server_queue_total[i] = Total(<<>>)
      BY <1>3 DEF EmptyFound, Counted, serverQueue
    <3>2. Counted(server_array_queue', [serial_server_queue_total EXCEPT ![i] = Total(<<>>)])
      BY <1>3, <2>1, NoPieces, CountedAfter
    <3>3. [serial_server_queue_total EXCEPT ![i] = Total(<<>>)] = serial_server_queue_total'
      BY <1>3, <3>1 DEF EmptyFound, Counted
    <3> QED BY <3>2, <3>3
  <2>3. Shrinks(server_array_queue, server_array_queue')
    <3>1. Contents(server_array_queue, i) = <<>>
      BY <1>3 DEF EmptyFound, serverQueue
    <3>2. 0 \in 0 .. Len(<<>>) /\ DropFirst(<<>>, 0) = <<>>
      BY DEF DropFirst
    <3> QED BY <1>3, <2>1, <3>1, <3>2 DEF Shrinks
  <2> QED BY <2>2, <2>3
<1>4. CASE i \in Ports /\ PieceRead
  <2>1. Contents(server_array_queue, i) # <<>>
    BY <1>4 DEF PieceRead, serverQueue
  <2>2. /\ Changes(server_array_queue, server_array_queue', i,
                   DropFirst(Contents(server_array_queue, i), 1))
        /\ Counted(server_array_queue', serial_server_queue_total')
    BY <1>4, <2>1, ReadEffect DEF PieceRead, serverQueue
  <2>3. 1 \in 0 .. Len(Contents(server_array_queue, i))
    <3>1. Contents(server_array_queue, i) \in Seq(Piece)
      BY <1>4, ContentsType DEF Counted, Queue
    <3> QED BY <2>1, <3>1, EmptySeq
  <2> QED BY <1>4, <2>2, <2>3 DEF Shrinks
<1>5. Counted(server_array_queue', serial_server_queue_total')
        => Counted(server_array_queue, serial_server_queue_total)'
  BY DEF Counted, Contents, SlotsOf, SlotOf, Sound, ArrayOf, SlotForEach, FreeSlots
<1> QED BY <1>1, <1>2, <1>3, <1>4, <1>5 DEF ServerStep

\* What readClientQueueToBuf takes is the first pieces, and is taken off.
LEMMA BatchTakes ==
  ASSUME Counted(client_array_queue, serial_use_memory), NEW p \in Ports,
         readClientQueueToBuf(p)
  PROVE  /\ Counted(client_array_queue', serial_use_memory')
         /\ Shrinks(client_array_queue, client_array_queue')
         /\ \A r \in Ports : Total(Contents(client_array_queue', r))
                               <= Total(Contents(client_array_queue, r))
<1> DEFINE array == client_array_queue
           q == Contents(array, p)
           after == AfterBatch(array, p, BufLength)
<1>1. Sound(array) /\ BufLength \in Nat
  BY SerialAssumption DEF Counted
<1>2. PICK n \in 0 .. Len(q) : /\ Batch(array, p, BufLength) = SubSeq(q, 1, n)
                               /\ Changes(array, after, p, DropFirst(q, n))
  BY <1>1, BatchEffect
<1>3. /\ Counted(after, [serial_use_memory EXCEPT ![p] = Minus(@, Total(SubSeq(q, 1, n)))])
      /\ Total(Contents(after, p)) <= Total(q)
  BY <1>2, TakeCounted
<1>4. TakenOff(array, p, BufLength) = Total(SubSeq(q, 1, n))
  <2>1. Total(SubSeq(q, 1, n)) \in Nat
    <3>1. q \in Queue
      BY <1>1, ContentsType
    <3> QED BY <3>1, Split, QueueData, TotalType
  <2> QED BY <1>2, <2>1 DEF TakenOff, DataLengthLeft
<1>5. /\ client_array_queue' = after
      /\ serial_use_memory' = [serial_use_memory EXCEPT ![p] = Minus(@, Total(SubSeq(q, 1, n)))]
  BY <1>4, Zenon DEF readClientQueueToBuf
<1>6. ASSUME NEW r \in Ports
      PROVE  Total(Contents(after, r)) <= Total(Contents(array, r))
  <2>1. Total(Contents(array, r)) \in Nat
    BY <1>1, TotalOfContents
  <2>2. CASE r = p
    BY <1>3, <2>2
  <2>3. CASE r # p
    <3>1. Contents(after, r) = Contents(array, r)
      BY <1>2, <2>3 DEF Changes
    <3> QED BY <2>1, <3>1
  <2> QED BY <2>2, <2>3
<1>7. Shrinks(array, after)
  BY <1>2 DEF Shrinks
<1> HIDE DEF after
<1> QED BY <1>3, <1>5, <1>6, <1>7, Zenon

Bounded(array) == \A p \in Ports : Total(Contents(array, p)) < MaxMemory + SerialPiece

LEMMA ClientStepKeeps ==
  ASSUME Counted(client_array_queue, serial_use_memory), Bounded(client_array_queue),
         ClientStep
  PROVE  /\ Counted(client_array_queue', serial_use_memory')
         /\ Bounded(client_array_queue')
         /\ \/ UNCHANGED client_array_queue
            \/ Grows(client_array_queue, client_array_queue')
            \/ Shrinks(client_array_queue, client_array_queue')
<1>0. MaxMemory \in Nat /\ SerialPiece \in Nat \ {0}
  BY SerialAssumption
<1>1. CASE UNCHANGED client
  BY <1>1 DEF client
<1>2. ASSUME NEW p \in Ports, readClientQueueToBuf(p)
      PROVE  /\ Counted(client_array_queue', serial_use_memory')
             /\ Bounded(client_array_queue')
             /\ Shrinks(client_array_queue, client_array_queue')
  <2>1. /\ Counted(client_array_queue', serial_use_memory')
        /\ Shrinks(client_array_queue, client_array_queue')
        /\ \A r \in Ports : Total(Contents(client_array_queue', r))
                              <= Total(Contents(client_array_queue, r))
    BY <1>2, BatchTakes
  <2>2. \A r \in Ports : /\ Total(Contents(client_array_queue', r)) \in Nat
                         /\ Total(Contents(client_array_queue, r)) \in Nat
    BY <2>1, TotalOfContents DEF Counted
  <2> QED BY <1>0, <2>1, <2>2 DEF Bounded
<1>3. ASSUME NEW p \in Ports, NEW piece \in Piece, Len(piece) <= SerialPiece,
             addDataToClientQueue(p, piece), serial_use_memory[p] < MaxMemory
      PROVE  /\ Counted(client_array_queue', serial_use_memory')
             /\ Bounded(client_array_queue')
             /\ Grows(client_array_queue, client_array_queue')
  <2> DEFINE after == addToQueue(client_array_queue, p, <<piece>>)
             total == [serial_use_memory EXCEPT ![p] = @ + Len(piece)]
  <2>1. <<piece>> \in Queue /\ Total(<<piece>>) = Len(piece) /\ Len(piece) \in Nat
    BY OnePiece
  <2>2. serial_use_memory \in [Ports -> Nat] /\ Sound(client_array_queue)
    BY DEF Counted
  <2>3. client_array_queue' = after /\ serial_use_memory' = total
    BY <1>0, <1>3, <2>2 DEF addDataToClientQueue
  <2>4. /\ Changes(client_array_queue, after, p, Contents(client_array_queue, p) \o <<piece>>)
        /\ Counted(after, [serial_use_memory EXCEPT ![p] = @ + Total(<<piece>>)])
    BY <2>1, PutCounted
  <2>5. Counted(after, total)
    BY <2>1, <2>4
  <2>6. Grows(client_array_queue, after)
    BY <2>1, <2>4 DEF Grows
  <2>7. ASSUME NEW r \in Ports
        PROVE  Total(Contents(after, r)) < MaxMemory + SerialPiece
    <3>1. CASE r = p
      <4>1. Total(Contents(after, r)) = serial_use_memory[p] + Len(piece)
        BY <2>2, <2>5, <3>1 DEF Counted
      <4> QED BY <1>0, <1>3, <2>1, <2>2, <4>1
    <3>2. CASE r # p
      <4>1. Contents(after, r) = Contents(client_array_queue, r)
        BY <2>4, <3>2 DEF Changes
      <4> QED BY <4>1 DEF Bounded
    <3> QED BY <3>1, <3>2
  <2> HIDE DEF after, total
  <2> QED BY <2>3, <2>5, <2>6, <2>7 DEF Bounded
<1>4. ASSUME NEW p \in Ports, NEW piece \in Piece,
             addDataToClientQueue(p, piece), ~ (serial_use_memory[p] < MaxMemory)
      PROVE  UNCHANGED client
  <2>1. serial_use_memory[p] \in Nat
    BY DEF Counted
  <2> QED BY <1>0, <1>4, <2>1 DEF addDataToClientQueue
<1>5. ASSUME i \in Ports, HasData, removeAllQueueNode
      PROVE  /\ Counted(client_array_queue', serial_use_memory')
             /\ Bounded(client_array_queue')
             /\ Shrinks(client_array_queue, client_array_queue')
  <2> DEFINE array == client_array_queue
             after == [array EXCEPT ![i].queue = <<>>]
             q == Contents(array, port)
             n == Len(q)
  <2>1. /\ Sound(array) /\ i \in Slots /\ array[i].empty_queue = 0
        /\ port \in Ports /\ array[i].serial_no = port
    BY <1>5, SlotsAre DEF HasData, Counted, Sound, ArrayOf, port
  <2>2. q = array[i].queue /\ q \in Seq(Piece) /\ q \in Queue
    <3>1. i \in SlotsOf(array, port)
      BY <2>1 DEF SlotsOf
    <3> QED BY <2>1, <3>1, SlotOfPort, ContentsType DEF Queue
  <2>3. Changes(array, after, port, <<>>)
    BY <2>1, ClearEffect
  <2>4. n \in 0 .. Len(q) /\ DropFirst(q, n) = <<>> /\ SubSeq(q, 1, n) = q
    <3>1. n \in 0 .. Len(q)
      BY <2>2
    <3>2. DropFirst(q, n) \in Seq(Piece) /\ Len(DropFirst(q, n)) = 0
      <4>1. DropFirst(q, n) \in Queue /\ Len(DropFirst(q, n)) = Len(q) - n
        <5> HIDE DEF q, n
        <5> QED BY <2>2, <3>1, Split
      <4>2. Len(q) - n = 0
        BY <3>1
      <4> QED BY <4>1, <4>2 DEF Queue
    <3>3. DropFirst(q, n) = <<>>
      BY <3>2, EmptySeq
    <3>4. SubSeq(q, 1, n) = q
      BY <2>2, SubSeqFull
    <3> QED BY <3>1, <3>3, <3>4
  <2>5. Changes(array, after, port, DropFirst(q, n)) /\ Total(q) = Total(SubSeq(q, 1, n))
    BY <2>3, <2>4
  <2>6. /\ client_array_queue' = after
        /\ serial_use_memory' = [serial_use_memory EXCEPT ![port] = Minus(@, Total(q))]
    BY <1>5, <2>2, Zenon DEF removeAllQueueNode
  <2> HIDE DEF after, n
  <2>7. Counted(after, [serial_use_memory EXCEPT ![port] = Minus(@, Total(q))])
    BY <2>1, <2>4, <2>5, TakeCounted
  <2>8. Shrinks(array, after)
    BY <2>1, <2>4, <2>5 DEF Shrinks
  <2>9. ASSUME NEW r \in Ports
        PROVE  Total(Contents(after, r)) < MaxMemory + SerialPiece
    <3>1. CASE r = port
      <4>1. Contents(after, r) = <<>>
        BY <2>3, <3>1 DEF Changes
      <4> QED BY <1>0, <4>1, TotalOfNone
    <3>2. CASE r # port
      <4>1. Contents(after, r) = Contents(array, r)
        BY <2>3, <3>2 DEF Changes
      <4> QED BY <4>1 DEF Bounded
    <3> QED BY <3>1, <3>2
  <2> QED BY <2>6, <2>7, <2>8, <2>9, Zenon DEF Bounded
<1> QED BY <1>1, <1>2, <1>3, <1>4, <1>5 DEF ClientStep, client

-----------------------------------------------------------------------------
(* Every step of the program is one of those *)

\* Where the search for a remote host leads.
LEMMA RemotesType ==
  ASSUME TypeOK, NEW r \in Remotes, HasData
  PROVE  /\ port \in Ports
         /\ r.kind = "local" => r.to \in Ports \union {NoSerial}
         /\ r.kind = "tcp" => r.to \in Hosts
<1>1. port \in Ports
  BY SlotsAre DEF TypeOK, QueuesOK, ControlOK, ArrayOf, HasData, port
<1>2. remote[port] \in RemoteConfigs
  BY <1>1, SerialAssumption DEF TypeOK, ControlOK
<1>3. r \in RemoteConfigs \/ r = [kind |-> "local", to |-> NoSerial]
  BY <1>2 DEF Remotes, StrayConfigs
<1> QED BY <1>1, <1>3 DEF RemoteConfigs

\* What goes from one port to another of this switch is made of whole pieces.
LEMMA PassedOn ==
  ASSUME TypeOK, SlotsSuffice, NEW p \in Ports
  PROVE  Cut(FlattenSeq(Batch(client_array_queue, p, BufLength)), LocalPiece) \in Queue
<1> DEFINE batch == Batch(client_array_queue, p, BufLength)
<1>1. Sound(client_array_queue) /\ BufLength \in Nat /\ LocalPiece \in Nat \ {0}
  BY SerialAssumption DEF TypeOK, QueuesOK, SlotsSuffice, Sound
<1>2. PICK n \in 0 .. Len(Contents(client_array_queue, p)) :
        batch = SubSeq(Contents(client_array_queue, p), 1, n)
  BY <1>1, BatchEffect
<1>3. batch \in Queue
  BY <1>1, <1>2, ContentsType, Split
<1> HIDE DEF batch
<1>4. FlattenSeq(batch) \in Seq(Nat)
  BY <1>3, QueueData, FlattenType
<1>5. Cut(FlattenSeq(batch), LocalPiece) \in Queue
  BY <1>1, <1>4, CutType
<1> QED BY <1>5 DEF batch

LEMMA ConnectionSteps ==
  ASSUME TypeOK, NEW k, processSerialClientConnection(k)
  PROVE  ClientStep
<1>1. CASE Owners(k) = {}
  BY <1>1 DEF processSerialClientConnection, ClientStep
<1>2. CASE Owners(k) # {}
  <2>1. Owners(k) \subseteq Nat
    BY SlotsAre DEF Owners
  <2>2. FirstOf(Owners(k)) \in Owners(k)
    BY <1>2, <2>1, FirstOfIsIn
  <2>3. FirstOf(Owners(k)) \in Ports
    BY <2>2 DEF Owners
  <2>4. readClientQueueToBuf(FirstOf(Owners(k)))
    BY <1>2 DEF processSerialClientConnection
  <2> QED BY <2>3, <2>4 DEF ClientStep
<1> QED BY <1>1, <1>2

LEMMA Steps ==
  ASSUME IInv, [Next]_vars
  PROVE  ServerStep /\ ClientStep
<1>0. /\ TypeOK /\ SlotsSuffice /\ i \in Ports /\ fromNet \in Nat /\ fromSerial \in Nat
      /\ MaxUnits[remote] \in Nat
  BY SerialAssumption DEF IInv, TypeOK, ControlOK
<1>1. ASSUME NEW p \in Ports, serialServerRecv(p)
      PROVE  ServerStep /\ ClientStep
  <2>1. PICK n \in 1 .. NetPiece : addDataToServerQueue(p, <<Units(fromNet, n)>>)
    BY <1>1 DEF serialServerRecv
  <2>2. <<Units(fromNet, n)>> \in Queue
    BY <1>0, UnitsPiece, OnePiece
  <2> QED BY <1>1, <2>1, <2>2 DEF serialServerRecv, ServerStep, ClientStep
<1>2. ASSUME NEW k \in Blocks, Connected(k)
      PROVE  ServerStep /\ ClientStep
  BY <1>0, <1>2, ConnectionSteps DEF Connected, ServerStep
<1>3. ASSUME NEW k \in Blocks, ConnectionGone(k) \/ RemoteCloses(k)
      PROVE  ServerStep /\ ClientStep
  BY <1>3 DEF ConnectionGone, RemoteCloses, ServerStep, ClientStep
<1>4. CASE NetworkDone \/ RemoteWaits \/ UNCHANGED vars
  BY <1>4 DEF NetworkDone, RemoteWaits, vars, ServerStep, ClientStep
<1>5. CASE getUartRecievedData
  <2>1. CASE UNCHANGED client
    BY <1>5, <2>1 DEF getUartRecievedData, ServerStep, ClientStep
  <2>2. ASSUME NEW n \in 1 .. SerialPiece,
               addDataToClientQueue(i, Units(MaxUnits[remote] + fromSerial, n))
        PROVE  ClientStep
    <3>1. /\ Units(MaxUnits[remote] + fromSerial, n) \in Piece
          /\ Len(Units(MaxUnits[remote] + fromSerial, n)) <= SerialPiece
      <4>1. MaxUnits[remote] + fromSerial \in Nat /\ n \in Nat \ {0} /\ n <= SerialPiece
        BY <1>0, SerialAssumption
      <4> QED BY <4>1, UnitsPiece
    <3> QED BY <1>0, <2>2, <3>1 DEF ClientStep
  <2> QED BY <1>5, <2>1, <2>2 DEF getUartRecievedData, ServerStep
<1>6. CASE uartTransfer
  BY <1>0, <1>6 DEF uartTransfer, NothingRead, ServerStep, ClientStep
<1>7. CASE RemoteSlot
  <2>1. CASE SlotSkipped
    BY <2>1 DEF SlotSkipped, ServerStep, ClientStep
  <2>2. CASE NotConfigured
    BY <1>0, <2>2 DEF NotConfigured, ServerStep, ClientStep
  <2>3. CASE transmitLocalSerial
    <3>1. PICK r \in Remotes : r.kind = "local" /\ PassOn(r.to)
      BY <2>3 DEF transmitLocalSerial
    <3>2. CASE UNCHANGED <<server, client>>
      BY <3>2 DEF ServerStep, ClientStep
    <3>3. CASE /\ r.to \in Ports
               /\ addDataToServerQueue(r.to,
                    Cut(FlattenSeq(Batch(client_array_queue, r.to, BufLength)), LocalPiece))
               /\ readClientQueueToBuf(r.to)
      <4>1. Cut(FlattenSeq(Batch(client_array_queue, r.to, BufLength)), LocalPiece) \in Queue
        BY <1>0, <3>3, PassedOn
      <4> QED BY <3>3, <4>1 DEF ServerStep, ClientStep
    <3> QED BY <3>1, <3>2, <3>3 DEF PassOn
  <2>4. CASE processSerialClientUdpConnection
    <3>1. HasData /\ \E r \in Remotes : TRUE
      BY <2>4 DEF processSerialClientUdpConnection
    <3>2. port \in Ports
      BY <1>0, <3>1, RemotesType
    <3> QED BY <2>4, <3>2 DEF processSerialClientUdpConnection, ServerStep, ClientStep
  <2>5. CASE serialClientConnect
    <3>1. UNCHANGED client \/ \E k \in Blocks : processSerialClientConnection(k)
      BY <2>5 DEF serialClientConnect, UseConnection
    <3> QED BY <1>0, <2>5, <3>1, ConnectionSteps
            DEF serialClientConnect, ServerStep, ClientStep
  <2> QED BY <1>7, <2>1, <2>2, <2>3, <2>4, <2>5 DEF RemoteSlot
<1> QED BY <1>1, <1>2, <1>3, <1>4, <1>5, <1>6, <1>7 DEF Next, Network, Superloop

-----------------------------------------------------------------------------
(* The invariant *)

LEMMA InitSound ==
  ASSUME NEW array, array = [s \in Slots |-> EmptySlot]
  PROVE  Sound(array) /\ \A p \in Ports : Contents(array, p) = <<>>
<1>1. EmptySlot \in [empty_queue : 0 .. 1, serial_no : Ports \union {NoSerial}, queue : Queue]
  BY NoPieces DEF EmptySlot
<1>2. \A s \in Slots : array[s].empty_queue = 1
  BY DEF EmptySlot
<1>3. ArrayOf(array)
  BY <1>1, <1>2 DEF ArrayOf
<1>4. Sound(array)
  BY <1>2, <1>3, Pigeonhole DEF Sound, OneSlotEach
<1>5. \A p \in Ports : SlotsOf(array, p) = {}
  BY <1>2 DEF SlotsOf
<1> QED BY <1>4, <1>5 DEF Contents

LEMMA InitHolds == Init => IInv
<1> SUFFICES ASSUME Init
             PROVE  IInv
  OBVIOUS
<1>1. /\ Sound(server_array_queue) /\ \A p \in Ports : Contents(server_array_queue, p) = <<>>
      /\ Sound(client_array_queue) /\ \A p \in Ports : Contents(client_array_queue, p) = <<>>
  BY InitSound DEF Init
<1>2. /\ Counted(server_array_queue, serial_server_queue_total)
      /\ Counted(client_array_queue, serial_use_memory)
  BY <1>1, TotalOfNone DEF Counted, Init
<1>3. MemoryBounded
  BY <1>1, TotalOfNone, SerialAssumption DEF MemoryBounded
<1>4. ControlOK
  BY QueueAssumption DEF ControlOK, Init, Ports, PCB, FreePCB
<1> QED BY <1>2, <1>3, <1>4, Counts DEF IInv, TypeOK

\* A new connection leaves the pool a pool.
LEMMA NewConnectionType ==
  ASSUME pcb \in [Ports -> Blocks \union {NULL}], port \in Ports, NEW h \in Hosts,
         NEW pool \in [Blocks -> PCB], NEW pointer \in Blocks \union {NULL},
         NewConnection(h, pool, pointer)
  PROVE  /\ pcb' \in [Ports -> Blocks \union {NULL}] /\ tcp_pcb' \in [Blocks -> PCB]
<1>1. CASE tcp_pcb' = pool /\ pcb' = [pcb EXCEPT ![port] = pointer]
  BY <1>1
<1>2. ASSUME NEW k \in Blocks, NEW b \in NewPCB(h),
             tcp_pcb' = [pool EXCEPT ![k] = b],
             pcb' = [pcb EXCEPT ![port] = IF b.state = "SYN_SENT" THEN k ELSE pointer]
      PROVE  /\ pcb' \in [Ports -> Blocks \union {NULL}] /\ tcp_pcb' \in [Blocks -> PCB]
  <2>1. b \in PCB
    BY DEF NewPCB, PCB
  <2> QED BY <1>2, <2>1
<1> QED BY <1>1, <1>2 DEF NewConnection

\* The rest of the state keeps its type.
LEMMA ControlKept ==
  ASSUME IInv, [Next]_vars
  PROVE  /\ remote' \in RemoteTables /\ isConfigRemoteHost' \in 0 .. 1
         /\ pcb' \in [Ports -> Blocks \union {NULL}] /\ tcp_pcb' \in [Blocks -> PCB]
         /\ fromNet' \in Nat /\ fromSerial' \in Nat
         /\ pc' \in {"network", "client", "server", "remote"} /\ i' \in Ports
<1>1. TypeOK /\ ControlOK
  BY DEF IInv, TypeOK
<1>2. \A ph : Onward(ph) => i' \in Ports /\ pc' \in {pc, ph}
  BY <1>1, QueueAssumption DEF ControlOK, Onward, Ports
<1>3. 0 \in Ports
  BY QueueAssumption DEF Ports
<1>4. CASE Network
  <2>1. ASSUME NEW p \in Ports, serialServerRecv(p)
        PROVE  /\ UNCHANGED <<remote, isConfigRemoteHost, tcp, fromSerial, loop>>
               /\ fromNet' \in Nat
    BY <1>1, <2>1 DEF serialServerRecv, NetComes, ControlOK
  <2>2. ASSUME NEW k \in Blocks, Connected(k) \/ ConnectionGone(k) \/ RemoteCloses(k)
        PROVE  /\ UNCHANGED <<remote, isConfigRemoteHost, pcb, came, loop>>
               /\ tcp_pcb' \in [Blocks -> PCB]
    BY <1>1, <2>2 DEF Connected, ConnectionGone, RemoteCloses, ControlOK, PCB, FreePCB
  <2> QED BY <1>1, <1>4, <2>1, <2>2 DEF Network, ControlOK, tcp, loop, came
<1>5. CASE NetworkDone \/ getUartRecievedData \/ uartTransfer \/ RemoteWaits
  BY <1>1, <1>2, <1>5 DEF NetworkDone, getUartRecievedData, uartTransfer, RemoteWaits,
    SerialComes, ControlOK, tcp, came
<1>6. CASE RemoteSlot
  <2>1. NextSlot => i' \in Ports /\ pc' \in {pc, "network"} /\ isConfigRemoteHost' = 0
    BY <1>2 DEF NextSlot
  <2>2. remote' = remote /\ fromNet' = fromNet /\ fromSerial' = fromSerial /\ pc = "remote"
    BY <1>6 DEF RemoteSlot, came
  <2>3. CASE UNCHANGED tcp /\ NextSlot
    BY <1>1, <2>1, <2>2, <2>3 DEF tcp, ControlOK
  <2>4. CASE transmitLocalSerial
    BY <1>1, <1>3, <2>2, <2>4 DEF transmitLocalSerial, tcp, ControlOK
  <2>5. CASE serialClientConnect
    <3>1. PICK r \in Remotes :
            /\ r.kind = "tcp"
            /\ \/ \E k \in Blocks : tcp_pcb[k].to = r.to /\ UseConnection(k)
               \/ NewConnection(r.to, tcp_pcb, pcb[port])
      BY <2>5 DEF serialClientConnect
    <3>2. r.to \in Hosts /\ port \in Ports /\ NextSlot
      BY <1>1, <2>5, <3>1, RemotesType DEF serialClientConnect
    <3>3. /\ pcb' \in [Ports -> Blocks \union {NULL}] /\ tcp_pcb' \in [Blocks -> PCB]
      <4>1. pcb[port] \in Blocks \union {NULL}
        BY <1>1, <3>2 DEF ControlOK
      <4>2. CASE NewConnection(r.to, tcp_pcb, pcb[port])
        BY <1>1, <3>2, <4>1, <4>2, NewConnectionType DEF ControlOK
      <4>3. ASSUME NEW k \in Blocks, tcp_pcb[k].to = r.to, UseConnection(k)
            PROVE  /\ pcb' \in [Ports -> Blocks \union {NULL}] /\ tcp_pcb' \in [Blocks -> PCB]
        <5>1. Closed(k) \in [Blocks -> PCB]
          BY <1>1 DEF Closed, ControlOK, PCB, FreePCB
        <5>2. CASE NewConnection(tcp_pcb[k].to, Closed(k), NULL)
          BY <1>1, <3>2, <4>3, <5>1, <5>2, NewConnectionType DEF ControlOK
        <5> QED BY <1>1, <4>3, <5>2 DEF UseConnection, ControlOK, tcp
      <4> QED BY <3>1, <4>2, <4>3
    <3> QED BY <1>1, <2>1, <2>2, <3>2, <3>3 DEF ControlOK
  <2> QED BY <1>6, <2>3, <2>4, <2>5 DEF RemoteSlot, SlotSkipped, NotConfigured,
    processSerialClientUdpConnection
<1>7. CASE UNCHANGED vars
  BY <1>1, <1>7 DEF vars, ControlOK, tcp, came, loop
<1> QED BY <1>4, <1>5, <1>6, <1>7 DEF Next, Superloop

\* How the two arrays move, and that the invariant holds after it.
LEMMA StepKeeps ==
  ASSUME IInv, [Next]_vars
  PROVE  /\ IInv'
         /\ \/ UNCHANGED server_array_queue
            \/ Grows(server_array_queue, server_array_queue')
            \/ Shrinks(server_array_queue, server_array_queue')
         /\ \/ UNCHANGED client_array_queue
            \/ Grows(client_array_queue, client_array_queue')
            \/ Shrinks(client_array_queue, client_array_queue')
<1>1. ServerStep /\ ClientStep
  BY Steps
<1>2. /\ Counted(server_array_queue, serial_server_queue_total)
      /\ Counted(client_array_queue, serial_use_memory)
      /\ Bounded(client_array_queue)
  BY Counts DEF IInv, MemoryBounded, Bounded
<1>3. /\ Counted(server_array_queue', serial_server_queue_total')
      /\ \/ UNCHANGED server_array_queue
         \/ Grows(server_array_queue, server_array_queue')
         \/ Shrinks(server_array_queue, server_array_queue')
  BY <1>1, <1>2, ServerStepKeeps
<1>4. /\ Counted(client_array_queue', serial_use_memory')
      /\ Bounded(client_array_queue')
      /\ \/ UNCHANGED client_array_queue
         \/ Grows(client_array_queue, client_array_queue')
         \/ Shrinks(client_array_queue, client_array_queue')
  BY <1>1, <1>2, ClientStepKeeps
<1>5. (QueuesOK /\ SlotsSuffice /\ AccountsRight)'
  BY <1>3, <1>4 DEF Counted, Sound, QueuesOK, SlotsSuffice, AccountsRight
<1>6. ControlOK'
  BY <1>3, <1>4, ControlKept DEF ControlOK, Counted
<1>7. MemoryBounded'
  BY <1>4 DEF MemoryBounded, Bounded
<1> QED BY <1>3, <1>4, <1>5, <1>6, <1>7 DEF IInv, TypeOK

LEMMA Invariance == Spec => []IInv
<1>1. IInv /\ [Next]_vars => IInv'
  BY StepKeeps
<1> QED BY InitHolds, <1>1, PTL DEF Spec

(* Every variable of the serial side keeps its type, for any numbers of    *)
(* ports and slots: above all both arrays of queues are well formed.       *)
THEOREM TypeCorrect == Spec => []TypeOK
<1>1. IInv => TypeOK
  BY DEF IInv
<1> QED BY <1>1, Invariance, PTL

(* The search of addToQueue always ends in one slot: no port has two       *)
(* queues, and with no more ports than slots none is ever without.         *)
THEOREM SlotsNeverRunOut == Spec => []SlotsSuffice
<1>1. IInv => SlotsSuffice
  BY DEF IInv
<1> QED BY <1>1, Invariance, PTL

(* The counters are changed along with every change of the queues, in the  *)
(* callbacks of lwIP and in the superloop, and never drift away from them. *)
THEOREM CountersAgree == Spec => []AccountsRight
<1>1. IInv => AccountsRight
  BY DEF IInv
<1> QED BY <1>1, Invariance, PTL

(* The check of addDataToClientQueue bounds what really waits of a port:   *)
(* it exceeds SERIAL_QUEUE_MAX_MEMORY by less than one piece.              *)
THEOREM MemoryStaysBounded == Spec => []MemoryBounded
<1>1. IInv => MemoryBounded
  BY DEF IInv
<1> QED BY <1>1, Invariance, PTL

-----------------------------------------------------------------------------
(* Refinement *)

LEMMA InitRefines ==
  Init => Servers!Init /\ Clients!Init
BY InitSound DEF Init, Servers!Init, Clients!Init

\* The abstract queues before and after.
QueuesOf(array) == [p \in Ports |-> Contents(array, p)]

\* Pieces put behind, or taken from the front of, the queue of one port.
PutsOne(before, after) ==
  \E p \in Ports : \E q :
    /\ Len(q) > Len(before[p])
    /\ SubSeq(q, 1, Len(before[p])) = before[p]
    /\ after = [before EXCEPT ![p] = q]

TakesOne(before, after) ==
  \E p \in Ports : \E n \in 1 .. Len(before[p]) :
    after = [before EXCEPT ![p] = SubSeq(before[p], n + 1, Len(before[p]))]

LEMMA GrowsPuts ==
  ASSUME NEW array, NEW after, Sound(array), Grows(array, after)
  PROVE  QueuesOf(after) = QueuesOf(array) \/ PutsOne(QueuesOf(array), QueuesOf(after))
<1>1. PICK p \in Ports, pieces \in Queue :
        Changes(array, after, p, Contents(array, p) \o pieces)
  BY DEF Grows
<1> DEFINE c == Contents(array, p)
           q == c \o pieces
<1>2. c \in Queue /\ QueuesOf(array)[p] = c
  BY ContentsType DEF QueuesOf
<1>3. Len(q) = Len(c) + Len(pieces) /\ SubSeq(q, 1, Len(c)) = c
  BY <1>2, QueueConcat
<1>4. QueuesOf(after) = [QueuesOf(array) EXCEPT ![p] = q]
  <2> HIDE DEF q
  <2>1. Changes(array, after, p, q)
    BY <1>1 DEF q
  <2> HIDE DEF c
  <2> QED BY <2>1 DEF Changes, QueuesOf
<1>5. Len(c) \in Nat /\ Len(pieces) \in Nat
  BY <1>2 DEF Queue
<1>6. CASE Len(pieces) = 0
  <2>1. q = c
    <3>1. pieces \in Seq(Piece) /\ c \in Seq(Piece)
      BY <1>2 DEF Queue
    <3> HIDE DEF Piece, c
    <3>2. pieces = <<>>
      BY <1>6, <3>1, EmptySeq
    <3> QED BY <3>1, <3>2
  <2>2. [QueuesOf(array) EXCEPT ![p] = c] = QueuesOf(array)
    BY DEF QueuesOf
  <2> QED BY <1>4, <2>1, <2>2, Zenon
<1>7. CASE Len(pieces) # 0
  <2>1. Len(q) > Len(QueuesOf(array)[p])
    BY <1>2, <1>3, <1>5, <1>7
  <2>2. SubSeq(q, 1, Len(QueuesOf(array)[p])) = QueuesOf(array)[p]
    BY <1>2, <1>3, Zenon
  <2> HIDE DEF q
  <2> QED BY <1>4, <2>1, <2>2, Zenon DEF PutsOne
<1> QED BY <1>6, <1>7

LEMMA ShrinksTakes ==
  ASSUME NEW array, NEW after, Sound(array), Shrinks(array, after)
  PROVE  QueuesOf(after) = QueuesOf(array) \/ TakesOne(QueuesOf(array), QueuesOf(after))
<1>1. PICK p \in Ports : \E n \in 0 .. Len(Contents(array, p)) :
        Changes(array, after, p, DropFirst(Contents(array, p), n))
  BY DEF Shrinks
<1> DEFINE c == Contents(array, p)
<1>2. PICK n \in 0 .. Len(c) : Changes(array, after, p, DropFirst(c, n))
  BY <1>1
<1>3. QueuesOf(array)[p] = c /\ c \in Seq(Piece) /\ Len(c) \in Nat
  BY ContentsType DEF QueuesOf, Queue
<1>4. QueuesOf(after) = [QueuesOf(array) EXCEPT ![p] = SubSeq(c, n + 1, Len(c))]
  <2> DEFINE q == DropFirst(c, n)
  <2>1. Changes(array, after, p, q)
    BY <1>2
  <2> HIDE DEF q, c
  <2>2. QueuesOf(after) = [QueuesOf(array) EXCEPT ![p] = q]
    BY <2>1 DEF Changes, QueuesOf
  <2> QED BY <2>2, Zenon DEF DropFirst, q
<1>5. CASE n = 0
  <2>1. SubSeq(c, n + 1, Len(c)) = c
    <3>1. n + 1 = 1
      BY <1>5
    <3> QED BY <1>3, <3>1, SubSeqFull
  <2>2. [QueuesOf(array) EXCEPT ![p] = c] = QueuesOf(array)
    BY DEF QueuesOf
  <2> QED BY <1>4, <2>1, <2>2, Zenon
<1>6. CASE n # 0
  <2>1. n \in 1 .. Len(c)
    BY <1>6
  <2> QED BY <1>3, <1>4, <2>1, Zenon DEF TakesOne
<1> QED BY <1>5, <1>6

(* Whatever callbacks, rounds of the superloop and slots come between them, *)
(* the pieces of a port leave its queue in the order in which they were put *)
(* in, each once, and no other port's: both arrays refine PortQueues.       *)
THEOREM ArraysAreQueues == Spec => AreQueues
<1> DEFINE s == [p \in Ports |-> Contents(server_array_queue, p)]
           c == [p \in Ports |-> Contents(client_array_queue, p)]
<1>1. IInv /\ [Next]_vars => [Servers!Next]_s /\ [Clients!Next]_c
  <2> SUFFICES ASSUME IInv, [Next]_vars
               PROVE  [Servers!Next]_s /\ [Clients!Next]_c
    OBVIOUS
  <2>1. /\ Sound(server_array_queue) /\ Sound(client_array_queue)
        /\ s = QueuesOf(server_array_queue) /\ s' = QueuesOf(server_array_queue')
        /\ c = QueuesOf(client_array_queue) /\ c' = QueuesOf(client_array_queue')
    BY Counts DEF Counted, QueuesOf
  <2>2. [Servers!Next]_s
    <3>1. CASE UNCHANGED server_array_queue
      BY <2>1, <3>1
    <3>2. CASE Grows(server_array_queue, server_array_queue')
      <4>1. s' = s \/ PutsOne(s, s')
        <5>1. \/ QueuesOf(server_array_queue') = QueuesOf(server_array_queue)
              \/ PutsOne(QueuesOf(server_array_queue), QueuesOf(server_array_queue'))
          BY <2>1, <3>2, GrowsPuts
        <5> HIDE DEF s
        <5> QED BY <2>1, <5>1
      <4>2. ASSUME PutsOne(s, s')
            PROVE  Servers!Next
        <5> HIDE DEF s
        <5>0. PICK p \in Ports : \E q :
                /\ Len(q) > Len(s[p]) /\ SubSeq(q, 1, Len(s[p])) = s[p]
                /\ s' = [s EXCEPT ![p] = q]
          BY <4>2, Zenon DEF PutsOne
        <5>1. PICK q :
                /\ Len(q) > Len(s[p]) /\ SubSeq(q, 1, Len(s[p])) = s[p]
                /\ s' = [s EXCEPT ![p] = q]
          BY <5>0, Zenon
        <5> USE DEF s
        <5>2. s'[p] = q
          <6>1. p \in DOMAIN s
            OBVIOUS
          <6> HIDE DEF s
          <6> QED BY <5>1, <6>1
        <5>3. Servers!Put(p)
          BY <5>1, <5>2, Zenon DEF Servers!Put, Servers!Becomes
        <5> QED BY <5>3 DEF Servers!Next
      <4> QED BY <4>1, <4>2
    <3>3. CASE Shrinks(server_array_queue, server_array_queue')
      <4>1. s' = s \/ TakesOne(s, s')
        <5>1. \/ QueuesOf(server_array_queue') = QueuesOf(server_array_queue)
              \/ TakesOne(QueuesOf(server_array_queue), QueuesOf(server_array_queue'))
          BY <2>1, <3>3, ShrinksTakes
        <5> HIDE DEF s
        <5> QED BY <2>1, <5>1
      <4> QED BY <4>1, Zenon DEF Servers!Next, Servers!Take, Servers!Becomes, TakesOne
    <3> QED BY <3>1, <3>2, <3>3, StepKeeps
  <2>3. [Clients!Next]_c
    <3>1. CASE UNCHANGED client_array_queue
      BY <2>1, <3>1
    <3>2. CASE Grows(client_array_queue, client_array_queue')
      <4>1. c' = c \/ PutsOne(c, c')
        <5>1. \/ QueuesOf(client_array_queue') = QueuesOf(client_array_queue)
              \/ PutsOne(QueuesOf(client_array_queue), QueuesOf(client_array_queue'))
          BY <2>1, <3>2, GrowsPuts
        <5> HIDE DEF c
        <5> QED BY <2>1, <5>1
      <4>2. ASSUME PutsOne(c, c')
            PROVE  Clients!Next
        <5> HIDE DEF c
        <5>0. PICK p \in Ports : \E q :
                /\ Len(q) > Len(c[p]) /\ SubSeq(q, 1, Len(c[p])) = c[p]
                /\ c' = [c EXCEPT ![p] = q]
          BY <4>2, Zenon DEF PutsOne
        <5>1. PICK q :
                /\ Len(q) > Len(c[p]) /\ SubSeq(q, 1, Len(c[p])) = c[p]
                /\ c' = [c EXCEPT ![p] = q]
          BY <5>0, Zenon
        <5> USE DEF c
        <5>2. c'[p] = q
          <6>1. p \in DOMAIN c
            OBVIOUS
          <6> HIDE DEF c
          <6> QED BY <5>1, <6>1
        <5>3. Clients!Put(p)
          BY <5>1, <5>2, Zenon DEF Clients!Put, Clients!Becomes
        <5> QED BY <5>3 DEF Clients!Next
      <4> QED BY <4>1, <4>2
    <3>3. CASE Shrinks(client_array_queue, client_array_queue')
      <4>1. c' = c \/ TakesOne(c, c')
        <5>1. \/ QueuesOf(client_array_queue') = QueuesOf(client_array_queue)
              \/ TakesOne(QueuesOf(client_array_queue), QueuesOf(client_array_queue'))
          BY <2>1, <3>3, ShrinksTakes
        <5> HIDE DEF c
        <5> QED BY <2>1, <5>1
      <4> QED BY <4>1, Zenon DEF Clients!Next, Clients!Take, Clients!Becomes, TakesOne
    <3> QED BY <3>1, <3>2, <3>3, StepKeeps
  <2> QED BY <2>2, <2>3
<1>2. Init => Servers!Init /\ Clients!Init
  BY InitRefines
<1> QED BY <1>1, <1>2, Invariance, PTL DEF Spec, AreQueues, Servers!Spec, Clients!Spec
=============================================================================
