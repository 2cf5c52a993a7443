---------------------------- MODULE BoundedQueue ----------------------------
(***************************************************************************)
(* What a byte FIFO promises: bytes come out in the order they went in,    *)
(* none is lost or repeated, and there are never more than Capacity.       *)
(***************************************************************************)
EXTENDS Integers, Sequences

CONSTANTS Element, Capacity

VARIABLE q

Init == q = <<>>

\* Bytes are added behind those already there.
Put ==
  /\ q' \in Seq(Element)
  /\ Len(q) <= Len(q') /\ Len(q') <= Capacity
  /\ SubSeq(q', 1, Len(q)) = q

\* The oldest bytes leave.
Take == \E n \in 1 .. Len(q) : q' = SubSeq(q, n + 1, Len(q))

Next == Put \/ Take

Spec == Init /\ [][Next]_q
=============================================================================
