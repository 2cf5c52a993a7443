----------------------------- MODULE PortQueues -----------------------------
(***************************************************************************)
(* What the serial queues promise their callers, whatever the slots they   *)
(* are kept in: every port has a queue of its own, pieces are put at its   *)
(* end and leave from its front, and one port never touches another's.     *)
(***************************************************************************)
EXTENDS Integers, Sequences

CONSTANT Ports
VARIABLE queue   \* queue[p]: the pieces that wait for port p, oldest first

Init == queue = [p \in Ports |-> <<>>]

\* The queue of p alone becomes q.
Becomes(p, q) == queue' = [queue EXCEPT ![p] = q]

Put(p) ==
  /\ Len(queue'[p]) > Len(queue[p])
  /\ SubSeq(queue'[p], 1, Len(queue[p])) = queue[p]
  /\ Becomes(p, queue'[p])

Take(p) == \E n \in 1 .. Len(queue[p]) : Becomes(p, SubSeq(queue[p], n + 1, Len(queue[p])))

Next == \E p \in Ports : Put(p) \/ Take(p)

Spec == Init /\ [][Next]_queue
=============================================================================
