----------------------------- MODULE RstpClock ------------------------------
(***************************************************************************)
(* Rstp with a clock for parts of the network: how many full seconds it is *)
(* since anything from outside could reach the part.  The clock only looks *)
(* on; it is there to say how long news of a root outlives the way to it.  *)
(***************************************************************************)
EXTENDS Rstp

CONSTANTS
  Part,          \* the sets of bridges that are timed
  LongestHello,  \* bounds on the hello time and the maximum age that any
  LongestAge,    \*   bridge uses (_check_stpm_config: 10 and 40)
  Horizon        \* bound: where the clocks stop

InLimits(t) == t.HelloTime <= LongestHello /\ t.MaxAge <= LongestAge

ASSUME ClockAssumption ==
  /\ Part \subseteq SUBSET Bridge
  /\ LongestHello \in Nat /\ LongestAge \in Nat /\ Horizon \in Nat
  /\ \A b \in Bridge : InLimits(BrTimes[b])
  /\ \A m \in Foreign : m.type # "TCN" => InLimits(m.times)

VARIABLE alone   \* part -> seconds

\* A link leads out of C, or a frame from a device that is not modelled is in.
Reached(C) ==
  \E p \in phys : /\ Owner[p] \in C
                  /\ IF Peer[p] = p THEN wire[p] # <<>> ELSE Owner[Peer[p]] \notin C

Count(second) ==
  alone' = [C \in Part |->
    IF Reached(C)' THEN 0
    ELSE IF second /\ alone[C] < Horizon THEN alone[C] + 1 ELSE alone[C]]

ClockInit == Init /\ alone = [C \in Part |-> 0]

\* A second is over when every bridge has had its tick.
ClockNext ==
  \/ (\E b \in Bridge : Tick(b)) /\ Count(ticked' = {})
  \/ /\ MachineStep \/ UpdateDone \/ (\E p \in Port : PollLink(p) \/ RxBpdu(p)) \/ Environment
     /\ Count(FALSE)

ClockSpec == ClockInit /\ [][ClockNext]_<<vars, alone>>

\* A bridge passes news on at once, and the next keeps it for three hello times
\* at most; the second is the one between two ticks of its clock.
Hop == 3 * LongestHello + 1

\* Between updates, the bridges of a part that has been cut off for longer than
\* LongestAge - 1 hops take have given up every root outside it: news of a root
\* that cannot be reached is not passed round for ever (updtRootPrio of
\* rolesel.c makes it older at every bridge, updtRcvdInfoWhile of portinfo.c
\* lets nothing live past its maximum age).
DeadRootsForgotten ==
  Idle => \A C \in Part : alone[C] > (LongestAge - 1) * Hop =>
    \A b \in C : RootBridge(br[b].rootPrio) \in C

=============================================================================
