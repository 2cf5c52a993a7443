------------------------------- MODULE MCRstp -------------------------------
(***************************************************************************)
(* Instances of Rstp for TLC.  Ports are numbered ten times their bridge   *)
(* plus their own number.  Times are the smallest _check_stpm_config       *)
(* accepts: hello 1, maximum age 6, forward delay 4.                       *)
(***************************************************************************)
EXTENDS Rstp

MinTimes == [MessageAge |-> 0, MaxAge |-> 6, ForwardDelay |-> 4, HelloTime |-> 1]

MCOwner   == [p \in Port |-> p \div 10]
MCPortId  == [p \in Port |-> p % 10]
MCTimes   == [b \in Bridge |-> MinTimes]
MCVersion == [b \in Bridge |-> 2]

\* Bridge 2 is held to STP.
MixedVersion == [b \in Bridge |-> IF b = 2 THEN 0 ELSE 2]
MCSpeed   == [p \in Port |-> 100]

\* Two bridges and two cables, 11 - 21 and 12 - 22; port 3 has no cable.
ParallelPeer == [p \in Port |-> IF p % 10 = 3 THEN p ELSE
                                IF p \div 10 = 1 THEN p + 10 ELSE p - 10]

\* Three bridges in a ring: port 11 - 22, 21 - 32, 31 - 12.
RingPeer == [p \in Port |->
  CASE p = 11 -> 22 [] p = 22 -> 11 [] p = 21 -> 32
    [] p = 32 -> 21 [] p = 31 -> 12 [] p = 12 -> 31]

\* One bridge with a cable from port 11 to port 12; the other ports have no
\* neighbour that is modelled.
LoopbackPeer == [p \in Port |-> CASE p = 11 -> 12 [] p = 12 -> 11 [] OTHER -> p]

Frame(type, role, vec) ==
  [NoBpdu EXCEPT !.type = type, !.role = role, !.vec = vec, !.times = MinTimes,
                 !.proposal = role = "Designated", !.agreement = role = "Root",
                 !.tcAck = type = "Config"]

\* A better bridge (0) proposes; the neighbour agrees with bridge 1 as root;
\* an STP bridge four hops from a better root announces it and acknowledges a
\* topology change; an STP bridge notifies one.
ForeignFrames ==
  {Frame("RSTP", "Designated", <<0, 0, 0, 1, 1>>),
   Frame("RSTP", "Root", <<1, 0, 1, 1, 1>>),
   [Frame("Config", "Unknown", <<0, 0, 0, 1, 1>>) EXCEPT !.times.MessageAge = 4],
   TcnBpdu}
=============================================================================
