----------------------------- MODULE RstpVector -----------------------------
(***************************************************************************)
(* The data the spanning tree protocol compares: priority vectors          *)
(* (RSTP/src/vector.c), protocol times (RSTP/src/times.c), the automatic   *)
(* port path cost (RSTP/src/pcost.c) and the lifetime of received          *)
(* information (RSTP/src/portinfo.c).                                      *)
(*                                                                         *)
(* A bridge identifier (priority, then MAC address) is a natural number    *)
(* that keeps its order, and so is a port identifier.  Path costs are      *)
(* natural numbers, compared by the sign of their 32-bit difference, as    *)
(* compare_vector does: costs more than 2^31 apart come out in the wrong   *)
(* order, and three of them may come out in a circle.                      *)
(***************************************************************************)
EXTENDS Integers

(***************************************************************************)
(* PRIO_VECTOR_T in the order its components are compared:                 *)
(* root_bridge, root_path_cost, design_bridge, design_port, bridge_port.   *)
(***************************************************************************)
Vector == Nat \X Nat \X Nat \X Nat \X Nat

\* STP_VECT_create
MakeVector(root, cost, bridge, dport, bport) == <<root, cost, bridge, dport, bport>>

\* The largest int of the firmware.
MaxInt == 2147483647

\* The difference m - n of two costs, kept in an int, is negative.
CostLess(m, n) ==
  IF m < n THEN n - m - 1 <= MaxInt ELSE m - n > MaxInt

(***************************************************************************)
(* STP_VECT_compare_vector (v1, v2) < 0: the first component in which the  *)
(* two vectors differ decides.                                             *)
(***************************************************************************)
VecLess(u, v) ==
  \/ u[1] < v[1]
  \/ u[1] = v[1] /\ CostLess(u[2], v[2])
  \/ u[1] = v[1] /\ u[2] = v[2] /\ u[3] < v[3]
  \/ u[1] = v[1] /\ u[2] = v[2] /\ u[3] = v[3] /\ u[4] < v[4]
  \/ u[1] = v[1] /\ u[2] = v[2] /\ u[3] = v[3] /\ u[4] = v[4] /\ u[5] < v[5]

RootBridge(v)   == v[1]
RootPathCost(v) == v[2]
DesignBridge(v) == v[3]
DesignPort(v)   == v[4]
BridgePort(v)   == v[5]

\* The path through a port adds the port's cost to what it received.
AddCost(v, cost) == <<v[1], v[2] + cost, v[3], v[4], v[5]>>

\* STP_info_rx_bpdu: the receiving port puts its own identifier in the vector.
ReceivedBy(v, port_id) == <<v[1], v[2], v[3], v[4], port_id>>

-----------------------------------------------------------------------------
\* TIMEVALUES_T, in seconds.
Times == [MessageAge : Nat, MaxAge : Nat, ForwardDelay : Nat, HelloTime : Nat]

AtLeast1(n) == IF n < 1 THEN 1 ELSE n

(***************************************************************************)
(* updtRootPrio: information that crosses a bridge ages by a rounded       *)
(* sixteenth of MaxAge, and by one second at least.                        *)
(***************************************************************************)
AgeOneHop(t) ==
  [t EXCEPT !.MessageAge = t.MessageAge + AtLeast1((8 + t.MaxAge) \div 16)]

\* Mutant of InfoLifetime: takes no notice of how old the information is.
InfoLifetimeUncut(t) == 3 * t.HelloTime

(***************************************************************************)
(* updtRcvdInfoWhile: how long received information stays valid.  It is    *)
(* three hello times, cut short so that information cannot live past       *)
(* MaxAge, and zero when it already has.                                   *)
(***************************************************************************)
InfoLifetime(t) ==
  LET effAge == AtLeast1(t.MaxAge \div 16) + t.MessageAge
      left   == t.MaxAge - effAge
      hello3 == 3 * t.HelloTime
  IN  IF effAge > t.MaxAge THEN 0
      ELSE IF left > hello3 THEN hello3
      ELSE left

-----------------------------------------------------------------------------
(***************************************************************************)
(* computeAutoPCost: the port path cost of a speed in Mb/s.                *)
(***************************************************************************)
AutoPCost(speed) ==
  CASE speed < 10 -> 20000000
    [] speed = 10 -> 2000000
    [] 10 < speed /\ speed <= 100 -> 200000
    [] 100 < speed /\ speed <= 1000 -> 20000
    [] 1000 < speed /\ speed <= 10000 -> 2000
    [] 10000 < speed /\ speed <= 100000 -> 200
    [] 100000 < speed /\ speed <= 1000000 -> 20
    [] 1000000 < speed /\ speed <= 10000000 -> 2
    [] OTHER -> 1
=============================================================================
