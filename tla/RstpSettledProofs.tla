-------------------------- MODULE RstpSettledProofs --------------------------
(***************************************************************************)
(* What a port may not do in the middle of an update, and what holds       *)
(* between updates, for every topology: the chip, the roles, the root      *)
(* port, the received information and the topology change timer of every   *)
(* port are as the protocol wants them.                                    *)
(*                                                                         *)
(* The argument for the second has two halves.  A bridge whose update has  *)
(* ended has no machine that can move (Quiescent), and stays so until an   *)
(* event of its own, because machines read and write their own bridge      *)
(* only.  And a few facts relate, at every step, the state a machine is in *)
(* to the data it has written (PortRight).  Where no machine of a port can *)
(* move, these facts leave only the settled states.                        *)
(***************************************************************************)
EXTENDS RstpTypeProofs

-----------------------------------------------------------------------------
(***************************************************************************)
(* At every step: a port in a role that carries no traffic is never told   *)
(* to carry any.                                                           *)
(***************************************************************************)
\* What port role transitions has decided about port q is left alone.
DutyKept(q) ==
  /\ ctl'[q].role = ctl[q].role
  /\ ctl'[q].learn = ctl[q].learn
  /\ ctl'[q].forward = ctl[q].forward

\* Port information and port transmit leave the decision alone.
LEMMA OthersKeepDuty ==
  ASSUME TypeOK, NEW p \in Port, NEW s, InfoEnter(p, s) \/ TransmitEnter(p, s),
         NEW q \in Port
  PROVE  DutyKept(q)
<1>1. ctl \in [Port -> Control]
  BY DEF TypeOK, StateOK
<1>2. CASE TransmitEnter(p, s)
  <2>1. \/ ctl' = ctl
        \/ \E b : ctl' = [ctl EXCEPT ![p].newInfo = b]
    BY <1>2 DEF TransmitEnter
  <2> QED BY <1>1, <2>1 DEF DutyKept, Control
<1>3. CASE InfoEnter(p, s)
  <2>1. \/ ctl' = ctl
        \/ ctl' = [ctl EXCEPT ![p].proposing = FALSE, ![p].agreed = FALSE,
                              ![p].proposed = FALSE]
        \/ ctl' = [ctl EXCEPT ![p].agreed = FALSE, ![p].synced = FALSE,
                              ![p].proposing = FALSE,
                              ![p].proposed = RecordProposed(p)]
        \/ ctl' = [ctl EXCEPT ![p].agreed = FALSE, ![p].synced = FALSE,
                              ![p].proposed = FALSE, ![p].proposing = FALSE,
                              ![p].newInfo = TRUE]
        \/ ctl' = [ctl EXCEPT ![p].proposed = RecordProposed(p)]
        \/ ctl' = [ctl EXCEPT ![p].agreed = TRUE, ![p].proposing = FALSE]
    BY <1>3 DEF InfoEnter, InfoAged, InfoDisabled, InfoUpdate, InfoReceive, InfoSuperior
  <2> QED BY <1>1, <2>1 DEF DutyKept, Control
<1> QED BY <1>2, <1>3

\* Port role selection leaves it alone, or takes the port out of the protocol.
LEMMA RoleSelDuty ==
  ASSUME TypeOK, NEW b \in Bridge, RoleSelEnter(b), NEW q \in Port
  PROVE  DutyKept(q) \/ ctl'[q].role = "NonStp"
BY DEF TypeOK, StateOK, Control, RoleSelEnter, UpdtRolesBridge, DutyKept

\* Port role transitions of p leave the decision about other ports alone.
LEMMA RoletrnsKeepsOthers ==
  ASSUME TypeOK, NEW p \in Port, NEW s, RoletrnsEnter(p, s),
         NEW q \in Port, q # p
  PROVE  DutyKept(q)
<1>1. ctl \in [Port -> Control]
  BY DEF TypeOK, StateOK
<1>2. CASE s = "ROOT_PROPOSED"
  <2> DEFINE sync == ctl[q].sync \/ Owner[q] = Owner[p]
             proposed == ctl[q].proposed /\ q # p
  <2>1. ctl'[q] = [ctl[q] EXCEPT !.sync = sync, !.proposed = proposed]
    BY <1>2 DEF RoletrnsEnter
  <2> HIDE DEF sync, proposed
  <2> QED BY <1>1, <2>1 DEF DutyKept, Control
<1>3. CASE s = "REROOT"
  BY <1>1, <1>3 DEF RoletrnsEnter, DutyKept, Control
<1>4. CASE s \notin {"ROOT_PROPOSED", "REROOT"}
  <2>1. ctl'[q] = ctl[q]
    BY <1>1, <1>4 DEF RoletrnsEnter, BlockPort
  <2> QED BY <2>1 DEF DutyKept
<1> QED BY <1>2, <1>3, <1>4

\* BLOCKED_PORT and BACKUP_PORT are entered from a blocked state only.
LEMMA BlockedFromBlocked ==
  ASSUME NEW p, RoletrnsNext(p) \in {"BLOCKED_PORT", "BACKUP_PORT"}
  PROVE  At("roletrns", p) \in BlockState
<1> DEFINE x == At("roletrns", p)
<1>1. RootPortNext(p) \notin {"BLOCKED_PORT", "BACKUP_PORT"}
  BY DEF RootPortNext, Stay
<1>2. DesgPortNext(p) \notin {"BLOCKED_PORT", "BACKUP_PORT"}
  BY DEF DesgPortNext, Stay
<1>3. RoleEntryState(sel[p].selectedRole) \notin {"BLOCKED_PORT", "BACKUP_PORT"}
  BY DEF RoleEntryState, Stay
<1> QED BY <1>1, <1>2, <1>3 DEF RoletrnsNext, Stay, BlockState, RootPass, DesgPass

\* The two states leave the port as it was; BLOCK_PORT shuts it.
LEMMA RoletrnsBlocks ==
  ASSUME TypeOK, NEW p \in Port, NEW s \in BlockState, RoletrnsEnter(p, s)
  PROVE  IF s = "BLOCK_PORT" THEN ~ ctl'[p].learn /\ ~ ctl'[p].forward
         ELSE DutyKept(p)
<1>1. ctl \in [Port -> Control]
  BY DEF TypeOK, StateOK
<1>2. CASE s = "BLOCK_PORT"
  <2>1. BlockPort(p)
    BY <1>2 DEF RoletrnsEnter
  <2> QED BY <1>1, <1>2, <2>1 DEF BlockPort, Control
<1>3. CASE s = "BLOCKED_PORT"
  <2>1. ctl' = [ctl EXCEPT ![p].synced = TRUE, ![p].sync = FALSE, ![p].reRoot = FALSE]
    BY <1>3 DEF RoletrnsEnter
  <2> QED BY <1>1, <1>3, <2>1 DEF DutyKept, Control
<1>4. CASE s = "BACKUP_PORT"
  <2>1. UNCHANGED ctl
    BY <1>4 DEF RoletrnsEnter
  <2> QED BY <1>4, <2>1 DEF DutyKept
<1> QED BY <1>2, <1>3, <1>4 DEF BlockState

\* A machine keeps blocked ports shut: only port role transitions of the port
\* itself open it, and it leaves the blocked states to do so.
LEMMA MachineStepKeepsShut ==
  ASSUME TypeOK, BlockedStaysShut, MachineStep
  PROVE  BlockedStaysShut'
<1> SUFFICES ASSUME NEW q \in Port, Blocked(q)'
             PROVE  ~ ctl'[q].learn /\ ~ ctl'[q].forward
  BY DEF BlockedStaysShut
<1>1. PICK m \in Chosen(Active) : RunMachine(m, NextState(m))
  BY DEF MachineStep
<1>2. m \in Machine /\ NextState(m) # Stay
  BY ChosenType DEF MachineStep, TypeOK
<1> DEFINE s == NextState(m)
           x == PortMachine("roletrns", q)
<1>3. st' = [st EXCEPT ![m] = s] /\ x \in Machine /\ st \in [Machine -> MachineState]
  BY <1>1, Kinds DEF RunMachine, PortMachine, Machine, TypeOK
<1>4. At("roletrns", q)' = IF m = x THEN s ELSE At("roletrns", q)
  BY <1>2, <1>3 DEF At
<1>5. CASE m # x /\ DutyKept(q)
  BY <1>4, <1>5 DEF BlockedStaysShut, Blocked, DutyKept
<1>6. CASE m # x
  <2>1. CASE m[1] = "rolesel" /\ RoleSelEnter(m[2])
    <3>1. m[2] \in Bridge
      BY <1>2, <2>1, MachineCases, Kinds
    <3>2. DutyKept(q) \/ ctl'[q].role = "NonStp"
      BY <2>1, <3>1, RoleSelDuty
    <3> QED BY <1>5, <1>6, <3>2 DEF Blocked, BlockedRole
  <2>2. CASE m[1] = "roletrns" /\ RoletrnsEnter(m[2], s)
    <3>1. m[2] \in Port /\ m[2] # q
      BY <1>2, <1>6, <2>2, MachineCases
    <3> QED BY <1>5, <1>6, <2>2, <3>1, RoletrnsKeepsOthers
  <2>3. CASE m[1] \in {"info", "transmit"} /\ (InfoEnter(m[2], s) \/ TransmitEnter(m[2], s))
    <3>1. m[2] \in Port
      BY <1>2, <2>3, MachineCases
    <3> QED BY <1>5, <1>6, <2>3, <3>1, OthersKeepDuty
  <2>4. CASE UNCHANGED ctl
    BY <1>5, <1>6, <2>4 DEF DutyKept
  <2> QED BY <1>1, <2>1, <2>2, <2>3, <2>4
          DEF RunMachine, SttransEnter, PcostEnter, EdgeEnter, P2pEnter,
              MigrateEnter, TopochEnter
<1>7. CASE m = x
  <2>1. m[1] = "roletrns" /\ m[2] = q
    BY <1>7 DEF PortMachine
  <2>2. s = RoletrnsNext(q) /\ RoletrnsEnter(q, s)
    BY <1>1, <2>1 DEF RunMachine, NextState
  <2>3. s \in BlockState
    BY <1>4, <1>7 DEF Blocked
  <2>4. CASE s = "BLOCK_PORT"
    BY <2>2, <2>3, <2>4, RoletrnsBlocks
  <2>5. CASE s # "BLOCK_PORT"
    <3>1. At("roletrns", q) \in BlockState
      BY <2>2, <2>3, <2>5, BlockedFromBlocked DEF BlockState
    <3>2. DutyKept(q)
      BY <2>2, <2>3, <2>5, RoletrnsBlocks
    <3> QED BY <3>1, <3>2 DEF BlockedStaysShut, Blocked, DutyKept
  <2> QED BY <2>4, <2>5
<1> QED BY <1>6, <1>7

\* Every step keeps blocked ports shut.
LEMMA NextKeepsShut ==
  TypeOK /\ BlockedStaysShut /\ [Next]_vars => BlockedStaysShut'
<1> SUFFICES ASSUME TypeOK, BlockedStaysShut, [Next]_vars
             PROVE  BlockedStaysShut'
  OBVIOUS
<1>1. CASE MachineStep
  BY <1>1, MachineStepKeepsShut
<1>2. CASE UNCHANGED <<st, ctl>>
  BY <1>2 DEF BlockedStaysShut, Blocked, At
<1>3. CASE UpdateDone \/ Environment \/ UNCHANGED vars
  BY <1>2, <1>3 DEF UpdateDone, Environment, LinkChange, ForeignFrame, stateVars, vars
<1>4. CASE Event
  BY <1>2, <1>4 DEF Event, PollLink, Tick, RxBpdu
<1> QED BY <1>1, <1>3, <1>4 DEF Next, System

\* Every port is shut when the bridge starts.
LEMMA InitShut == Init => BlockedStaysShut
<1> SUFFICES ASSUME Init, NEW p \in Port
             PROVE  ~ ctl[p].learn /\ ~ ctl[p].forward
  BY DEF BlockedStaysShut
<1> QED BY DEF Init, InitState

(***************************************************************************)
(* A port whose role carries no traffic is never told to learn or to       *)
(* forward, in the middle of an update or between updates, in any network. *)
(***************************************************************************)
THEOREM BlockedPortsStayShut == Spec => []BlockedStaysShut
<1>1. Init => TypeOK /\ BlockedStaysShut
  BY InitTypes, InitShut
<1>2. (TypeOK /\ BlockedStaysShut) /\ [Next]_vars => (TypeOK /\ BlockedStaysShut)'
  BY NextKeepsTypes, NextKeepsShut
<1> QED BY <1>1, <1>2, PTL DEF Spec

-----------------------------------------------------------------------------
(***************************************************************************)
(* A bridge's machines look at their own bridge only.                      *)
(***************************************************************************)
\* Nothing of port p has changed.
PortKept(p) ==
  /\ ctl'[p] = ctl[p] /\ sel'[p] = sel[p] /\ hw'[p] = hw[p] /\ prio'[p] = prio[p]
  /\ rcv'[p] = rcv[p] /\ tcs'[p] = tcs[p] /\ timer'[p] = timer[p]
  /\ adapt'[p] = adapt[p]

\* Nothing of bridge b has changed.
BridgeKept(b) ==
  /\ \A p \in Ports[b] : PortKept(p)
  /\ \A m \in MachinesOf[b] : st'[m] = st[m]
  /\ br'[b] = br[b]

\* A machine of a bridge is its role selection or a machine of one of its ports.
LEMMA MachinesOfCases ==
  ASSUME NEW b \in Bridge, NEW m \in MachinesOf[b]
  PROVE  \/ m[1] = "rolesel" /\ m[2] = b /\ m = RoleSelMachine(b)
         \/ m[1] \in PortKind /\ m[2] \in Ports[b] /\ m = PortMachine(m[1], m[2])
BY DEF MachinesOf, RoleSelMachine, PortMachine

\* What role transitions would do next depends on the bridge only.
LEMMA RoletrnsLooksHome ==
  ASSUME NEW b \in Bridge, BridgeKept(b), NEW p \in Ports[b],
         At("roletrns", p)' = At("roletrns", p)
  PROVE  RoletrnsNext(p)' = RoletrnsNext(p)
<1>1. /\ p \in Port /\ Owner[p] = b /\ Siblings[p] \subseteq Ports[b]
      /\ PortKept(p) /\ br'[b] = br[b]
  BY BridgePorts DEF BridgeKept, Siblings
<1>2. AllSynced(p)' = AllSynced(p)
  BY <1>1 DEF AllSynced, BridgeKept, PortKept
<1>3. RootMayOpen(p)' = RootMayOpen(p)
  <2>1. AllReRooted(p)' = AllReRooted(p)
    BY <1>1 DEF AllReRooted, BridgeKept, PortKept
  <2> QED BY <1>1, <2>1 DEF RootMayOpen, PortKept
<1>4. RootPortNext(p)' = RootPortNext(p)
  BY <1>1, <1>2, <1>3 DEF RootPortNext, PortKept, RootTimes
<1>5. DesgPortNext(p)' = DesgPortNext(p)
  BY <1>1 DEF DesgPortNext, DesgMayOpen, DesgMustSync, DesgMustClose, PortKept
<1>6. BlockedPortNext(p)' = BlockedPortNext(p)
  BY <1>1 DEF BlockedPortNext, PortKept, RootTimes
<1>7. Settled(p)' = Settled(p) /\ ctl'[p] = ctl[p] /\ sel'[p] = sel[p] /\ hw'[p] = hw[p]
  BY <1>1 DEF Settled, PortKept
<1> QED BY <1>4, <1>5, <1>6, <1>7 DEF RoletrnsNext, RoleEntryState, Stay

\* What any machine would do next depends on its bridge only.
LEMMA NextLooksHome ==
  ASSUME NEW b \in Bridge, BridgeKept(b), NEW m \in MachinesOf[b]
  PROVE  NextState(m)' = NextState(m)
<1>1. CASE m = RoleSelMachine(b)
  <2>1. m[1] = "rolesel" /\ m[2] = b
    BY <1>1 DEF RoleSelMachine
  <2>2. RoleSelNext(b)' = RoleSelNext(b)
    BY <1>1 DEF BridgeKept, PortKept, RoleSelNext
  <2> QED BY <2>1, <2>2 DEF NextState
<1>2. CASE m[1] \in PortKind /\ m[2] \in Ports[b] /\ m = PortMachine(m[1], m[2])
  <2> DEFINE p == m[2]
  <2>1. /\ PortKept(p) /\ p \in Port /\ Owner[p] = b /\ br'[b] = br[b] /\ p \in Ports[b]
        /\ At(m[1], p)' = At(m[1], p)
    BY <1>2, BridgePorts DEF BridgeKept, At
  <2> HIDE DEF p
  <2>2. CASE m[1] = "transmit"
    <3>1. TransmitNext(p)' = TransmitNext(p)
      BY <2>1, <2>2 DEF TransmitNext, PortKept, CanSend
    <3> QED BY <2>2, <3>1 DEF NextState, p
  <2>3. CASE m[1] = "sttrans"
    <3>1. SttransNext(p)' = SttransNext(p)
      BY <2>1, <2>3 DEF SttransNext, PortKept
    <3> QED BY <2>3, <3>1 DEF NextState, p
  <2>4. CASE m[1] = "roletrns"
    <3>1. RoletrnsNext(p)' = RoletrnsNext(p)
      BY <2>1, <2>4, RoletrnsLooksHome
    <3> QED BY <2>4, <3>1 DEF NextState, p
  <2>5. CASE m[1] = "info"
    <3>1. InfoNext(p)' = InfoNext(p)
      BY <2>1, <2>5 DEF InfoNext, InfoExpired, PortKept
    <3> QED BY <2>5, <3>1 DEF NextState, p
  <2>6. CASE m[1] = "pcost"
    <3>1. PcostNext(p)' = PcostNext(p)
      BY <2>1, <2>6 DEF PcostNext, PortKept
    <3> QED BY <2>6, <3>1 DEF NextState, p
  <2>7. CASE m[1] = "edge"
    <3>1. EdgeNext(p)' = EdgeNext(p)
      BY <2>1, <2>7 DEF EdgeNext, PortKept
    <3> QED BY <2>7, <3>1 DEF NextState, p
  <2>8. CASE m[1] = "p2p"
    <3>1. P2pNext(p)' = P2pNext(p)
      BY <2>1, <2>8 DEF P2pNext, PortKept
    <3> QED BY <2>8, <3>1 DEF NextState, p
  <2>9. CASE m[1] = "migrate"
    <3>1. MigrateNext(p)' = MigrateNext(p)
      BY <2>1, <2>9 DEF MigrateNext, PortKept
    <3> QED BY <2>9, <3>1 DEF NextState, p
  <2>10. CASE m[1] = "topoch"
    <3>1. TopochNext(p)' = TopochNext(p)
      BY <2>1, <2>10 DEF TopochNext, PortKept
    <3> QED BY <2>10, <3>1 DEF NextState, p
  <2> QED BY <1>2, <2>2, <2>3, <2>4, <2>5, <2>6, <2>7, <2>8, <2>9, <2>10, Kinds
<1> QED BY <1>1, <1>2, MachinesOfCases

(***************************************************************************)
(* And they change their own bridge only.                                  *)
(***************************************************************************)
\* Role transitions leaves the ports of other bridges alone, also where it
\* asks every port of its own to synchronise.
LEMMA RoletrnsStaysHome ==
  ASSUME NetOK, NEW p \in Port, NEW s, RoletrnsEnter(p, s),
         NEW q \in Port, Owner[q] # Owner[p]
  PROVE  ctl'[q] = ctl[q] /\ sel'[q] = sel[q] /\ timer'[q] = timer[q]
<1>1. /\ ctl \in [Port -> Control] /\ ctl[q] \in Control /\ q # p
      /\ sel \in [Port -> Selection] /\ timer \in [Port -> Timers]
  BY DEF NetOK, StateOK
<1>2. sel'[q] = sel[q] /\ timer'[q] = timer[q]
  BY <1>1 DEF RoletrnsEnter
<1>3. CASE s = "ROOT_PROPOSED"
  <2> DEFINE sync == ctl[q].sync \/ Owner[q] = Owner[p]
             proposed == ctl[q].proposed /\ q # p
  <2>1. ctl'[q] = [ctl[q] EXCEPT !.sync = sync, !.proposed = proposed]
    BY <1>3 DEF RoletrnsEnter
  <2>2. ctl[q].sync \in BOOLEAN /\ ctl[q].proposed \in BOOLEAN
    BY <1>1 DEF Control
  <2>3. sync = ctl[q].sync /\ proposed = ctl[q].proposed
    BY <1>1, <2>2, Zenon
  <2> HIDE DEF sync, proposed
  <2>4. [ctl[q] EXCEPT !.sync = ctl[q].sync, !.proposed = ctl[q].proposed] = ctl[q]
    BY <1>1 DEF Control
  <2> QED BY <1>2, <2>1, <2>3, <2>4
<1>4. CASE s = "REROOT"
  <2> DEFINE reRoot == ctl[q].reRoot \/ Owner[q] = Owner[p]
  <2>1. ctl'[q] = [ctl[q] EXCEPT !.reRoot = reRoot]
    BY <1>4 DEF RoletrnsEnter
  <2>2. ctl[q].reRoot \in BOOLEAN
    BY <1>1 DEF Control
  <2>3. reRoot = ctl[q].reRoot
    BY <2>2, Zenon
  <2> HIDE DEF reRoot
  <2>4. [ctl[q] EXCEPT !.reRoot = ctl[q].reRoot] = ctl[q]
    BY <1>1 DEF Control
  <2> QED BY <1>2, <2>1, <2>3, <2>4
<1>5. CASE s \notin {"ROOT_PROPOSED", "REROOT"}
  <2>1. ctl'[q] = ctl[q]
    BY <1>1, <1>5 DEF RoletrnsEnter, BlockPort
  <2> QED BY <1>2, <2>1
<1> QED BY <1>3, <1>4, <1>5

\* Topology change propagates to ports of its own bridge only.
LEMMA TopochStaysHome ==
  ASSUME NetOK, NEW p \in Port, NEW s, TopochEnter(p, s),
         NEW q \in Port, Owner[q] # Owner[p]
  PROVE  PortKept(q)
<1>1. /\ tcs \in [Port -> TopologyFlags] /\ timer \in [Port -> Timers]
      /\ q # p /\ q \notin Siblings[p]
  BY BridgePorts, PortAssumption DEF NetOK, StateOK, Siblings
<1>2. PropagateFrom(p)[q] = tcs[q]
  BY <1>1 DEF PropagateFrom
<1>3. tcs'[q] = tcs[q] /\ timer'[q] = timer[q]
  BY <1>1, <1>2 DEF TopochEnter, TopochInit, PropagateFrom
<1> QED BY <1>3 DEF TopochEnter, PortKept

\* A machine that is not one of bridge b changes nothing of b.
LEMMA MachineStaysHome ==
  ASSUME TypeOK, NEW m \in Machine, NEW s, RunMachine(m, s),
         NEW b \in Bridge, m \notin MachinesOf[b]
  PROVE  BridgeKept(b)
<1>0. NetOK
  BY DEF TypeOK, NetOK
<1>1. \A n \in MachinesOf[b] : st'[n] = st[n]
  BY MachinesOfType DEF RunMachine, TypeOK
<1>2. CASE m[1] = "rolesel" /\ RoleSelEnter(m[2])
  <2>1. m[2] \in Bridge /\ m[2] # b
    BY <1>2, MachineCases, Kinds DEF MachinesOf
  <2> QED BY <1>1, <1>2, <2>1, BridgePorts
          DEF RoleSelEnter, UpdtRolesBridge, TypeOK, StateOK, BridgeKept, PortKept
<1>3. ASSUME m[1] # "rolesel" PROVE m[2] \in Port /\ Owner[m[2]] # b
  BY <1>3, MachineCases, Kinds, BridgePorts DEF MachinesOf, PortMachine
<1>4. ASSUME br' = br, \A q \in Port : Owner[q] = b => PortKept(q)
      PROVE  BridgeKept(b)
  BY <1>1, <1>4, BridgePorts DEF BridgeKept
<1>5. CASE m[1] = "transmit" /\ TransmitEnter(m[2], s)
  BY <1>3, <1>4, <1>5 DEF TransmitEnter, TypeOK, StateOK, PortKept
<1>6. CASE m[1] = "sttrans" /\ SttransEnter(m[2], s)
  BY <1>3, <1>4, <1>6 DEF SttransEnter, TypeOK, StateOK, PortKept
<1>7. CASE m[1] = "roletrns" /\ RoletrnsEnter(m[2], s)
  <2>1. UNCHANGED <<hw, prio, rcv, tcs, adapt, br>>
    BY <1>7 DEF RoletrnsEnter
  <2> QED BY <1>3, <1>4, <1>7, <2>1, <1>0, RoletrnsStaysHome DEF PortKept
<1>8. CASE m[1] = "info" /\ InfoEnter(m[2], s)
  <2>1. m[2] \in Port /\ Owner[m[2]] # b
    BY <1>3, <1>8
  <2>2. ASSUME NEW q \in Port, q # m[2]
        PROVE  ctl'[q] = ctl[q] /\ sel'[q] = sel[q] /\ timer'[q] = timer[q]
    BY <1>8, <2>2 DEF InfoEnter, InfoAged, InfoDisabled, InfoUpdate, InfoReceive,
                      InfoSuperior, TypeOK, StateOK
  <2>3. ASSUME NEW q \in Port, q # m[2]
        PROVE  prio'[q] = prio[q] /\ rcv'[q] = rcv[q] /\ tcs'[q] = tcs[q]
    BY <1>8, <2>3 DEF InfoEnter, InfoAged, InfoDisabled, InfoUpdate, InfoReceive,
                      InfoSuperior, TypeOK, StateOK
  <2>4. UNCHANGED <<hw, adapt, br>>
    BY <1>8 DEF InfoEnter, InfoAged
  <2> QED BY <1>4, <2>1, <2>2, <2>3, <2>4 DEF PortKept
<1>9. CASE m[1] = "pcost" /\ PcostEnter(m[2], s)
  BY <1>3, <1>4, <1>9 DEF PcostEnter, TypeOK, StateOK, PortKept
<1>10. CASE m[1] = "edge" /\ EdgeEnter(m[2], s)
  BY <1>3, <1>4, <1>10 DEF EdgeEnter, TypeOK, StateOK, PortKept
<1>11. CASE m[1] = "p2p" /\ P2pEnter(m[2], s)
  BY <1>3, <1>4, <1>11 DEF P2pEnter, TypeOK, StateOK, PortKept
<1>12. CASE m[1] = "migrate" /\ MigrateEnter(m[2], s)
  BY <1>3, <1>4, <1>12 DEF MigrateEnter, TypeOK, StateOK, PortKept
<1>13. CASE m[1] = "topoch" /\ TopochEnter(m[2], s)
  BY <1>3, <1>4, <1>13, <1>0, TopochStaysHome DEF TopochEnter
<1> QED BY <1>2, <1>5, <1>6, <1>7, <1>8, <1>9, <1>10, <1>11, <1>12, <1>13
        DEF RunMachine

(***************************************************************************)
(* The machines of a bridge that is not updating have nothing to do.       *)
(***************************************************************************)
Quiet(b) == \A m \in MachinesOf[b] : NextState(m) = Stay

Quiescent == \A b \in Bridge \ updating : Quiet(b)

\* A bridge of which nothing changes stays quiet.
LEMMA QuietStays ==
  ASSUME NEW b \in Bridge, BridgeKept(b), Quiet(b)
  PROVE  Quiet(b)'
BY NextLooksHome DEF Quiet

\* A change of one port leaves the other bridges alone.
LEMMA OthersKept ==
  ASSUME NEW b \in Bridge, NEW c \in Bridge, c # b, st' = st, br' = br,
         \A q \in Port : Owner[q] # b => PortKept(q)
  PROVE  BridgeKept(c)
BY BridgePorts DEF BridgeKept

\* A step that changes no bridge leaves each alone.
LEMMA AllKept ==
  ASSUME UNCHANGED stateVars, NEW b \in Bridge
  PROVE  BridgeKept(b)
BY DEF stateVars, BridgeKept, PortKept

\* Enabling a port leaves the other ports alone.
LEMMA EnableStaysHome ==
  ASSUME TypeOK, NEW p \in Port, NEW enable, NEW a, EnablePort(p, enable, a),
         NEW q \in Port, q # p
  PROVE  adapt'[q] = adapt[q] /\ timer'[q] = timer[q] /\ sel'[q] = sel[q]
BY DEF EnablePort, TypeOK, StateOK

\* An event changes the bridge it makes update only.
LEMMA EventStaysHome ==
  ASSUME TypeOK, Event
  PROVE  \E b \in Bridge : /\ updating' = {b}
                           /\ \A c \in Bridge \ {b} : BridgeKept(c)
<1>1. ASSUME NEW p \in Port, PollLink(p)
      PROVE  /\ Owner[p] \in Bridge /\ updating' = {Owner[p]}
             /\ \A c \in Bridge \ {Owner[p]} : BridgeKept(c)
  <2>1. \A q \in Port : Owner[q] # Owner[p] => PortKept(q)
    BY <1>1, EnableStaysHome DEF PollLink, PortKept
  <2>2. Owner[p] \in Bridge
    BY PortAssumption
  <2> QED BY <1>1, <2>1, <2>2, OthersKept DEF PollLink, Update
<1>2. ASSUME NEW b \in Bridge, Tick(b)
      PROVE  updating' = {b} /\ \A c \in Bridge \ {b} : BridgeKept(c)
  <2>1. \A q \in Port : Owner[q] # b => PortKept(q)
    BY <1>2 DEF Tick, PortKept
  <2> QED BY <1>2, <2>1, OthersKept DEF Tick, Update
<1>3. ASSUME NEW p \in Port, RxBpdu(p)
      PROVE  /\ Owner[p] \in Bridge /\ updating' = {Owner[p]}
             /\ \A c \in Bridge \ {Owner[p]} : BridgeKept(c)
  <2>1. ASSUME NEW q \in Port, q # p
        PROVE  PortKept(q)
    <3>1. adapt'[q] = adapt[q] /\ timer'[q] = timer[q] /\ sel'[q] = sel[q]
      BY <1>3, <2>1, EnableStaysHome DEF RxBpdu
    <3>2. rcv'[q] = rcv[q] /\ tcs'[q] = tcs[q]
      BY <1>3, <2>1 DEF RxBpdu, KeepBpdu, TypeOK, StateOK
    <3> QED BY <1>3, <3>1, <3>2 DEF RxBpdu, PortKept
  <2>2. Owner[p] \in Bridge
    BY PortAssumption
  <2> QED BY <1>3, <2>1, <2>2, OthersKept DEF RxBpdu, Update
<1> QED BY <1>1, <1>2, <1>3 DEF Event

\* Every step keeps the bridges that do not update quiet.
LEMMA NextKeepsQuiescent ==
  TypeOK /\ Quiescent /\ [Next]_vars => Quiescent'
<1> SUFFICES ASSUME TypeOK, Quiescent, [Next]_vars, NEW b \in Bridge \ updating'
             PROVE  Quiet(b)'
  BY DEF Quiescent
<1>1. ASSUME BridgeKept(b), Quiet(b) PROVE Quiet(b)'
  BY <1>1, QuietStays
<1>2. CASE MachineStep
  <2>1. PICK m \in Chosen(Active) : RunMachine(m, NextState(m))
    BY <1>2 DEF MachineStep
  <2>2. m \in Machine /\ NextState(m) # Stay
    BY <1>2, ChosenType DEF MachineStep, TypeOK
  <2>3. Quiet(b)
    BY <1>2 DEF MachineStep, Quiescent
  <2>4. m \notin MachinesOf[b]
    BY <2>2, <2>3 DEF Quiet
  <2> QED BY <1>1, <2>1, <2>2, <2>3, <2>4, MachineStaysHome
<1>3. CASE UpdateDone
  <2>1. Quiet(b)
    BY <1>3 DEF UpdateDone, Quiescent, Quiet
  <2> QED BY <1>1, <1>3, <2>1, AllKept DEF UpdateDone
<1>4. CASE Event
  <2>1. PICK c \in Bridge : /\ updating' = {c}
                            /\ \A d \in Bridge \ {c} : BridgeKept(d)
    BY <1>4, EventStaysHome
  <2>2. updating = {}
    BY <1>4 DEF Event, PollLink, Tick, RxBpdu, Idle
  <2> QED BY <1>1, <2>1, <2>2 DEF Quiescent
<1>5. CASE Environment \/ UNCHANGED vars
  <2>1. UNCHANGED stateVars /\ updating' = updating
    BY <1>5 DEF Environment, LinkChange, ForeignFrame, vars, stateVars
  <2> QED BY <1>1, <2>1, AllKept DEF Quiescent
<1> QED BY <1>2, <1>3, <1>4, <1>5 DEF Next, System

-----------------------------------------------------------------------------
(***************************************************************************)
(* Which machines write what a settled port is judged by.                  *)
(***************************************************************************)
\* A step of a machine is a hop of that machine only.
LEMMA Hops ==
  ASSUME TypeOK, NEW m \in Machine, NEW s, RunMachine(m, s),
         NEW q \in Port, NEW k \in PortKind
  PROVE  At(k, q)' = IF m[1] = k /\ m[2] = q THEN s ELSE At(k, q)
<1>1. PortMachine(k, q) \in Machine
  BY DEF PortMachine, Machine
<1>2. m = PortMachine(k, q) <=> m[1] = k /\ m[2] = q
  BY MachineCases, Kinds DEF PortMachine
<1>3. st' = [st EXCEPT ![m] = s] /\ st \in [Machine -> MachineState]
  BY DEF RunMachine, TypeOK
<1> QED BY <1>1, <1>2, <1>3 DEF At

\* A machine that is not port state transition leaves the chip alone.
LEMMA ChipWriter ==
  ASSUME TypeOK, NEW m \in Machine, NEW s, RunMachine(m, s), NEW q \in Port,
         ~ (m[1] = "sttrans" /\ m[2] = q)
  PROVE  hw'[q] = hw[q]
<1>1. CASE m[1] = "sttrans"
  BY <1>1 DEF RunMachine, SttransEnter, TypeOK, StateOK
<1>2. CASE m[1] # "sttrans"
  BY <1>2 DEF RunMachine, RoleSelEnter, TransmitEnter, RoletrnsEnter, InfoEnter, InfoAged,
              PcostEnter, EdgeEnter, P2pEnter, MigrateEnter, TopochEnter
<1> QED BY <1>1, <1>2

\* What port role selection may do to a port outside the protocol.
TakenOut(q) ==
  q \in NonStp /\ ctl'[q].role = "NonStp" /\ ctl'[q].learn /\ ctl'[q].forward

\* A machine that is not port role transitions leaves its decision alone.
LEMMA DutyWriter ==
  ASSUME TypeOK, NEW m \in Machine, NEW s, RunMachine(m, s), NEW q \in Port,
         ~ (m[1] = "roletrns" /\ m[2] = q)
  PROVE  DutyKept(q) \/ (m[1] = "rolesel" /\ TakenOut(q))
<1>1. CASE m[1] = "rolesel"
  <2>1. RoleSelEnter(m[2]) /\ ctl[q] \in Control
    BY <1>1 DEF RunMachine, TypeOK, StateOK
  <2> QED BY <1>1, <2>1 DEF RoleSelEnter, UpdtRolesBridge, DutyKept, TakenOut, Control
<1>2. CASE m[1] = "roletrns"
  <2>1. m[2] \in Port /\ RoletrnsEnter(m[2], s) /\ m[2] # q
    BY <1>2, MachineCases, Kinds DEF RunMachine
  <2> QED BY <2>1, RoletrnsKeepsOthers
<1>3. CASE m[1] \in {"info", "transmit"}
  <2>1. m[2] \in Port /\ (InfoEnter(m[2], s) \/ TransmitEnter(m[2], s))
    BY <1>3, MachineCases, Kinds DEF RunMachine
  <2> QED BY <2>1, OthersKeepDuty
<1>4. CASE m[1] \notin {"rolesel", "roletrns", "info", "transmit"}
  BY <1>4 DEF RunMachine, SttransEnter, PcostEnter, EdgeEnter, P2pEnter,
              MigrateEnter, TopochEnter, DutyKept
<1> QED BY <1>1, <1>2, <1>3, <1>4

\* What port q knows of its segment is left alone.
NewsKept(q) ==
  /\ prio'[q].infoIs = prio[q].infoIs /\ prio'[q].portPrio = prio[q].portPrio
  /\ prio'[q].portTimes = prio[q].portTimes
  /\ rcv'[q].msg = rcv[q].msg /\ rcv'[q].rcvdMsg = rcv[q].rcvdMsg

\* Only port information changes what a port knows of its segment.
LEMMA NewsWriter ==
  ASSUME TypeOK, NEW m \in Machine, NEW s, RunMachine(m, s), NEW q \in Port,
         ~ (m[1] = "info" /\ m[2] = q)
  PROVE  NewsKept(q)
<1>1. prio \in [Port -> Information] /\ rcv \in [Port -> Reception]
  BY DEF TypeOK, StateOK
<1>2. CASE m[1] = "rolesel"
  <2>1. UpdtRolesBridge(m[2]) /\ rcv' = rcv /\ prio[q] \in Information
    BY <1>1, <1>2 DEF RunMachine, RoleSelEnter
  <2>2. CASE prio'[q] = prio[q]
    BY <2>1, <2>2 DEF NewsKept
  <2>3. ASSUME NEW v, NEW t,
               prio'[q] = [prio[q] EXCEPT !.designPrio = v, !.designTimes = t]
        PROVE  NewsKept(q)
    BY <2>1, <2>3 DEF NewsKept, Information
  <2> QED BY <2>1, <2>2, <2>3 DEF UpdtRolesBridge
<1>3. CASE m[1] = "info"
  <2>1. InfoEnter(m[2], s) /\ m[2] # q
    BY <1>3 DEF RunMachine
  <2>2. prio'[q] = prio[q]
    BY <1>1, <2>1 DEF InfoEnter, InfoAged, InfoDisabled, InfoUpdate, InfoReceive, InfoSuperior
  <2>3. rcv'[q] = rcv[q]
    BY <1>1, <2>1 DEF InfoEnter, InfoAged, InfoDisabled, InfoUpdate, InfoReceive, InfoSuperior
  <2> QED BY <2>2, <2>3 DEF NewsKept
<1>4. CASE m[1] = "migrate"
  BY <1>1, <1>4 DEF RunMachine, MigrateEnter, NewsKept, Reception
<1>5. CASE m[1] \notin {"rolesel", "info", "migrate"}
  BY <1>5 DEF RunMachine, TransmitEnter, SttransEnter, RoletrnsEnter, PcostEnter,
              EdgeEnter, P2pEnter, TopochEnter, NewsKept
<1> QED BY <1>2, <1>3, <1>4, <1>5

\* Only the topology change machine starts tcWhile, only port information
\* rcvdInfoWhile.
LEMMA TimerWriters ==
  ASSUME TypeOK, NEW m \in Machine, NEW s, RunMachine(m, s), NEW q \in Port
  PROVE  /\ ~ (m[1] = "topoch" /\ m[2] = q) =>
              timer'[q].tcWhile = timer[q].tcWhile
         /\ ~ (m[1] = "info" /\ m[2] = q) =>
              timer'[q].rcvdInfoWhile = timer[q].rcvdInfoWhile
<1>1. timer \in [Port -> Timers] /\ timer[q] \in Timers
  BY DEF TypeOK, StateOK
<1>2. CASE m[1] = "transmit"
  <2>1. TransmitEnter(m[2], s)
    BY <1>2 DEF RunMachine
  <2> QED BY <1>1, <2>1 DEF TransmitEnter, Timers
<1>3. CASE m[1] = "roletrns"
  <2> DEFINE p == m[2]
             F == RootTimes(p).ForwardDelay
             H == 2 * RootTimes(p).HelloTime
  <2>1. RoletrnsEnter(p, s)
    BY <1>3 DEF RunMachine
  <2> HIDE DEF p, F, H
  <2>2. \/ timer' = timer
        \/ timer' = [timer EXCEPT ![p].rrWhile = F, ![p].fdWhile = F, ![p].rbWhile = 0]
        \/ timer' = [timer EXCEPT ![p].fdWhile = F, ![p].rrWhile = 0]
        \/ timer' = [timer EXCEPT ![p].rbWhile = H]
        \/ timer' = [timer EXCEPT ![p].rrWhile = F]
        \/ timer' = [timer EXCEPT ![p].fdWhile = F]
        \/ timer' = [timer EXCEPT ![p].fdWhile = 0]
        \/ timer' = [timer EXCEPT ![p].rrWhile = 0]
    BY <2>1 DEF RoletrnsEnter, F, H
  <2> QED BY <1>1, <2>2 DEF Timers
<1>4. CASE m[1] = "info"
  <2>1. InfoEnter(m[2], s)
    BY <1>4 DEF RunMachine
  <2>2. CASE timer' = timer
    BY <2>2
  <2>3. ASSUME NEW n, timer' = [timer EXCEPT ![m[2]].rcvdInfoWhile = n]
        PROVE  /\ timer'[q].tcWhile = timer[q].tcWhile
               /\ q # m[2] => timer'[q].rcvdInfoWhile = timer[q].rcvdInfoWhile
    BY <1>1, <2>3 DEF Timers
  <2> QED BY <1>4, <2>1, <2>2, <2>3
          DEF InfoEnter, InfoAged, InfoDisabled, InfoUpdate, InfoReceive, InfoSuperior
<1>5. CASE m[1] = "edge"
  <2>1. EdgeEnter(m[2], s)
    BY <1>5 DEF RunMachine
  <2> QED BY <1>1, <2>1 DEF EdgeEnter, Timers
<1>6. CASE m[1] = "migrate"
  <2>1. timer' = timer \/ timer' = [timer EXCEPT ![m[2]].mdelayWhile = MigrateTime]
    BY <1>6 DEF RunMachine, MigrateEnter
  <2> QED BY <1>1, <2>1 DEF Timers
<1>7. CASE m[1] = "topoch"
  <2>1. TopochEnter(m[2], s)
    BY <1>7 DEF RunMachine
  <2>2. CASE timer' = timer
    BY <2>2
  <2>3. ASSUME NEW n, timer' = [timer EXCEPT ![m[2]].tcWhile = n]
        PROVE  /\ q # m[2] => timer'[q].tcWhile = timer[q].tcWhile
               /\ timer'[q].rcvdInfoWhile = timer[q].rcvdInfoWhile
    BY <1>1, <2>3 DEF Timers
  <2> QED BY <1>7, <2>1, <2>2, <2>3 DEF TopochEnter, TopochInit
<1>8. CASE m[1] \notin {"transmit", "roletrns", "info", "edge", "migrate", "topoch"}
  BY <1>8 DEF RunMachine, RoleSelEnter, SttransEnter, PcostEnter, P2pEnter
<1> QED BY <1>2, <1>3, <1>4, <1>5, <1>6, <1>7, <1>8

\* Only three machines change what has been selected for a port, and only
\* role selection what the bridge knows of the root.
LEMMA SelectionWriters ==
  ASSUME TypeOK, NEW m \in Machine, NEW s, RunMachine(m, s), NEW q \in Port,
         m[1] # "rolesel"
  PROVE  /\ br' = br
         /\ ~ (m[1] \in {"info", "roletrns"} /\ m[2] = q) => sel'[q] = sel[q]
<1>1. sel \in [Port -> Selection]
  BY DEF TypeOK, StateOK
<1>2. CASE m[1] = "roletrns"
  BY <1>1, <1>2 DEF RunMachine, RoletrnsEnter
<1>3. CASE m[1] = "info"
  BY <1>1, <1>3 DEF RunMachine, InfoEnter, InfoAged, InfoDisabled, InfoUpdate, InfoReceive,
                    InfoSuperior
<1>4. CASE m[1] \notin {"rolesel", "roletrns", "info"}
  BY <1>4 DEF RunMachine, TransmitEnter, SttransEnter, PcostEnter,
              EdgeEnter, P2pEnter, MigrateEnter, TopochEnter
<1> QED BY <1>2, <1>3, <1>4

-----------------------------------------------------------------------------
(***************************************************************************)
(* The chip: what is set in it is what the state of port state transition  *)
(* says, and role transitions opens a port in two steps.                   *)
(***************************************************************************)
ChipRight(p) ==
  /\ At("sttrans", p) \in {BEGIN, "DISCARDING"} => ~ hw[p].learning /\ ~ hw[p].forwarding
  /\ At("sttrans", p) = "LEARNING" => ~ hw[p].forwarding
  /\ ctl[p].forward => ctl[p].learn

\* Role transitions lets a port forward only when it already learns.
LEMMA ForwardsIfLearning ==
  ASSUME NEW p, RoletrnsNext(p) \in {"ROOT_FORWARD", "DESIGNATED_FORWARD"}
  PROVE  ctl[p].learn
<1>1. RootPortNext(p) \in {"ROOT_FORWARD", "DESIGNATED_FORWARD"} => ctl[p].learn
  BY DEF RootPortNext, Stay
<1>2. DesgPortNext(p) \in {"ROOT_FORWARD", "DESIGNATED_FORWARD"} => ctl[p].learn
  BY DEF DesgPortNext, Stay
<1>3. BlockedPortNext(p) \notin {"ROOT_FORWARD", "DESIGNATED_FORWARD"}
  BY DEF BlockedPortNext, Stay
<1>4. RoleEntryState(sel[p].selectedRole) \notin {"ROOT_FORWARD", "DESIGNATED_FORWARD"}
  BY DEF RoleEntryState, Stay
<1> QED BY <1>1, <1>2, <1>3, <1>4 DEF RoletrnsNext, Stay

\* Role transitions opens a port in this order and shuts it at once.
LEMMA RoletrnsOpens ==
  ASSUME TypeOK, NEW p \in Port, RoletrnsEnter(p, RoletrnsNext(p)),
         ctl[p].forward => ctl[p].learn
  PROVE  ctl'[p].forward => ctl'[p].learn
<1> DEFINE s == RoletrnsNext(p)
<1>1. ctl \in [Port -> Control] /\ ctl[p] \in Control
  BY DEF TypeOK, StateOK
<1>2. CASE s = "ROOT_PROPOSED"
  <2> DEFINE sync == ctl[p].sync \/ Owner[p] = Owner[p]
             proposed == ctl[p].proposed /\ p # p
  <2>1. ctl'[p] = [ctl[p] EXCEPT !.sync = sync, !.proposed = proposed]
    BY <1>2 DEF RoletrnsEnter
  <2> HIDE DEF sync, proposed
  <2> QED BY <1>1, <2>1 DEF Control
<1>3. CASE s = "REROOT"
  BY <1>1, <1>3 DEF RoletrnsEnter, Control
<1>4. CASE s \in {"ROOT_FORWARD", "DESIGNATED_FORWARD"}
  <2>1. ctl[p].learn
    BY <1>4, ForwardsIfLearning
  <2>2. ctl' = [ctl EXCEPT ![p].forward = TRUE]
    BY <1>4 DEF RoletrnsEnter
  <2> QED BY <1>1, <2>1, <2>2 DEF Control
<1>5. CASE s \notin {"ROOT_PROPOSED", "REROOT", "ROOT_FORWARD", "DESIGNATED_FORWARD"}
  <2> DEFINE role == sel[p].selectedRole
  <2>1. RoletrnsEnter(p, s) /\ role \in PortRole
    BY PortTypes DEF TypeOK, NetOK, Selection
  <2> HIDE DEF s, role
  <2>2. \/ ctl' = ctl
        \/ ctl' = [ctl EXCEPT ![p].role = "Disabled", ![p].synced = FALSE,
                              ![p].sync = TRUE, ![p].reRoot = TRUE]
        \/ ctl' = [ctl EXCEPT ![p].role = role, ![p].learn = FALSE, ![p].forward = FALSE]
        \/ ctl' = [ctl EXCEPT ![p].synced = TRUE, ![p].sync = FALSE, ![p].reRoot = FALSE]
        \/ ctl' = [ctl EXCEPT ![p].proposed = FALSE, ![p].sync = FALSE,
                              ![p].synced = TRUE, ![p].newInfo = TRUE]
        \/ ctl' = [ctl EXCEPT ![p].role = "Root"]
        \/ ctl' = [ctl EXCEPT ![p].reRoot = FALSE]
        \/ ctl' = [ctl EXCEPT ![p].learn = TRUE]
        \/ ctl' = [ctl EXCEPT ![p].proposing = TRUE, ![p].newInfo = TRUE]
        \/ ctl' = [ctl EXCEPT ![p].synced = TRUE, ![p].sync = FALSE]
        \/ ctl' = [ctl EXCEPT ![p].role = "Designated"]
        \/ ctl' = [ctl EXCEPT ![p].learn = FALSE, ![p].forward = FALSE]
    BY <1>5, <2>1 DEF RoletrnsEnter, BlockPort, role
  <2> QED BY <1>1, <2>1, <2>2 DEF Control
<1> QED BY <1>2, <1>3, <1>4, <1>5

\* Every machine keeps chip and flags in this order.
LEMMA MachineKeepsChip ==
  ASSUME TypeOK, NEW m \in Machine, NextState(m) # Stay,
         RunMachine(m, NextState(m)), NEW q \in Port, ChipRight(q)
  PROVE  ChipRight(q)'
<1> DEFINE s == NextState(m)
<1>1. At("sttrans", q)' = IF m[1] = "sttrans" /\ m[2] = q THEN s ELSE At("sttrans", q)
  BY Hops, Kinds
<1>2. /\ At("sttrans", q)' \in {BEGIN, "DISCARDING"} => ~ hw'[q].learning /\ ~ hw'[q].forwarding
      /\ At("sttrans", q)' = "LEARNING" => ~ hw'[q].forwarding
  <2>1. CASE m[1] = "sttrans" /\ m[2] = q
    <3>1. s = SttransNext(q) /\ SttransEnter(q, s) /\ hw \in [Port -> Chip]
      BY <2>1 DEF NextState, RunMachine, TypeOK, StateOK
    <3>2. At("sttrans", q)' = s
      BY <1>1, <2>1
    <3> HIDE DEF s
    <3>3. CASE s = "DISCARDING"
      BY <3>1, <3>2, <3>3 DEF SttransEnter
    <3>4. CASE s = "LEARNING"
      <4>1. At("sttrans", q) = "DISCARDING"
        BY <3>1, <3>4 DEF SttransNext, Stay
      <4> QED BY <3>1, <3>2, <3>4, <4>1 DEF SttransEnter, Chip, ChipRight, BEGIN
    <3>5. CASE s = "FORWARDING"
      BY <3>2, <3>5 DEF BEGIN
    <3> QED BY <3>1, <3>3, <3>4, <3>5 DEF SttransEnter
  <2>2. CASE ~ (m[1] = "sttrans" /\ m[2] = q)
    BY <1>1, <2>2, ChipWriter DEF ChipRight
  <2> QED BY <2>1, <2>2
<1>3. ctl'[q].forward => ctl'[q].learn
  <2>1. CASE m[1] = "roletrns" /\ m[2] = q
    <3>1. s = RoletrnsNext(q) /\ RoletrnsEnter(q, s)
      BY <2>1 DEF NextState, RunMachine
    <3> QED BY <3>1, RoletrnsOpens DEF ChipRight
  <2>2. CASE ~ (m[1] = "roletrns" /\ m[2] = q)
    BY <2>2, DutyWriter DEF ChipRight, DutyKept, TakenOut
  <2> QED BY <2>1, <2>2
<1> QED BY <1>2, <1>3 DEF ChipRight

-----------------------------------------------------------------------------
(***************************************************************************)
(* The role: role transitions is in a state of the role the port has, and  *)
(* a port is outside the protocol in what was selected for it and in what  *)
(* it does.                                                                *)
(***************************************************************************)
RootStates == RootPass \cup {"ROOT_PORT"}
DesgStates == DesgPass \cup {"DESIGNATED_PORT"}
IdleStates == {BEGIN, "INIT_PORT"} \cup BlockState

RoleRight(p) ==
  /\ \/ At("roletrns", p) \in IdleStates
     \/ At("roletrns", p) \in RootStates /\ ctl[p].role = "Root" /\ p \notin NonStp
     \/ At("roletrns", p) \in DesgStates /\ ctl[p].role = "Designated" /\ p \notin NonStp
  /\ p \in NonStp => sel[p].selectedRole \in {"Disabled", "NonStp"}
  /\ p \notin NonStp => sel[p].selectedRole # "NonStp"
  /\ sel[p].selectedRole = "NonStp" => ctl[p].role = "NonStp"

\* The states role transitions hops to, by the role the port is in.
LEMMA RoletrnsGoes ==
  ASSUME NEW p, RoleRight(p), RoletrnsNext(p) # Stay
  PROVE  \/ RoletrnsNext(p) \in IdleStates \ {BEGIN}
         \/ RoletrnsNext(p) \in {"ROOT_PORT", "DESIGNATED_PORT"} /\ p \notin NonStp
         \/ /\ RoletrnsNext(p) \in RootPass /\ ctl[p].role = "Root" /\ p \notin NonStp
         \/ /\ RoletrnsNext(p) \in DesgPass /\ ctl[p].role = "Designated"
            /\ p \notin NonStp
<1> DEFINE x == At("roletrns", p)
<1>1. RootPortNext(p) \in RootStates \cup {Stay}
  BY DEF RootPortNext, RootStates, RootPass
<1>2. DesgPortNext(p) \in DesgStates \cup {Stay}
  BY DEF DesgPortNext, DesgStates, DesgPass
<1>3. BlockedPortNext(p) \in (IdleStates \ {BEGIN}) \cup {Stay}
  BY DEF BlockedPortNext, IdleStates, BlockState, BEGIN
<1>4. \/ RoleEntryState(sel[p].selectedRole) \in {"BLOCK_PORT", Stay}
      \/ /\ RoleEntryState(sel[p].selectedRole) \in {"ROOT_PORT", "DESIGNATED_PORT"}
         /\ p \notin NonStp
  BY DEF RoleRight, RoleEntryState, BlockedRole
<1>5. CASE x \in IdleStates
  BY <1>3, <1>4, <1>5
     DEF RoletrnsNext, IdleStates, BlockState, BEGIN, Stay, RootPass, DesgPass
<1>6. CASE x \in RootStates /\ ctl[p].role = "Root" /\ p \notin NonStp
  BY <1>1, <1>4, <1>6
     DEF RoletrnsNext, IdleStates, BlockState, BEGIN, Stay, RootStates, RootPass, DesgPass
<1>7. CASE x \in DesgStates /\ ctl[p].role = "Designated" /\ p \notin NonStp
  BY <1>2, <1>4, <1>7
     DEF RoletrnsNext, IdleStates, BlockState, BEGIN, Stay, DesgStates, RootPass, DesgPass
<1> QED BY <1>5, <1>6, <1>7 DEF RoleRight

\* What entering a state makes of the role and of what was selected.
LEMMA RoletrnsRole ==
  ASSUME TypeOK, NEW p \in Port, NEW s, RoletrnsEnter(p, s)
  PROVE  /\ s = "INIT_PORT" => sel'[p].selectedRole = "Disabled"
         /\ s # "INIT_PORT" => sel' = sel
         /\ s = "BLOCK_PORT" => ctl'[p].role = sel[p].selectedRole
         /\ s = "ROOT_PORT" => ctl'[p].role = "Root"
         /\ s = "DESIGNATED_PORT" => ctl'[p].role = "Designated"
         /\ s \notin {"INIT_PORT", "BLOCK_PORT", "ROOT_PORT", "DESIGNATED_PORT"}
              => ctl'[p].role = ctl[p].role
<1>1. /\ ctl \in [Port -> Control] /\ ctl[p] \in Control
      /\ sel \in [Port -> Selection] /\ sel[p] \in Selection
  BY DEF TypeOK, StateOK
<1>2. /\ s = "INIT_PORT" => sel'[p].selectedRole = "Disabled"
      /\ s # "INIT_PORT" => sel' = sel
  <2>1. ASSUME s = "INIT_PORT"
        PROVE  sel' = [sel EXCEPT ![p].selectedRole = "Disabled", ![p].reselect = TRUE]
    BY <2>1 DEF RoletrnsEnter
  <2>2. s # "INIT_PORT" => sel' = sel
    BY DEF RoletrnsEnter
  <2> QED BY <1>1, <2>1, <2>2 DEF Selection
<1>3. /\ s = "BLOCK_PORT" => ctl'[p].role = sel[p].selectedRole
      /\ s = "ROOT_PORT" => ctl'[p].role = "Root"
      /\ s = "DESIGNATED_PORT" => ctl'[p].role = "Designated"
  <2>1. s = "BLOCK_PORT" => ctl' = [ctl EXCEPT ![p].role = sel[p].selectedRole,
                                               ![p].learn = FALSE, ![p].forward = FALSE]
    BY DEF RoletrnsEnter, BlockPort
  <2>2. s = "ROOT_PORT" => ctl' = [ctl EXCEPT ![p].role = "Root"]
    BY DEF RoletrnsEnter
  <2>3. s = "DESIGNATED_PORT" => ctl' = [ctl EXCEPT ![p].role = "Designated"]
    BY DEF RoletrnsEnter
  <2> QED BY <1>1, <2>1, <2>2, <2>3 DEF Control
<1>4. CASE s = "ROOT_PROPOSED"
  <2> DEFINE sync == ctl[p].sync \/ Owner[p] = Owner[p]
             proposed == ctl[p].proposed /\ p # p
  <2>1. ctl'[p] = [ctl[p] EXCEPT !.sync = sync, !.proposed = proposed]
    BY <1>4 DEF RoletrnsEnter
  <2> HIDE DEF sync, proposed
  <2> QED BY <1>1, <1>2, <1>4, <2>1 DEF Control
<1>5. CASE s = "REROOT"
  <2>1. ctl'[p].role = ctl[p].role
    BY <1>1, <1>5 DEF RoletrnsEnter, Control
  <2> QED BY <1>2, <1>5, <2>1
<1>6. CASE s \notin {"ROOT_PROPOSED", "REROOT"}
  <2>1. s \notin {"INIT_PORT", "BLOCK_PORT", "ROOT_PORT", "DESIGNATED_PORT"}
          => ctl'[p].role = ctl[p].role
    <3>1. CASE s \notin {"INIT_PORT", "BLOCK_PORT", "ROOT_PORT", "DESIGNATED_PORT"}
      <4>1. \/ ctl' = ctl
            \/ ctl' = [ctl EXCEPT ![p].synced = TRUE, ![p].sync = FALSE, ![p].reRoot = FALSE]
            \/ ctl' = [ctl EXCEPT ![p].proposed = FALSE, ![p].sync = FALSE,
                                  ![p].synced = TRUE, ![p].newInfo = TRUE]
            \/ ctl' = [ctl EXCEPT ![p].reRoot = FALSE]
            \/ ctl' = [ctl EXCEPT ![p].learn = TRUE]
            \/ ctl' = [ctl EXCEPT ![p].forward = TRUE]
            \/ ctl' = [ctl EXCEPT ![p].proposing = TRUE, ![p].newInfo = TRUE]
            \/ ctl' = [ctl EXCEPT ![p].synced = TRUE, ![p].sync = FALSE]
            \/ ctl' = [ctl EXCEPT ![p].learn = FALSE, ![p].forward = FALSE]
        BY <1>6, <3>1 DEF RoletrnsEnter
      <4> QED BY <1>1, <4>1 DEF Control
    <3> QED BY <3>1
  <2> QED BY <1>2, <1>3, <2>1
<1> QED BY <1>4, <1>5, <1>6

\* Port information may ask for a new selection, but makes none.
LEMMA InfoSelection ==
  ASSUME TypeOK, NEW p \in Port, NEW s, InfoEnter(p, s)
  PROVE  /\ sel'[p].selectedRole = sel[p].selectedRole
         /\ \/ sel'[p].reselect
            \/ sel'[p].reselect = sel[p].reselect /\ sel'[p].selected = sel[p].selected
<1>1. sel \in [Port -> Selection] /\ sel[p] \in Selection
  BY DEF TypeOK, StateOK
<1>2. \/ sel' = sel
      \/ sel' = [sel EXCEPT ![p].updtInfo = FALSE, ![p].reselect = TRUE,
                            ![p].selected = FALSE]
      \/ sel' = [sel EXCEPT ![p].reselect = TRUE, ![p].selected = FALSE]
      \/ sel' = [sel EXCEPT ![p].updtInfo = FALSE]
  BY DEF InfoEnter, InfoAged, InfoDisabled, InfoUpdate, InfoReceive, InfoSuperior
<1> QED BY <1>1, <1>2 DEF Selection

\* Every machine keeps the role right.
LEMMA MachineKeepsRole ==
  ASSUME TypeOK, NEW m \in Machine, NextState(m) # Stay,
         RunMachine(m, NextState(m)), NEW q \in Port, RoleRight(q)
  PROVE  RoleRight(q)'
<1> DEFINE s == NextState(m)
<1>1. At("roletrns", q)' = IF m[1] = "roletrns" /\ m[2] = q THEN s ELSE At("roletrns", q)
  BY Hops, Kinds
<1>2. CASE m[1] = "roletrns" /\ m[2] = q
  <2>1. s = RoletrnsNext(q) /\ RoletrnsEnter(q, s) /\ At("roletrns", q)' = s
    BY <1>1, <1>2 DEF NextState, RunMachine
  <2>2. /\ s = "INIT_PORT" => sel'[q].selectedRole = "Disabled"
        /\ s # "INIT_PORT" => sel' = sel
        /\ s = "BLOCK_PORT" => ctl'[q].role = sel[q].selectedRole
        /\ s = "ROOT_PORT" => ctl'[q].role = "Root"
        /\ s = "DESIGNATED_PORT" => ctl'[q].role = "Designated"
        /\ s \notin {"INIT_PORT", "BLOCK_PORT", "ROOT_PORT", "DESIGNATED_PORT"}
             => ctl'[q].role = ctl[q].role
    BY <2>1, RoletrnsRole
  <2>3. \/ s \in IdleStates \ {BEGIN}
        \/ s \in {"ROOT_PORT", "DESIGNATED_PORT"} /\ q \notin NonStp
        \/ s \in RootPass /\ ctl[q].role = "Root" /\ q \notin NonStp
        \/ s \in DesgPass /\ ctl[q].role = "Designated" /\ q \notin NonStp
    BY <2>1, RoletrnsGoes
  <2> HIDE DEF s
  <2>4. CASE s \in IdleStates \ {BEGIN}
    BY <2>1, <2>2, <2>4 DEF RoleRight, IdleStates, BlockState, BEGIN
  <2>5. CASE s \in {"ROOT_PORT", "DESIGNATED_PORT"} /\ q \notin NonStp
    BY <2>1, <2>2, <2>5 DEF RoleRight, RootStates, DesgStates
  <2>6. CASE s \in RootPass /\ ctl[q].role = "Root" /\ q \notin NonStp
    BY <2>1, <2>2, <2>6 DEF RoleRight, RootStates, RootPass
  <2>7. CASE s \in DesgPass /\ ctl[q].role = "Designated" /\ q \notin NonStp
    BY <2>1, <2>2, <2>7 DEF RoleRight, DesgStates, DesgPass
  <2> QED BY <2>3, <2>4, <2>5, <2>6, <2>7
<1>3. CASE m[1] = "rolesel"
  <2>1. UpdtRolesBridge(m[2]) /\ At("roletrns", q)' = At("roletrns", q)
    BY <1>1, <1>3 DEF RunMachine, RoleSelEnter
  <2>2. CASE Owner[q] # m[2]
    <3>1. ctl'[q] = ctl[q] /\ sel'[q] = sel[q]
      BY <2>1, <2>2 DEF UpdtRolesBridge
    <3> QED BY <2>1, <3>1 DEF RoleRight
  <2>3. CASE Owner[q] = m[2]
    <3> DEFINE e == Elected(m[2])
    <3>1. sel'[q].selectedRole = RoleFor(q, e)
      BY <2>1, <2>3 DEF UpdtRolesBridge
    <3>2. IF q \in NonStp THEN RoleFor(q, e) = "NonStp" ELSE RoleFor(q, e) # "NonStp"
      BY DEF RoleFor
    <3>3. q \in NonStp => ctl'[q].role = "NonStp"
      BY <1>3, <2>1, <2>3, PortTypes DEF UpdtRolesBridge, TypeOK, NetOK, Control
    <3>4. q \notin NonStp => ctl'[q] = ctl[q]
      BY <2>1 DEF UpdtRolesBridge
    <3> HIDE DEF e
    <3> QED BY <2>1, <3>1, <3>2, <3>3, <3>4 DEF RoleRight
  <2> QED BY <2>2, <2>3
<1>4. CASE m[1] # "rolesel" /\ ~ (m[1] = "roletrns" /\ m[2] = q)
  <2>1. ctl'[q].role = ctl[q].role /\ At("roletrns", q)' = At("roletrns", q)
    BY <1>1, <1>4, DutyWriter DEF DutyKept
  <2>2. sel'[q].selectedRole = sel[q].selectedRole
    <3>1. CASE m[1] = "info" /\ m[2] = q
      <4>1. InfoEnter(q, s)
        BY <3>1 DEF RunMachine
      <4> HIDE DEF s
      <4> QED BY <4>1, InfoSelection
    <3> QED BY <1>4, <3>1, SelectionWriters
  <2> QED BY <2>1, <2>2 DEF RoleRight
<1> QED BY <1>2, <1>3, <1>4

-----------------------------------------------------------------------------
(***************************************************************************)
(* What port information knows: its state tells whether it was received,   *)
(* and what was received came in through this port.                        *)
(***************************************************************************)
NewsRight(p) ==
  /\ At("info", p) = "DISABLED" => prio[p].infoIs = "Disabled"
  /\ At("info", p) \in {"AGED", "ENABLED"} => prio[p].infoIs # "Received"
  /\ prio[p].infoIs = "Received" => BridgePort(prio[p].portPrio) = PortId[p]
  /\ rcv[p].msg.type \in {"Config", "RSTP"} \/ rcv[p].rcvdMsg = "Superior"
       => BridgePort(rcv[p].msg.vec) = PortId[p]

\* Port information keeps what it knows right, state by state.
LEMMA InfoKeepsNews ==
  ASSUME TypeOK, NEW p \in Port, NewsRight(p), InfoNext(p) # Stay,
         InfoEnter(p, InfoNext(p)), At("info", p)' = InfoNext(p)
  PROVE  NewsRight(p)'
<1> DEFINE s == InfoNext(p)
<1>1. /\ prio \in [Port -> Information] /\ prio[p] \in Information
      /\ rcv \in [Port -> Reception] /\ rcv[p] \in Reception
  BY DEF TypeOK, StateOK
<1>2. s = "ENABLED" => At("info", p) = "DISABLED"
  BY DEF InfoNext, Stay
<1>3. s = "SUPERIOR" => rcv[p].rcvdMsg = "Superior"
  BY DEF InfoNext, Stay
<1>4. InfoEnter(p, s) /\ At("info", p)' = s
  OBVIOUS
<1> HIDE DEF s
<1>5. CASE s = "DISABLED"
  <2>1. /\ prio' = [prio EXCEPT ![p].infoIs = "Disabled"]
        /\ rcv' = [rcv EXCEPT ![p].rcvdBpdu = FALSE, ![p].rcvdRSTP = FALSE,
                              ![p].rcvdSTP = FALSE]
    BY <1>4, <1>5 DEF InfoEnter, InfoAged, InfoDisabled
  <2>2. /\ prio'[p].infoIs = "Disabled"
        /\ rcv'[p].msg = rcv[p].msg /\ rcv'[p].rcvdMsg = rcv[p].rcvdMsg
    BY <1>1, <2>1 DEF Information, Reception
  <2> QED BY <1>4, <1>5, <2>2 DEF NewsRight
<1>6. CASE s = "ENABLED"
  <2>1. /\ prio' = [prio EXCEPT ![p].portPrio = prio[p].designPrio,
                                ![p].portTimes = prio[p].designTimes]
        /\ rcv' = rcv
    BY <1>4, <1>6 DEF InfoEnter, InfoAged
  <2>2. prio'[p].infoIs = "Disabled"
    BY <1>1, <1>2, <1>6, <2>1 DEF Information, NewsRight
  <2> QED BY <1>4, <1>6, <2>1, <2>2 DEF NewsRight
<1>7. CASE s = "AGED"
  <2>1. prio' = [prio EXCEPT ![p].infoIs = "Aged"] /\ rcv' = rcv
    BY <1>4, <1>7 DEF InfoEnter, InfoAged
  <2>2. prio'[p].infoIs = "Aged"
    BY <1>1, <2>1 DEF Information
  <2> QED BY <1>4, <1>7, <2>1, <2>2 DEF NewsRight
<1>8. CASE s = "UPDATE"
  <2>1. /\ prio' = [prio EXCEPT ![p].portPrio = prio[p].designPrio,
                                ![p].portTimes = prio[p].designTimes,
                                ![p].infoIs = "Mine"]
        /\ rcv' = rcv
    BY <1>4, <1>8 DEF InfoEnter, InfoAged, InfoUpdate
  <2>2. prio'[p].infoIs = "Mine"
    BY <1>1, <2>1 DEF Information
  <2> QED BY <1>4, <1>8, <2>1, <2>2 DEF NewsRight
<1>9. CASE s = "RECEIVE"
  <2> DEFINE verdict == RcvBpdu(p)
             stp == rcv[p].rcvdSTP \/ rcv[p].msg.type \in {"TCN", "Config"}
             rstp == rcv[p].rcvdRSTP \/ rcv[p].msg.type = "RSTP"
  <2>1. /\ prio' = prio
        /\ rcv'[p] = [rcv[p] EXCEPT !.rcvdMsg = verdict, !.rcvdBpdu = FALSE,
                                    !.rcvdSTP = stp, !.rcvdRSTP = rstp]
    BY <1>1, <1>4, <1>9 DEF InfoEnter, InfoAged, InfoReceive
  <2>2. verdict = "Superior" => rcv[p].msg.type \in {"Config", "RSTP"}
    BY DEF RcvBpdu, FromDesignated
  <2> HIDE DEF verdict, stp, rstp
  <2>3. rcv'[p].msg = rcv[p].msg /\ rcv'[p].rcvdMsg = verdict
    BY <1>1, <2>1 DEF Reception
  <2> QED BY <1>4, <1>9, <2>1, <2>2, <2>3 DEF NewsRight
<1>10. CASE s = "SUPERIOR"
  <2>1. /\ prio' = [prio EXCEPT ![p].portPrio = rcv[p].msg.vec,
                                ![p].portTimes = rcv[p].msg.times,
                                ![p].infoIs = "Received"]
        /\ rcv' = rcv
    BY <1>4, <1>10 DEF InfoEnter, InfoAged, InfoSuperior
  <2>2. prio'[p].portPrio = rcv[p].msg.vec
    BY <1>1, <2>1 DEF Information
  <2> QED BY <1>3, <1>4, <1>10, <2>1, <2>2 DEF NewsRight
<1>11. CASE s \in {"CURRENT", "REPEAT", "AGREEMENT"}
  <2>1. prio' = prio /\ rcv' = rcv
    BY <1>4, <1>11 DEF InfoEnter, InfoAged
  <2> QED BY <1>4, <1>11, <2>1 DEF NewsRight
<1> QED BY <1>4, <1>5, <1>6, <1>7, <1>8, <1>9, <1>10, <1>11 DEF InfoEnter, InfoAged

\* So does every machine.
LEMMA MachineKeepsNews ==
  ASSUME TypeOK, NEW m \in Machine, NextState(m) # Stay,
         RunMachine(m, NextState(m)), NEW q \in Port, NewsRight(q)
  PROVE  NewsRight(q)'
<1>1. At("info", q)' = IF m[1] = "info" /\ m[2] = q THEN NextState(m) ELSE At("info", q)
  BY Hops, Kinds
<1>2. CASE m[1] = "info" /\ m[2] = q
  <2>1. NextState(m) = InfoNext(q) /\ InfoEnter(q, InfoNext(q))
    BY <1>2 DEF NextState, RunMachine
  <2> QED BY <1>1, <1>2, <2>1, InfoKeepsNews
<1>3. CASE ~ (m[1] = "info" /\ m[2] = q)
  BY <1>1, <1>3, NewsWriter DEF NewsRight, NewsKept
<1> QED BY <1>2, <1>3

-----------------------------------------------------------------------------
(***************************************************************************)
(* What was selected: it stands until a new selection is asked for, and    *)
(* the root port is the one the bridge has its root from.                  *)
(***************************************************************************)
SelectionRight(p) ==
  /\ ~ sel[p].selected => sel[p].reselect
  /\ ~ sel[p].reselect =>
       (sel[p].selectedRole = "Root" <=> br[Owner[p]].rootPortId = PortId[p])

\* The root port of a bridge is the port of the best candidate.
LEMMA RootPortIsCandidate ==
  ASSUME TypeOK, NEW b \in Bridge, NEW p \in Ports[b],
         \A q \in Port : NewsRight(q)
  PROVE  Elected(b).rootPortId = PortId[p] =>
           p \notin NonStp /\ prio[p].infoIs = "Received"
<1>1. p \in Port /\ Owner[p] = b /\ PortId[p] # 0
  BY BridgePorts, PortAssumption
<1>2. CASE Elected(b).rootPortId = 0
  BY <1>1, <1>2
<1>3. ASSUME NEW best \in RootCandidates(b), best \in Port, Owner[best] = b,
             Elected(b) = ElectedThrough(best)
      PROVE  Elected(b).rootPortId = PortId[p] =>
               p \notin NonStp /\ prio[p].infoIs = "Received"
  <2>1. best \notin NonStp /\ prio[best].infoIs = "Received"
    BY DEF RootCandidates
  <2>2. Elected(b).rootPortId = BridgePort(prio[best].portPrio)
    BY <1>3 DEF ElectedThrough, RootPathPrio, AddCost, BridgePort
  <2>3. Elected(b).rootPortId = PortId[best]
    BY <1>3, <2>1, <2>2 DEF NewsRight
  <2> QED BY <1>1, <1>3, <2>1, <2>3, PortAssumption
<1> QED BY <1>2, <1>3, ElectedCases DEF TypeOK, NetOK

\* Hence the port that is given the root role is that port.
LEMMA RootRoleIsRootPort ==
  ASSUME TypeOK, NEW b \in Bridge, NEW p \in Ports[b],
         \A q \in Port : NewsRight(q)
  PROVE  RoleFor(p, Elected(b)) = "Root" <=> Elected(b).rootPortId = PortId[p]
<1> DEFINE e == Elected(b)
<1>1. e.rootPortId = PortId[p] => p \notin NonStp /\ prio[p].infoIs = "Received"
  BY RootPortIsCandidate
<1> HIDE DEF e
<1>2. RoleFor(p, e) = "Root" => e.rootPortId = PortId[p]
  BY DEF RoleFor
<1>3. p \notin NonStp /\ prio[p].infoIs = "Received" /\ e.rootPortId = PortId[p]
        => RoleFor(p, e) = "Root"
  BY DEF RoleFor
<1> QED BY <1>1, <1>2, <1>3 DEF e

\* Every machine keeps the selection right.
LEMMA MachineKeepsSelection ==
  ASSUME TypeOK, NEW m \in Machine, NextState(m) # Stay,
         RunMachine(m, NextState(m)), \A r \in Port : NewsRight(r),
         NEW q \in Port, SelectionRight(q)
  PROVE  SelectionRight(q)'
<1> DEFINE s == NextState(m)
<1>1. Owner[q] \in Bridge /\ br \in [Bridge -> RootKnown]
  BY PortAssumption DEF TypeOK, StateOK
<1>2. CASE m[1] = "rolesel"
  <2>1. UpdtRolesBridge(m[2]) /\ m[2] \in Bridge
    BY <1>2, MachineCases, Kinds DEF RunMachine, RoleSelEnter
  <2>2. CASE Owner[q] # m[2]
    <3>1. sel'[q] = sel[q] /\ br'[Owner[q]] = br[Owner[q]]
      BY <1>1, <2>1, <2>2 DEF UpdtRolesBridge
    <3> QED BY <3>1 DEF SelectionRight
  <2>3. CASE Owner[q] = m[2]
    <3> DEFINE e == Elected(m[2])
    <3>1. /\ sel'[q] = [selectedRole |-> RoleFor(q, e), selected |-> TRUE,
                        reselect |-> FALSE, updtInfo |-> UpdtInfoFor(q, e)]
          /\ br'[Owner[q]] = e
      BY <1>1, <2>1, <2>3 DEF UpdtRolesBridge
    <3>2. q \in Ports[m[2]]
      BY <2>1, <2>3, BridgePorts
    <3>3. RoleFor(q, e) = "Root" <=> e.rootPortId = PortId[q]
      BY <2>1, <3>2, RootRoleIsRootPort
    <3> HIDE DEF e
    <3> QED BY <3>1, <3>3 DEF SelectionRight
  <2> QED BY <2>2, <2>3
<1>3. CASE m[1] # "rolesel"
  <2>1. br' = br
    BY <1>3, SelectionWriters
  <2>2. CASE m[1] = "info" /\ m[2] = q
    <3>1. InfoEnter(q, s)
      BY <2>2 DEF RunMachine
    <3>2. /\ sel'[q].selectedRole = sel[q].selectedRole
          /\ \/ sel'[q].reselect
             \/ sel'[q].reselect = sel[q].reselect /\ sel'[q].selected = sel[q].selected
      BY <3>1, InfoSelection
    <3> QED BY <2>1, <3>2 DEF SelectionRight
  <2>3. CASE m[1] = "roletrns" /\ m[2] = q
    <3>1. RoletrnsEnter(q, s) /\ sel \in [Port -> Selection] /\ sel[q] \in Selection
      BY <2>3 DEF RunMachine, TypeOK, StateOK
    <3> HIDE DEF s
    <3>2. CASE s = "INIT_PORT"
      <4>1. sel' = [sel EXCEPT ![q].selectedRole = "Disabled", ![q].reselect = TRUE]
        BY <3>1, <3>2 DEF RoletrnsEnter
      <4>2. sel'[q].reselect
        BY <3>1, <4>1 DEF Selection
      <4> QED BY <4>2 DEF SelectionRight
    <3>3. CASE s # "INIT_PORT"
      <4>1. sel' = sel
        BY <3>1, <3>3 DEF RoletrnsEnter
      <4> QED BY <2>1, <4>1 DEF SelectionRight
    <3> QED BY <3>2, <3>3
  <2>4. CASE ~ (m[1] \in {"info", "roletrns"} /\ m[2] = q)
    <3>1. sel'[q] = sel[q]
      BY <1>3, <2>4, SelectionWriters
    <3> QED BY <2>1, <3>1 DEF SelectionRight
  <2> QED BY <2>2, <2>3, <2>4
<1> QED BY <1>2, <1>3

-----------------------------------------------------------------------------
(***************************************************************************)
(* Topology changes: a port that is out of the game has stopped telling.   *)
(***************************************************************************)
TcRight(p) == At("topoch", p) \in {BEGIN, "INIT", "INACTIVE"} => timer[p].tcWhile = 0

\* Every machine keeps the topology change timer right.
LEMMA MachineKeepsTc ==
  ASSUME TypeOK, NEW m \in Machine, NextState(m) # Stay,
         RunMachine(m, NextState(m)), NEW q \in Port, TcRight(q)
  PROVE  TcRight(q)'
<1> DEFINE s == NextState(m)
<1>1. At("topoch", q)' = IF m[1] = "topoch" /\ m[2] = q THEN s ELSE At("topoch", q)
  BY Hops, Kinds
<1>2. CASE m[1] = "topoch" /\ m[2] = q
  <2>1. s = TopochNext(q) /\ TopochEnter(q, s) /\ At("topoch", q)' = s
    BY <1>1, <1>2 DEF NextState, RunMachine
  <2>2. timer \in [Port -> Timers] /\ timer[q] \in Timers
    BY DEF TypeOK, StateOK
  <2>3. s = "INACTIVE" => At("topoch", q) \in {"INIT", "INACTIVE"}
    BY <2>1 DEF TopochNext, Stay
  <2> HIDE DEF s
  <2>4. CASE s = "INIT"
    <3>1. timer' = [timer EXCEPT ![q].tcWhile = 0]
      BY <2>1, <2>4 DEF TopochEnter, TopochInit
    <3>2. timer'[q].tcWhile = 0
      BY <2>2, <3>1 DEF Timers
    <3> QED BY <3>2 DEF TcRight
  <2>5. CASE s = "INACTIVE"
    <3>1. timer' = timer
      BY <2>1, <2>5 DEF TopochEnter
    <3> QED BY <2>3, <2>5, <3>1 DEF TcRight
  <2>6. CASE s \notin {"INIT", "INACTIVE"}
    <3>1. s # BEGIN
      BY <2>1 DEF TopochEnter, BEGIN
    <3> QED BY <2>1, <2>6, <3>1 DEF TcRight
  <2> QED BY <2>4, <2>5, <2>6
<1>3. CASE ~ (m[1] = "topoch" /\ m[2] = q)
  BY <1>1, <1>3, TimerWriters DEF TcRight
<1> QED BY <1>2, <1>3

-----------------------------------------------------------------------------
(***************************************************************************)
(* Events and the environment.                                             *)
(***************************************************************************)
PortRight(p) ==
  ChipRight(p) /\ RoleRight(p) /\ SelectionRight(p) /\ NewsRight(p) /\ TcRight(p)

\* Every machine keeps every port right.
LEMMA MachineKeepsRight ==
  ASSUME TypeOK, \A p \in Port : PortRight(p), MachineStep, NEW q \in Port
  PROVE  PortRight(q)'
<1>1. PICK m \in Chosen(Active) : RunMachine(m, NextState(m))
  BY DEF MachineStep
<1>2. m \in Machine /\ NextState(m) # Stay
  BY ChosenType DEF MachineStep, TypeOK
<1> QED BY <1>1, <1>2, MachineKeepsChip, MachineKeepsRole, MachineKeepsSelection,
           MachineKeepsNews, MachineKeepsTc DEF PortRight

\* What an event may do to a port: ask for a new selection, stop its
\* topology change timer, or leave it in the frame just received.
Touched(p) ==
  /\ hw'[p] = hw[p] /\ ctl'[p] = ctl[p] /\ prio'[p] = prio[p] /\ br' = br /\ st' = st
  /\ \/ sel'[p] = sel[p]
     \/ sel'[p].selectedRole = "Disabled" /\ sel'[p].reselect
  /\ timer[p].tcWhile = 0 => timer'[p].tcWhile = 0
  /\ rcv'[p].rcvdMsg = rcv[p].rcvdMsg
  /\ \/ rcv'[p].msg = rcv[p].msg
     \/ rcv'[p].msg.type = "TCN" /\ rcv'[p].msg.vec = rcv[p].msg.vec
     \/ BridgePort(rcv'[p].msg.vec) = PortId[p]

\* Such a touch leaves the port right.
LEMMA TouchedStaysRight ==
  ASSUME NEW p \in Port, PortRight(p), Touched(p)
  PROVE  PortRight(p)'
<1>1. At("sttrans", p)' = At("sttrans", p) /\ At("roletrns", p)' = At("roletrns", p)
      /\ At("info", p)' = At("info", p) /\ At("topoch", p)' = At("topoch", p)
  BY DEF Touched, At
<1>2. ChipRight(p)' /\ TcRight(p)'
  BY <1>1 DEF PortRight, Touched, ChipRight, TcRight
<1>3. RoleRight(p)'
  BY <1>1 DEF PortRight, Touched, RoleRight
<1>4. SelectionRight(p)'
  BY DEF PortRight, Touched, SelectionRight
<1>5. NewsRight(p)'
  BY <1>1 DEF PortRight, Touched, NewsRight
<1> QED BY <1>2, <1>3, <1>4, <1>5 DEF PortRight

\* Enabling or disabling a port does no more than that.
LEMMA EnableTouches ==
  ASSUME TypeOK, NEW p \in Port, NEW enable, NEW a, EnablePort(p, enable, a)
  PROVE  /\ \/ sel'[p] = sel[p]
            \/ sel'[p].selectedRole = "Disabled" /\ sel'[p].reselect
         /\ timer[p].tcWhile = 0 => timer'[p].tcWhile = 0
<1>1. /\ sel \in [Port -> Selection] /\ sel[p] \in Selection
      /\ timer \in [Port -> Timers]
  BY DEF TypeOK, StateOK
<1>2. CASE adapt[p].portEnabled = enable
  BY <1>2 DEF EnablePort
<1>3. CASE adapt[p].portEnabled # enable
  <2>1. /\ sel' = [sel EXCEPT ![p].selectedRole = "Disabled",
                              ![p].reselect = TRUE, ![p].selected = FALSE]
        /\ timer' = [timer EXCEPT ![p] = ResetTimers(timer[p])]
    BY <1>3 DEF EnablePort
  <2>2. timer'[p].tcWhile = 0
    BY <1>1, <2>1 DEF ResetTimers
  <2>3. sel'[p].selectedRole = "Disabled" /\ sel'[p].reselect
    BY <1>1, <2>1 DEF Selection
  <2> QED BY <2>2, <2>3
<1> QED BY <1>2, <1>3

\* Nor does a frame.
LEMMA RxTouches ==
  ASSUME TypeOK, NEW p \in Port, RxBpdu(p), NEW q \in Port
  PROVE  Touched(q)
<1>1. /\ UNCHANGED <<hw, ctl, prio, br, st>>
      /\ KeepBpdu(p, Head(wire[p]))
      /\ EnablePort(p, TRUE, [adapt[p] EXCEPT !.operEdge = FALSE, !.wasInitBpdu = TRUE])
  BY DEF RxBpdu
<1>2. CASE q # p
  <2>1. timer'[q] = timer[q] /\ sel'[q] = sel[q]
    BY <1>1, <1>2, EnableStaysHome
  <2>2. rcv'[q] = rcv[q]
    BY <1>1, <1>2 DEF KeepBpdu, TypeOK, StateOK
  <2> QED BY <1>1, <2>1, <2>2 DEF Touched
<1>3. CASE q = p
  <2> DEFINE m == Head(wire[p])
             notice == [rcv[p].msg EXCEPT !.type = "TCN"]
             taken == [m EXCEPT !.vec = ReceivedBy(m.vec, PortId[p])]
             kept == IF m.type = "TCN" THEN notice ELSE taken
  <2>1. rcv \in [Port -> Reception] /\ rcv[p] \in Reception /\ rcv[p].msg \in Bpdu
    BY DEF TypeOK, StateOK, Reception
  <2>2. m \in Bpdu
    BY HeadTailProperties DEF RxBpdu, TypeOK
  <2>3. rcv' = rcv \/ rcv' = [rcv EXCEPT ![p].rcvdBpdu = TRUE, ![p].msg = kept]
    BY <1>1 DEF KeepBpdu
  <2>4. notice.type = "TCN" /\ notice.vec = rcv[p].msg.vec
    BY <2>1 DEF Bpdu
  <2>5. BridgePort(taken.vec) = PortId[p]
    <3> HIDE DEF m
    <3>1. taken.vec = ReceivedBy(m.vec, PortId[p])
      BY <2>2 DEF Bpdu
    <3> QED BY <3>1 DEF ReceivedBy, BridgePort
  <2> HIDE DEF notice, taken
  <2>6. /\ rcv'[p].rcvdMsg = rcv[p].rcvdMsg
        /\ \/ rcv'[p].msg = rcv[p].msg
           \/ rcv'[p].msg.type = "TCN" /\ rcv'[p].msg.vec = rcv[p].msg.vec
           \/ BridgePort(rcv'[p].msg.vec) = PortId[p]
    <3>1. kept \in {notice, taken}
      OBVIOUS
    <3> HIDE DEF kept
    <3>2. CASE rcv' = [rcv EXCEPT ![p].rcvdBpdu = TRUE, ![p].msg = kept]
      <4>1. rcv'[p].rcvdMsg = rcv[p].rcvdMsg /\ rcv'[p].msg = kept
        BY <2>1, <3>2 DEF Reception
      <4> QED BY <2>4, <2>5, <3>1, <4>1
    <3> QED BY <2>3, <3>2
  <2>7. /\ \/ sel'[p] = sel[p]
           \/ sel'[p].selectedRole = "Disabled" /\ sel'[p].reselect
        /\ timer[p].tcWhile = 0 => timer'[p].tcWhile = 0
    BY <1>1, EnableTouches
  <2> QED BY <1>1, <1>3, <2>6, <2>7 DEF Touched
<1> QED BY <1>2, <1>3

\* Nor does any event.
LEMMA EventTouches ==
  ASSUME TypeOK, Event, NEW q \in Port
  PROVE  Touched(q)
<1>1. ASSUME NEW p \in Port, PollLink(p)
      PROVE  Touched(q)
  <2>1. /\ UNCHANGED <<hw, ctl, prio, br, st, rcv>>
        /\ EnablePort(p, p \in phys, adapt[p])
    BY <1>1 DEF PollLink
  <2>2. /\ \/ sel'[q] = sel[q]
           \/ sel'[q].selectedRole = "Disabled" /\ sel'[q].reselect
        /\ timer[q].tcWhile = 0 => timer'[q].tcWhile = 0
    <3>1. CASE q = p
      BY <2>1, <3>1, EnableTouches
    <3>2. CASE q # p
      BY <2>1, <3>2, EnableStaysHome
    <3> QED BY <3>1, <3>2
  <2> QED BY <2>1, <2>2 DEF Touched
<1>2. ASSUME NEW b \in Bridge, Tick(b)
      PROVE  Touched(q)
  <2>1. UNCHANGED <<hw, ctl, prio, br, st, rcv, sel>>
    BY <1>2 DEF Tick
  <2>2. timer[q].tcWhile = 0 => timer'[q].tcWhile = 0
    BY <1>2 DEF Tick, Countdown
  <2> QED BY <2>1, <2>2 DEF Touched
<1> QED BY <1>1, <1>2, RxTouches DEF Event

\* Every port is right when its bridge starts.
LEMMA InitRight == Init => \A p \in Port : PortRight(p)
<1> SUFFICES ASSUME Init, NEW p \in Port
             PROVE  PortRight(p)
  OBVIOUS
<1>1. InitState(phys) /\ \A k \in PortKind : PortMachine(k, p) \in Machine
  BY DEF Init, PortMachine, Machine
<1>2. \A k \in PortKind : At(k, p) = BEGIN
  BY <1>1 DEF InitState, At
<1>3. ChipRight(p)
  BY <1>1, <1>2, Kinds DEF InitState, ChipRight, BEGIN
<1>4. RoleRight(p)
  BY <1>1, <1>2, Kinds DEF InitState, RoleRight, IdleStates
<1>5. SelectionRight(p)
  BY <1>1 DEF InitState, SelectionRight
<1>6. NewsRight(p)
  BY <1>1, <1>2, Kinds DEF InitState, NewsRight, NoBpdu, BEGIN
<1>7. TcRight(p)
  BY <1>1 DEF InitState, TcRight
<1> QED BY <1>3, <1>4, <1>5, <1>6, <1>7 DEF PortRight

-----------------------------------------------------------------------------
(***************************************************************************)
(* The invariant.                                                          *)
(***************************************************************************)
SettledInv ==
  /\ TypeOK
  /\ BlockedStaysShut
  /\ Quiescent
  /\ \A p \in Port : PortRight(p)

\* The invariant holds at start-up.
LEMMA InitSettled == Init => SettledInv
<1>1. Init => Quiescent
  BY DEF Init, Quiescent
<1> QED BY <1>1, InitTypes, InitShut, InitRight DEF SettledInv

\* Every step keeps the invariant.
LEMMA NextKeepsSettled == SettledInv /\ [Next]_vars => SettledInv'
<1> SUFFICES ASSUME SettledInv, [Next]_vars
             PROVE  SettledInv'
  OBVIOUS
<1>1. TypeOK' /\ BlockedStaysShut' /\ Quiescent'
  BY NextKeepsTypes, NextKeepsShut, NextKeepsQuiescent DEF SettledInv
<1>2. ASSUME NEW q \in Port
      PROVE  PortRight(q)'
  <2>1. CASE MachineStep
    BY <2>1, MachineKeepsRight DEF SettledInv
  <2>2. CASE Event
    BY <2>2, EventTouches, TouchedStaysRight DEF SettledInv
  <2>3. CASE UNCHANGED stateVars
    <3>1. Touched(q)
      BY <2>3 DEF stateVars, Touched
    <3> QED BY <3>1, TouchedStaysRight DEF SettledInv
  <2>4. UpdateDone \/ Environment \/ UNCHANGED vars => UNCHANGED stateVars
    BY DEF UpdateDone, Environment, LinkChange, ForeignFrame, vars, stateVars
  <2> QED BY <2>1, <2>2, <2>3, <2>4 DEF Next, System
<1> QED BY <1>1, <1>2 DEF SettledInv

-----------------------------------------------------------------------------
(***************************************************************************)
(* What a port looks like when its machines have nothing to do.            *)
(***************************************************************************)
\* Between updates no machine of a port can move.
LEMMA NothingToDo ==
  ASSUME SettledInv, Idle, NEW p \in Port
  PROVE  /\ RoleSelNext(Owner[p]) = Stay /\ SttransNext(p) = Stay
         /\ RoletrnsNext(p) = Stay /\ InfoNext(p) = Stay /\ TopochNext(p) = Stay
<1>1. Owner[p] \in Bridge /\ p \in Ports[Owner[p]] /\ Quiet(Owner[p])
  BY PortAssumption, BridgePorts DEF SettledInv, Quiescent, Idle
<1>2. /\ RoleSelMachine(Owner[p]) \in MachinesOf[Owner[p]]
      /\ \A k \in PortKind : PortMachine(k, p) \in MachinesOf[Owner[p]]
  BY <1>1 DEF MachinesOf, PortMachine
<1>3. /\ NextState(RoleSelMachine(Owner[p])) = Stay
      /\ \A k \in PortKind : NextState(PortMachine(k, p)) = Stay
  BY <1>1, <1>2 DEF Quiet
<1>4. /\ NextState(RoleSelMachine(Owner[p])) = RoleSelNext(Owner[p])
      /\ NextState(PortMachine("sttrans", p)) = SttransNext(p)
      /\ NextState(PortMachine("roletrns", p)) = RoletrnsNext(p)
      /\ NextState(PortMachine("info", p)) = InfoNext(p)
      /\ NextState(PortMachine("topoch", p)) = TopochNext(p)
  BY DEF NextState, RoleSelMachine, PortMachine
<1> QED BY <1>3, <1>4, Kinds

\* The selection is made and announced.
LEMMA SelectionSettles ==
  ASSUME SettledInv, Idle, NEW p \in Port
  PROVE  sel[p].selected /\ ~ sel[p].reselect /\ ~ sel[p].updtInfo
<1>1. p \in Ports[Owner[p]] /\ RoleSelNext(Owner[p]) = Stay /\ InfoNext(p) = Stay
  BY NothingToDo, BridgePorts, PortAssumption
<1>2. ~ sel[p].reselect
  BY <1>1 DEF RoleSelNext, Stay
<1>3. sel[p].selected
  BY <1>2 DEF SettledInv, PortRight, SelectionRight
<1>4. ~ sel[p].updtInfo
  BY <1>1, <1>3 DEF InfoNext, Stay
<1> QED BY <1>2, <1>3, <1>4

\* The role is the one selected, and role transitions is at rest in it.
LEMMA RoleSettles ==
  ASSUME SettledInv, Idle, NEW p \in Port
  PROVE  /\ ctl[p].role = sel[p].selectedRole
         /\ \/ At("roletrns", p) \in BlockState
            \/ ctl[p].role \in {"Root", "Designated"}
<1>1. Settled(p) /\ RoletrnsNext(p) = Stay /\ RoleRight(p)
  BY SelectionSettles, NothingToDo DEF Settled, SettledInv, PortRight
<1>2. sel[p].selectedRole \in PortRole
  BY DEF SettledInv, TypeOK, StateOK, Selection
<1>3. RoleEntryState(sel[p].selectedRole) = Stay => sel[p].selectedRole = "NonStp"
  BY <1>2 DEF RoleEntryState, PortRole, BlockedRole, Stay
<1>4. At("roletrns", p) # BEGIN
  BY <1>1 DEF RoletrnsNext, Stay
<1>5. ctl[p].role = sel[p].selectedRole
  BY <1>1, <1>3, <1>4 DEF RoletrnsNext, RoleRight
<1>6. At("roletrns", p) # "INIT_PORT"
  BY <1>1, <1>4, <1>5 DEF RoletrnsNext, Stay
<1> QED BY <1>1, <1>4, <1>5, <1>6 DEF RoleRight, IdleStates

\* The chip follows the two flags.
LEMMA ChipSettles ==
  ASSUME SettledInv, Idle, NEW p \in Port
  PROVE  /\ hw[p].forwarding => ctl[p].forward /\ ctl[p].role \notin BlockedRole
         /\ hw[p].learning => ctl[p].learn
<1>1. SttransNext(p) = Stay /\ ChipRight(p)
  BY NothingToDo DEF SettledInv, PortRight
<1>2. /\ hw[p].forwarding => ctl[p].forward
      /\ hw[p].learning => ctl[p].learn
  <2>1. CASE At("sttrans", p) \in {BEGIN, "DISCARDING"}
    BY <1>1, <2>1 DEF ChipRight
  <2>2. CASE At("sttrans", p) = "LEARNING"
    BY <1>1, <2>2 DEF ChipRight, SttransNext, BEGIN, Stay
  <2>3. CASE At("sttrans", p) \notin {BEGIN, "DISCARDING", "LEARNING"}
    BY <1>1, <2>3 DEF ChipRight, SttransNext, BEGIN, Stay
  <2> QED BY <2>1, <2>2, <2>3
<1>3. ctl[p].forward => ctl[p].role \notin BlockedRole
  BY RoleSettles DEF SettledInv, BlockedStaysShut, Blocked, BlockedRole
<1> QED BY <1>2, <1>3

\* Received information is alive.
LEMMA NewsSettles ==
  ASSUME SettledInv, Idle, NEW p \in Port, prio[p].infoIs = "Received"
  PROVE  timer[p].rcvdInfoWhile > 0 /\ adapt[p].portEnabled
<1>1. /\ InfoNext(p) = Stay /\ NewsRight(p) /\ ~ sel[p].updtInfo
      /\ timer[p] \in Timers
  BY NothingToDo, SelectionSettles DEF SettledInv, PortRight, TypeOK, StateOK
<1>2. adapt[p].portEnabled
  BY <1>1 DEF InfoNext, Stay
<1>3. At("info", p) = "CURRENT"
  BY <1>1, <1>2 DEF InfoNext, NewsRight, Stay
<1>4. timer[p].rcvdInfoWhile # 0
  BY <1>1, <1>2, <1>3 DEF InfoNext, InfoExpired, Stay, BEGIN
<1> QED BY <1>1, <1>2, <1>4 DEF Timers

\* Topology changes are told from active ports.
LEMMA TcSettles ==
  ASSUME SettledInv, Idle, NEW p \in Port, timer[p].tcWhile > 0
  PROVE  ctl[p].role \in SendsRole
<1>1. TopochNext(p) = Stay /\ TcRight(p) /\ timer[p] \in Timers
  BY NothingToDo DEF SettledInv, PortRight, TypeOK, StateOK
<1>2. At("topoch", p) \notin {BEGIN, "INIT", "INACTIVE"}
  BY <1>1 DEF TcRight
<1> QED BY <1>1, <1>2 DEF TopochNext, Stay, BEGIN

\* The port in the root role is the root port.
LEMMA RootPortSettles ==
  ASSUME SettledInv, Idle, NEW b \in Bridge
  PROVE  {p \in Ports[b] : ctl[p].role = "Root"}
           = {p \in Ports[b] : br[b].rootPortId = PortId[p]}
<1>1. ASSUME NEW p \in Ports[b]
      PROVE  ctl[p].role = "Root" <=> br[b].rootPortId = PortId[p]
  <2>1. p \in Port /\ Owner[p] = b
    BY BridgePorts
  <2> QED BY <2>1, RoleSettles, SelectionSettles DEF SettledInv, PortRight, SelectionRight
<1> QED BY <1>1

-----------------------------------------------------------------------------
(***************************************************************************)
(* The theorems: what holds between updates, in every network.             *)
(***************************************************************************)
\* A bridge that is not updating has nothing left to do, and every port is
\* right in the middle of an update as well as between updates.
THEOREM SettledInvariant == Spec => []SettledInv
BY InitSettled, NextKeepsSettled, PTL DEF Spec

\* The switch chip learns and forwards only where port role transitions says so.
THEOREM ChipRightlySet == Spec => []ChipFollowsRole
<1>1. SettledInv => ChipFollowsRole
  BY ChipSettles DEF ChipFollowsRole
<1> QED BY <1>1, SettledInvariant, PTL

\* Every update ends with every port in the role selected for it.
THEOREM RolesAreSettled == Spec => []RolesSettled
<1>1. SettledInv => RolesSettled
  BY SelectionSettles, RoleSettles DEF RolesSettled
<1> QED BY <1>1, SettledInvariant, PTL

\* The root port is the one port the bridge has its root from.
THEOREM RootPortIsOne == Spec => []OneRootPort
<1>1. SettledInv => OneRootPort
  BY RootPortSettles DEF OneRootPort
<1> QED BY <1>1, SettledInvariant, PTL

\* No bridge relies on a neighbour it has not heard in time.
THEOREM InformationIsFresh == Spec => []NoStaleInfo
<1>1. SettledInv => NoStaleInfo
  BY NewsSettles DEF NoStaleInfo
<1> QED BY <1>1, SettledInvariant, PTL

\* Only ports that carry traffic tell of topology changes.
THEOREM TcToldByActivePorts == Spec => []TcOnlyWhenActive
<1>1. SettledInv => TcOnlyWhenActive
  BY TcSettles DEF TcOnlyWhenActive
<1> QED BY <1>1, SettledInvariant, PTL
=============================================================================
