--------------------------- MODULE RstpTellProofs ---------------------------
(***************************************************************************)
(* What passes for news between two ports of the network was said by the   *)
(* port at the other end of the link of itself, for every topology and     *)
(* every loss, delay and link change.                                      *)
(*                                                                         *)
(* transmit.c sends in the selected role what the port has kept, and asks  *)
(* for neither: that a port does not send a neighbour's news as its own    *)
(* rests on the order in which _stp_stpm_iterate_machines meets the        *)
(* machines.  A port that relies on a neighbour and has something to send  *)
(* is the root port (TellsRoot): the transmit machine comes before the     *)
(* port information machine, so nothing is left to send when news changes  *)
(* (SentFirst, ReadInSilence, Unread), and the machine of the bridge comes *)
(* before all, so that a role is taken only when it was selected last      *)
(* (SelectedFirst, RootIsBest).                                            *)
(***************************************************************************)
EXTENDS RstpRootProofs

-----------------------------------------------------------------------------
(***************************************************************************)
(* Which machine runs.                                                     *)
(***************************************************************************)
\* Machines of one bridge in list order.
LEMMA ListOrder ==
  ASSUME NEW p \in Port, NEW q \in Port, p = q \/ PortId[q] < PortId[p]
  PROVE  /\ ~ Precedes(PortMachine("info", q), PortMachine("transmit", p))
         /\ \A m \in Machine : m[1] = "rolesel" =>
              \A k \in PortKind : ~ Precedes(PortMachine(k, p), m)
<1>1. PortId[p] \in Nat /\ PortId[q] \in Nat
  BY PortAssumption
<1>2. /\ KindRank["transmit"] = 1 /\ KindRank["info"] = 4
  BY DEF KindRank, PortMachines, PortKind
<1>3. ~ (PortId[q] > PortId[p])
  BY <1>1
<1> QED BY <1>2, <1>3, Kinds DEF Precedes, PortMachine

\* States a machine of a port passes through without a rest.
InfoPass == {"ENABLED", "UPDATE", "RECEIVE", "SUPERIOR", "REPEAT", "AGREEMENT"}
RolePass == RootPass \cup DesgPass \cup {"INIT_PORT"}

\* A machine of p in such a state is the one that runs.
PassRuns(p) ==
  /\ At("info", p) \in InfoPass => cur = PortMachine("info", p)
  /\ p \notin NonStp /\ At("roletrns", p) \in RolePass
       => cur = PortMachine("roletrns", p)

\* It moves on.
LEMMA PassMoves ==
  ASSUME TypeOK, NEW p \in Port, RoleRight(p)
  PROVE  /\ At("info", p) \in InfoPass => InfoNext(p) # Stay
         /\ p \notin NonStp /\ At("roletrns", p) \in RolePass
              => RoletrnsNext(p) # Stay
<1>1. At("info", p) \in InfoPass => InfoNext(p) # Stay
  BY DEF InfoPass, InfoNext, Stay, BEGIN
<1>2. ASSUME p \notin NonStp, At("roletrns", p) \in RolePass
      PROVE  RoletrnsNext(p) # Stay
  <2>1. CASE ctl[p].role # sel[p].selectedRole /\ Settled(p)
    <3>1. sel[p].selectedRole \in PortRole \ {"NonStp"}
      BY <1>2 DEF RoleRight, TypeOK, StateOK, Selection
    <3>2. \/ RoletrnsNext(p) = RoleEntryState(sel[p].selectedRole)
          \/ RoletrnsNext(p) = "INIT_PORT"
      BY <2>1 DEF RoletrnsNext
    <3> QED BY <3>1, <3>2 DEF RoleEntryState, PortRole, BlockedRole, Stay
  <2>2. CASE ~ (ctl[p].role # sel[p].selectedRole /\ Settled(p))
    BY <1>2, <2>2 DEF RoletrnsNext, RolePass, RootPass, DesgPass, Stay
  <2> QED BY <2>1, <2>2
<1> QED BY <1>1, <1>2

\* What a machine of p does next is what its rules say.
LEMMA NextOf ==
  ASSUME NEW p
  PROVE  /\ NextState(PortMachine("transmit", p)) = TransmitNext(p)
         /\ NextState(PortMachine("roletrns", p)) = RoletrnsNext(p)
         /\ NextState(PortMachine("info", p)) = InfoNext(p)
         /\ NextState(PortMachine("edge", p)) = EdgeNext(p)
         /\ \A b : NextState(RoleSelMachine(b)) = RoleSelNext(b)
BY DEF NextState, PortMachine, RoleSelMachine

\* The machines of a port are machines of its bridge.
LEMMA PortMachinesOf ==
  ASSUME NEW p \in Port
  PROVE  /\ Owner[p] \in Bridge /\ p \in Ports[Owner[p]]
         /\ RoleSelMachine(Owner[p]) \in MachinesOf[Owner[p]]
         /\ \A k \in PortKind : PortMachine(k, p) \in MachinesOf[Owner[p]]
         /\ \A b \in Bridge : \A k \in PortKind :
              PortMachine(k, p) \in MachinesOf[b] => b = Owner[p]
<1>1. Owner[p] \in Bridge /\ p \in Ports[Owner[p]]
  BY PortAssumption, BridgePorts
<1>2. \A b \in Bridge : MachinesOf[b] = {RoleSelMachine(b)} \cup (PortKind \X Ports[b])
  BY DEF MachinesOf
<1>3. \A b \in Bridge : \A k \in PortKind :
        PortMachine(k, p) \in MachinesOf[b] => p \in Ports[b]
  BY <1>2, Kinds DEF PortMachine, RoleSelMachine
<1> QED BY <1>1, <1>2, <1>3, BridgePorts DEF PortMachine

\* Between updates, and at the end of one, no machine is in such a state.
LEMMA NoPassAtRest ==
  ASSUME TypeOK, RunsHome, NEW p \in Port, PassRuns(p), RoleRight(p),
         Idle \/ UpdateDone
  PROVE  /\ At("info", p) \notin InfoPass
         /\ p \notin NonStp => At("roletrns", p) \notin RolePass
<1>1. ASSUME NEW k \in {"info", "roletrns"}, cur = PortMachine(k, p),
             NextState(cur) # Stay
      PROVE  FALSE
  <2>1. cur # NoMachine
    BY <1>1 DEF PortMachine, NoMachine
  <2>2. UpdateDone /\ cur \in MachinesOf[Active]
    BY <2>1 DEF RunsHome, Idle
  <2> QED BY <1>1, <2>2 DEF UpdateDone
<1> QED BY <1>1, PassMoves, NextOf DEF PassRuns

\* Both facts are kept by every machine step.
LEMMA MachineKeepsPass ==
  ASSUME TypeOK, RunsHome, MachineStep, NEW p \in Port, PassRuns(p), RoleRight(p)
  PROVE  PassRuns(p)'
<1>1. PICK m \in Chosen(Active) : RunMachine(m, NextState(m))
  BY DEF MachineStep
<1>2. m \in Machine /\ updating # {}
  BY ChosenType DEF MachineStep, TypeOK
<1>3. cur # NoMachine /\ NextState(cur) # Stay => m = cur
  BY <1>2, ChosenFirst
<1>4. cur' = m
  BY <1>1 DEF RunMachine
<1>5. ASSUME NEW k \in {"info", "roletrns"}, ~ (m[1] = k /\ m[2] = p)
      PROVE  At(k, p)' = At(k, p)
  BY <1>1, <1>2, <1>5, Hops, Kinds
<1>6. ASSUME NEW k \in {"info", "roletrns"}, m[1] = k /\ m[2] = p
      PROVE  m = PortMachine(k, p)
  BY <1>2, <1>6, MachineCases, Kinds
<1>7. \A k \in {"info", "roletrns"} : PortMachine(k, p) # NoMachine
  BY DEF PortMachine, NoMachine
<1>8. At("info", p)' \in InfoPass => cur' = PortMachine("info", p)
  BY <1>3, <1>4, <1>5, <1>6, <1>7, PassMoves, NextOf DEF PassRuns
<1>9. p \notin NonStp /\ At("roletrns", p)' \in RolePass
         => cur' = PortMachine("roletrns", p)
  BY <1>3, <1>4, <1>5, <1>6, <1>7, PassMoves, NextOf DEF PassRuns
<1> QED BY <1>8, <1>9 DEF PassRuns, PortMachine

-----------------------------------------------------------------------------
(***************************************************************************)
(* Who writes what the machines below look at.                             *)
(***************************************************************************)
\* Nothing but an event changes what the link is set to, nothing but the edge
\* machine what it waits for.
LEMMA EdgeWriters ==
  ASSUME TypeOK, NEW m \in Machine, NEW s, RunMachine(m, s), NEW q \in Port
  PROVE  /\ phys' = phys
         /\ adapt'[q].adminEnable = adapt[q].adminEnable
         /\ ~ (m[1] = "edge" /\ m[2] = q) =>
              /\ adapt'[q].wasInitBpdu = adapt[q].wasInitBpdu
              /\ timer'[q].lnkWhile = timer[q].lnkWhile
<1> DEFINE Kept == /\ adapt'[q].adminEnable = adapt[q].adminEnable
                   /\ adapt'[q].wasInitBpdu = adapt[q].wasInitBpdu
                   /\ timer'[q].lnkWhile = timer[q].lnkWhile
<1>1. /\ adapt \in [Port -> Adaptation] /\ adapt[q] \in Adaptation
      /\ timer \in [Port -> Timers] /\ timer[q] \in Timers
  BY DEF TypeOK, StateOK
<1>2. phys' = phys
  BY DEF RunMachine, RoleSelEnter, TransmitEnter, SttransEnter, RoletrnsEnter,
         InfoEnter, InfoAged, PcostEnter, EdgeEnter, P2pEnter, MigrateEnter, TopochEnter
<1>3. CASE m[1] = "edge"
  <2>1. EdgeEnter(m[2], s)
    BY <1>3 DEF RunMachine
  <2>2. CASE m[2] # q
    BY <1>1, <1>2, <2>1, <2>2 DEF EdgeEnter
  <2>3. CASE m[2] = q
    <3>1. adapt'[q].adminEnable = adapt[q].adminEnable
      BY <1>1, <2>1, <2>3 DEF EdgeEnter, Adaptation
    <3> QED BY <1>2, <1>3, <2>3, <3>1
  <2> QED BY <2>2, <2>3
<1>4. CASE m[1] = "pcost"
  <2> DEFINE c == AutoPCost(Speed[m[2]])
  <2>1. \/ adapt' = adapt
        \/ adapt' = [adapt EXCEPT ![m[2]].operSpeed = Speed[m[2]],
                                  ![m[2]].usedSpeed = Speed[m[2]],
                                  ![m[2]].operPCost = c]
    BY <1>4 DEF RunMachine, PcostEnter
  <2>2. timer' = timer
    BY <1>4 DEF RunMachine, PcostEnter
  <2> HIDE DEF c
  <2>3. Kept
    BY <1>1, <2>1, <2>2 DEF Adaptation
  <2> QED BY <1>2, <2>3
<1>5. CASE m[1] = "p2p"
  <2>1. P2pEnter(m[2], s)
    BY <1>5 DEF RunMachine
  <2>2. Kept
    BY <1>1, <2>1 DEF P2pEnter, Adaptation
  <2> QED BY <1>2, <2>2
<1>6. CASE m[1] = "migrate"
  <2> DEFINE rstp == s = "SEND_RSTP"
  <2>1. \/ adapt' = adapt
        \/ adapt' = [adapt EXCEPT ![m[2]].initPm = TRUE]
        \/ adapt' = [adapt EXCEPT ![m[2]].initPm = FALSE, ![m[2]].sendRSTP = rstp]
    BY <1>6 DEF RunMachine, MigrateEnter
  <2>2. timer' = timer \/ timer' = [timer EXCEPT ![m[2]].mdelayWhile = MigrateTime]
    BY <1>6 DEF RunMachine, MigrateEnter
  <2> HIDE DEF rstp
  <2>3. timer'[q].lnkWhile = timer[q].lnkWhile
    BY <1>1, <2>2 DEF Timers
  <2>4. /\ adapt'[q].adminEnable = adapt[q].adminEnable
        /\ adapt'[q].wasInitBpdu = adapt[q].wasInitBpdu
    BY <1>1, <2>1 DEF Adaptation
  <2> QED BY <1>2, <2>3, <2>4
<1>7. CASE m[1] \in {"transmit", "roletrns", "info", "topoch"}
  <2>1. adapt' = adapt
    BY <1>7 DEF RunMachine, TransmitEnter, RoletrnsEnter, InfoEnter, InfoAged, TopochEnter
  <2> DEFINE p == m[2]
             Wrote(n) == \/ timer' = [timer EXCEPT ![p].rcvdInfoWhile = n]
                         \/ timer' = [timer EXCEPT ![p].tcWhile = n]
                         \/ timer' = [timer EXCEPT ![p].helloWhen = n]
                         \/ timer' = [timer EXCEPT ![p].txCount = n]
                         \/ timer' = [timer EXCEPT ![p].helloWhen = 0, ![p].txCount = n]
                         \/ timer' = [timer EXCEPT ![p].rrWhile = n, ![p].fdWhile = n,
                                                   ![p].rbWhile = 0]
                         \/ timer' = [timer EXCEPT ![p].fdWhile = n, ![p].rrWhile = 0]
                         \/ timer' = [timer EXCEPT ![p].rbWhile = n]
                         \/ timer' = [timer EXCEPT ![p].rrWhile = n]
                         \/ timer' = [timer EXCEPT ![p].fdWhile = n]
  <2>2. timer' = timer \/ \E n : Wrote(n)
    <3>1. CASE m[1] = "transmit"
      <4>1. TransmitEnter(m[2], s)
        BY <3>1 DEF RunMachine
      <4>2. timer' = [timer EXCEPT ![m[2]].txCount = @ + 1]
              => timer' = [timer EXCEPT ![m[2]].txCount = timer[m[2]].txCount + 1]
        OBVIOUS
      <4> QED BY <4>1, <4>2 DEF TransmitEnter
    <3>2. CASE m[1] = "roletrns"
      <4>1. RoletrnsEnter(m[2], s)
        BY <3>2 DEF RunMachine
      <4> QED BY <4>1 DEF RoletrnsEnter
    <3>3. CASE m[1] = "info"
      <4>1. InfoEnter(m[2], s)
        BY <3>3 DEF RunMachine
      <4> QED BY <4>1 DEF InfoEnter, InfoAged, InfoDisabled, InfoReceive, InfoSuperior, InfoUpdate
    <3>4. CASE m[1] = "topoch"
      <4>1. TopochEnter(m[2], s)
        BY <3>4 DEF RunMachine
      <4> QED BY <4>1 DEF TopochEnter, TopochInit
    <3> QED BY <1>7, <3>1, <3>2, <3>3, <3>4
  <2>3. ASSUME NEW n, Wrote(n)
        PROVE  timer'[q].lnkWhile = timer[q].lnkWhile
    <3> HIDE DEF p
    <3> QED BY <1>1, <2>3 DEF Timers
  <2>4. timer'[q].lnkWhile = timer[q].lnkWhile
    BY <2>2, <2>3
  <2> QED BY <1>2, <2>1, <2>4
<1>8. CASE m[1] \in {"rolesel", "sttrans"}
  BY <1>2, <1>8 DEF RunMachine, RoleSelEnter, SttransEnter
<1> QED BY <1>3, <1>4, <1>5, <1>6, <1>7, <1>8, MachineCases, Kinds

\* Only port information reads a frame.
LEMMA ReadWriter ==
  ASSUME TypeOK, NEW m \in Machine, NEW s, RunMachine(m, s), NEW q \in Port
  PROVE  /\ rcv'[q].rcvdBpdu => rcv[q].rcvdBpdu
         /\ ~ (m[1] = "info" /\ m[2] = q) => rcv'[q].rcvdBpdu = rcv[q].rcvdBpdu
<1>1. rcv \in [Port -> Reception] /\ rcv[q] \in Reception
  BY DEF TypeOK, StateOK
<1>2. CASE m[1] = "info"
  <2>1. InfoEnter(m[2], s)
    BY <1>2 DEF RunMachine
  <2>2. CASE rcv' = rcv
    BY <2>2
  <2>3. CASE InfoDisabled(m[2])
    BY <1>1, <1>2, <2>3 DEF InfoDisabled, Reception
  <2>4. CASE InfoReceive(m[2])
    <3>1. m[2] # q => rcv'[q] = rcv[q]
      BY <1>1, <2>4 DEF InfoReceive
    <3>2. m[2] = q => ~ rcv'[q].rcvdBpdu
      BY <1>1, <2>4 DEF InfoReceive, Reception
    <3> QED BY <1>2, <3>1, <3>2
  <2> QED BY <2>1, <2>2, <2>3, <2>4 DEF InfoEnter, InfoAged, InfoSuperior, InfoUpdate
<1>3. CASE m[1] = "migrate"
  BY <1>1, <1>3 DEF RunMachine, MigrateEnter, Reception
<1>4. CASE m[1] \notin {"info", "migrate"}
  BY <1>4 DEF RunMachine, RoleSelEnter, TransmitEnter, SttransEnter, RoletrnsEnter,
              PcostEnter, EdgeEnter, P2pEnter, TopochEnter
<1> QED BY <1>2, <1>3, <1>4

\* Port transmit has something to do for p.
Loud(p) == TransmitNext(p) # Stay

\* Only port information and port role transitions give it something to do,
\* the former when it takes over what the bridge says of the root.
LEMMA LoudWriters ==
  ASSUME TypeOK, NEW m \in Machine, NEW s, RunMachine(m, s), NEW q \in Port,
         ~ Loud(q), m # PortMachine("transmit", q),
         ~ (m[1] = "roletrns" /\ m[2] = q), ~ (m[1] = "info" /\ m[2] = q /\ s = "UPDATE")
  PROVE  ~ Loud(q)'
<1>1. /\ ctl \in [Port -> Control] /\ ctl[q] \in Control
      /\ timer \in [Port -> Timers] /\ timer[q] \in Timers
  BY DEF TypeOK, StateOK
<1>2. ~ (m[1] = "transmit" /\ m[2] = q)
  BY MachineCases, Kinds
<1>3. At("transmit", q)' = At("transmit", q)
  BY <1>2, Hops, Kinds
<1>4. ctl'[q].role = ctl[q].role \/ ctl'[q].role = "NonStp"
  BY DutyWriter DEF DutyKept, TakenOut
<1>5. timer'[q].helloWhen = timer[q].helloWhen /\ timer'[q].txCount = timer[q].txCount
  <2> DEFINE p == m[2]
             Wrote(n) == \/ timer' = [timer EXCEPT ![p].rcvdInfoWhile = n]
                         \/ timer' = [timer EXCEPT ![p].tcWhile = n]
                         \/ timer' = [timer EXCEPT ![p].lnkWhile = n]
                         \/ timer' = [timer EXCEPT ![p].mdelayWhile = n]
                         \/ timer' = [timer EXCEPT ![p].rrWhile = n, ![p].fdWhile = n,
                                                   ![p].rbWhile = 0]
                         \/ timer' = [timer EXCEPT ![p].fdWhile = n, ![p].rrWhile = 0]
                         \/ timer' = [timer EXCEPT ![p].rbWhile = n]
                         \/ timer' = [timer EXCEPT ![p].rrWhile = n]
                         \/ timer' = [timer EXCEPT ![p].fdWhile = n]
  <2>1. CASE m[1] = "transmit"
    <3>1. TransmitEnter(m[2], s) /\ m[2] # q
      BY <1>2, <2>1 DEF RunMachine
    <3> QED BY <1>1, <3>1 DEF TransmitEnter
  <2>2. CASE m[1] # "transmit"
    <3>1. timer' = timer \/ \E n : Wrote(n)
      <4>1. CASE m[1] = "roletrns"
        <5>1. RoletrnsEnter(m[2], s)
          BY <4>1 DEF RunMachine
        <5> QED BY <5>1 DEF RoletrnsEnter
      <4>2. CASE m[1] = "info"
        <5>1. InfoEnter(m[2], s)
          BY <4>2 DEF RunMachine
        <5> QED BY <5>1 DEF InfoEnter, InfoAged, InfoDisabled, InfoReceive, InfoSuperior, InfoUpdate
      <4>3. CASE m[1] = "topoch"
        <5>1. TopochEnter(m[2], s)
          BY <4>3 DEF RunMachine
        <5> QED BY <5>1 DEF TopochEnter, TopochInit
      <4>4. CASE m[1] = "edge"
        <5>1. EdgeEnter(m[2], s)
          BY <4>4 DEF RunMachine
        <5> QED BY <5>1 DEF EdgeEnter
      <4>5. CASE m[1] = "migrate"
        <5>1. MigrateEnter(m[2], s)
          BY <4>5 DEF RunMachine
        <5> QED BY <5>1 DEF MigrateEnter
      <4>6. CASE m[1] \in {"rolesel", "sttrans", "pcost", "p2p"}
        BY <4>6 DEF RunMachine, RoleSelEnter, SttransEnter, PcostEnter, P2pEnter
      <4> QED BY <2>2, <4>1, <4>2, <4>3, <4>4, <4>5, <4>6, MachineCases, Kinds
    <3>2. ASSUME NEW n, Wrote(n)
          PROVE  timer'[q].helloWhen = timer[q].helloWhen /\ timer'[q].txCount = timer[q].txCount
      <4> HIDE DEF p
      <4> QED BY <1>1, <3>2 DEF Timers
    <3> QED BY <3>1, <3>2
  <2> QED BY <2>1, <2>2
<1>6. ctl'[q].newInfo => ctl[q].newInfo
  <2>1. CASE m[1] = "transmit"
    <3>1. TransmitEnter(m[2], s) /\ m[2] # q
      BY <1>2, <2>1 DEF RunMachine
    <3> QED BY <1>1, <3>1 DEF TransmitEnter
  <2>2. CASE m[1] = "roletrns"
    <3>1. RoletrnsEnter(m[2], s) /\ m[2] # q
      BY <2>2 DEF RunMachine
    <3>2. CASE s = "ROOT_PROPOSED"
      <4> DEFINE x == ctl[q].sync \/ Owner[q] = Owner[m[2]]
                 y == ctl[q].proposed /\ q # m[2]
      <4>1. ctl'[q] = [ctl[q] EXCEPT !.sync = x, !.proposed = y]
        BY <3>1, <3>2 DEF RoletrnsEnter
      <4> HIDE DEF x, y
      <4> QED BY <1>1, <4>1 DEF Control
    <3>3. CASE s = "REROOT"
      <4> DEFINE x == ctl[q].reRoot \/ Owner[q] = Owner[m[2]]
      <4>1. ctl'[q] = [ctl[q] EXCEPT !.reRoot = x]
        BY <3>1, <3>3 DEF RoletrnsEnter
      <4> HIDE DEF x
      <4> QED BY <1>1, <4>1 DEF Control
    <3>4. CASE s \notin {"ROOT_PROPOSED", "REROOT"}
      <4>1. ctl'[q] = ctl[q]
        BY <1>1, <3>1, <3>4 DEF RoletrnsEnter, BlockPort
      <4> QED BY <4>1
    <3> QED BY <3>2, <3>3, <3>4
  <2>3. CASE m[1] = "info"
    <3>1. InfoEnter(m[2], s)
      BY <2>3 DEF RunMachine
    <3>2. CASE m[2] # q
      <4>1. ctl'[q] = ctl[q]
        BY <1>1, <3>1, <3>2
           DEF InfoEnter, InfoAged, InfoDisabled, InfoReceive, InfoSuperior, InfoUpdate
      <4> QED BY <4>1
    <3>3. CASE m[2] = q
      <4> DEFINE proposed == RecordProposed(q)
      <4>1. \/ ctl' = ctl
            \/ ctl' = [ctl EXCEPT ![q].proposing = FALSE, ![q].agreed = FALSE,
                                  ![q].proposed = FALSE]
            \/ ctl' = [ctl EXCEPT ![q].agreed = FALSE, ![q].synced = FALSE,
                                  ![q].proposing = FALSE, ![q].proposed = proposed]
            \/ ctl' = [ctl EXCEPT ![q].proposed = proposed]
            \/ ctl' = [ctl EXCEPT ![q].agreed = TRUE, ![q].proposing = FALSE]
        BY <2>3, <3>1, <3>3 DEF InfoEnter, InfoAged, InfoDisabled, InfoReceive, InfoSuperior
      <4> HIDE DEF proposed
      <4> QED BY <1>1, <4>1 DEF Control
    <3> QED BY <3>2, <3>3
  <2>4. CASE m[1] = "rolesel"
    <3>1. RoleSelEnter(m[2])
      BY <2>4 DEF RunMachine
    <3>2. \/ ctl'[q] = ctl[q]
          \/ ctl'[q] = [ctl[q] EXCEPT !.role = "NonStp", !.learn = TRUE, !.forward = TRUE]
      BY <3>1 DEF RoleSelEnter, UpdtRolesBridge
    <3> QED BY <1>1, <3>2 DEF Control
  <2>5. CASE m[1] \notin {"transmit", "roletrns", "info", "rolesel"}
    BY <2>5 DEF RunMachine, SttransEnter, PcostEnter, EdgeEnter, P2pEnter, MigrateEnter,
                TopochEnter
  <2> QED BY <2>1, <2>2, <2>3, <2>4, <2>5
<1>7. /\ At("transmit", q) = "IDLE" /\ timer[q].helloWhen # 0
      /\ CanSend(q) => ctl[q].role \notin SendsRole
  BY DEF Loud, TransmitNext, Stay
<1>8. CanSend(q)' => ctl[q].newInfo /\ timer[q].txCount < TxHoldCount
  BY <1>5, <1>6 DEF CanSend
<1>9. CanSend(q)' => ctl'[q].role \notin SendsRole
  BY <1>4, <1>7, <1>8 DEF CanSend, SendsRole
<1>10. TransmitNext(q)' = Stay
  BY <1>3, <1>5, <1>7, <1>9 DEF TransmitNext, BEGIN
<1> QED BY <1>10 DEF Loud, Stay

-----------------------------------------------------------------------------
(***************************************************************************)
(* Port information, transition by transition.                             *)
(***************************************************************************)
\* Machine m runs.
Moves(m) ==
  /\ updating # {} /\ updating' = updating
  /\ m \in Chosen(Active)
  /\ RunMachine(m, NextState(m))

LEMMA OneMoves ==
  ASSUME MachineStep
  PROVE  \E m : Moves(m)
BY DEF MachineStep, Moves

LEMMA MoveFacts ==
  ASSUME TypeOK, RunsHome, NEW m, Moves(m)
  PROVE  /\ m \in Machine /\ Active \in Bridge /\ m \in MachinesOf[Active]
         /\ NextState(m) # Stay /\ NextState(m) # BEGIN
         /\ RunMachine(m, NextState(m)) /\ cur' = m /\ Active' = Active
         /\ \A q \in Port : \A k \in PortKind :
              At(k, q)' = IF m[1] = k /\ m[2] = q THEN NextState(m) ELSE At(k, q)
         /\ \A q \in Port : \A k \in PortKind :
              m[1] = k /\ m[2] = q => m = PortMachine(k, q) /\ Owner[q] = Active
<1>1. m \in Machine /\ NextState(m) # Stay
  BY ChosenType DEF Moves, TypeOK
<1>2. NextState(m) # BEGIN
  BY <1>1, NextStateType
<1>3. Active \in Bridge /\ m \in MachinesOf[Active]
  BY ChosenFirst DEF Moves
<1>4. RunMachine(m, NextState(m)) /\ cur' = m /\ Active' = Active
  BY DEF Moves, RunMachine, Active
<1>5. \A q \in Port : \A k \in PortKind :
        At(k, q)' = IF m[1] = k /\ m[2] = q THEN NextState(m) ELSE At(k, q)
  BY <1>1, <1>4, Hops
<1>6. \A q \in Port : \A k \in PortKind :
        m[1] = k /\ m[2] = q => m = PortMachine(k, q) /\ Owner[q] = Active
  <2> SUFFICES ASSUME NEW q \in Port, NEW k \in PortKind, m[1] = k /\ m[2] = q
               PROVE  m = PortMachine(k, q) /\ Owner[q] = Active
    OBVIOUS
  <2>1. m = PortMachine(k, q)
    BY <1>1, MachineCases, Kinds
  <2> QED BY <1>3, <2>1, PortMachinesOf
<1> QED BY <1>1, <1>2, <1>3, <1>4, <1>5, <1>6

\* From where port information goes to a state, and when.
LEMMA InfoGoes ==
  ASSUME NEW p, InfoNext(p) # Stay
  PROVE  LET x == At("info", p)
             s == InfoNext(p)
         IN  /\ s \in {"DISABLED", "ENABLED", "AGED", "UPDATE", "RECEIVE", "SUPERIOR",
                       "REPEAT", "AGREEMENT", "CURRENT"}
             /\ s = "DISABLED" => \/ x \in {BEGIN, "DISABLED"}
                                  \/ ~ adapt[p].portEnabled /\ prio[p].infoIs # "Disabled"
             /\ s # "DISABLED" => adapt[p].portEnabled \/ prio[p].infoIs = "Disabled"
             /\ s = "ENABLED"  => x = "DISABLED" /\ adapt[p].portEnabled
             /\ s = "AGED"     => x = "ENABLED" \/ (x = "CURRENT" /\ InfoExpired(p))
             /\ s = "UPDATE"   => x \in {"AGED", "CURRENT"} /\ sel[p].updtInfo
             /\ s = "RECEIVE"  => x = "CURRENT" /\ rcv[p].rcvdBpdu
             /\ s = "SUPERIOR" => x = "RECEIVE" /\ rcv[p].rcvdMsg = "Superior"
             /\ s = "REPEAT"   => x = "RECEIVE" /\ rcv[p].rcvdMsg = "Repeated"
             /\ s = "AGREEMENT" => x = "RECEIVE"
             /\ s = "CURRENT"  => x \notin {BEGIN, "DISABLED", "ENABLED", "AGED", "CURRENT"}
BY DEF InfoNext, Stay, BEGIN

\* What it writes when it enters it.
LEMMA InfoWrites ==
  ASSUME TypeOK, NEW p \in Port, NEW s, InfoEnter(p, s)
  PROVE  /\ adapt' = adapt /\ br' = br /\ wire' = wire /\ phys' = phys
         /\ prio'[p].infoIs = CASE s = "DISABLED" -> "Disabled"
                                [] s = "AGED"     -> "Aged"
                                [] s = "UPDATE"   -> "Mine"
                                [] s = "SUPERIOR" -> "Received"
                                [] OTHER          -> prio[p].infoIs
         /\ CASE s \in {"ENABLED", "UPDATE"} ->
                   /\ prio'[p].portPrio = prio[p].designPrio
                   /\ prio'[p].portTimes = prio[p].designTimes
              [] s = "SUPERIOR" -> /\ prio'[p].portPrio = rcv[p].msg.vec
                                   /\ prio'[p].portTimes = rcv[p].msg.times
              [] OTHER -> /\ prio'[p].portPrio = prio[p].portPrio
                          /\ prio'[p].portTimes = prio[p].portTimes
         /\ sel'[p].selectedRole = sel[p].selectedRole
         /\ IF s \in {"DISABLED", "AGED", "SUPERIOR"} THEN sel'[p].reselect
            ELSE sel'[p].reselect = sel[p].reselect
         /\ s \notin {"DISABLED", "UPDATE"} => sel'[p].updtInfo = sel[p].updtInfo
         /\ rcv'[p].msg = rcv[p].msg
         /\ rcv'[p].rcvdMsg = IF s = "RECEIVE" THEN RcvBpdu(p) ELSE rcv[p].rcvdMsg
<1>1. /\ prio \in [Port -> Information] /\ prio[p] \in Information
      /\ sel \in [Port -> Selection] /\ sel[p] \in Selection
      /\ rcv \in [Port -> Reception] /\ rcv[p] \in Reception
  BY DEF TypeOK, StateOK
<1>2. adapt' = adapt /\ br' = br /\ wire' = wire /\ phys' = phys
  BY DEF InfoEnter, InfoAged
<1>3. CASE s = "DISABLED"
  <2>1. /\ prio' = [prio EXCEPT ![p].infoIs = "Disabled"]
        /\ rcv' = [rcv EXCEPT ![p].rcvdBpdu = FALSE, ![p].rcvdRSTP = FALSE,
                              ![p].rcvdSTP = FALSE]
        /\ sel' = [sel EXCEPT ![p].updtInfo = FALSE, ![p].reselect = TRUE,
                              ![p].selected = FALSE]
    BY <1>3 DEF InfoEnter, InfoAged, InfoDisabled
  <2> QED BY <1>1, <1>2, <1>3, <2>1 DEF Information, Selection, Reception
<1>4. CASE s = "AGED"
  <2>1. /\ prio' = [prio EXCEPT ![p].infoIs = "Aged"] /\ rcv' = rcv
        /\ sel' = [sel EXCEPT ![p].reselect = TRUE, ![p].selected = FALSE]
    BY <1>4 DEF InfoEnter, InfoAged
  <2> QED BY <1>1, <1>2, <1>4, <2>1 DEF Information, Selection
<1>5. CASE s = "SUPERIOR"
  <2>1. /\ prio' = [prio EXCEPT ![p].portPrio = rcv[p].msg.vec,
                                ![p].portTimes = rcv[p].msg.times,
                                ![p].infoIs = "Received"]
        /\ sel' = [sel EXCEPT ![p].reselect = TRUE, ![p].selected = FALSE]
        /\ rcv' = rcv
    BY <1>5 DEF InfoEnter, InfoAged, InfoSuperior
  <2> QED BY <1>1, <1>2, <1>5, <2>1 DEF Information, Selection
<1>6. CASE s = "UPDATE"
  <2>1. /\ prio' = [prio EXCEPT ![p].portPrio = prio[p].designPrio,
                                ![p].portTimes = prio[p].designTimes,
                                ![p].infoIs = "Mine"]
        /\ sel' = [sel EXCEPT ![p].updtInfo = FALSE]
        /\ rcv' = rcv
    BY <1>6 DEF InfoEnter, InfoAged, InfoUpdate
  <2> QED BY <1>1, <1>2, <1>6, <2>1 DEF Information, Selection
<1>7. CASE s = "ENABLED"
  <2>1. /\ prio' = [prio EXCEPT ![p].portPrio = prio[p].designPrio,
                                ![p].portTimes = prio[p].designTimes]
        /\ sel' = sel /\ rcv' = rcv
    BY <1>7 DEF InfoEnter, InfoAged
  <2> QED BY <1>1, <1>2, <1>7, <2>1 DEF Information
<1>8. CASE s = "RECEIVE"
  <2> DEFINE verdict == RcvBpdu(p)
             version1 == rcv[p].rcvdSTP \/ rcv[p].msg.type \in {"TCN", "Config"}
             version2 == rcv[p].rcvdRSTP \/ rcv[p].msg.type = "RSTP"
  <2>1. /\ prio' = prio /\ sel' = sel
        /\ rcv' = [rcv EXCEPT ![p].rcvdMsg = verdict, ![p].rcvdBpdu = FALSE,
                              ![p].rcvdSTP = version1, ![p].rcvdRSTP = version2]
    BY <1>8 DEF InfoEnter, InfoAged, InfoReceive
  <2> HIDE DEF verdict, version1, version2
  <2>2. rcv'[p].msg = rcv[p].msg /\ rcv'[p].rcvdMsg = verdict
    BY <1>1, <2>1 DEF Reception
  <2> QED BY <1>2, <1>8, <2>1, <2>2 DEF verdict
<1>9. CASE s \in {"CURRENT", "REPEAT", "AGREEMENT"}
  <2>1. prio' = prio /\ sel' = sel /\ rcv' = rcv
    BY <1>9 DEF InfoEnter, InfoAged
  <2> QED BY <1>2, <1>9, <2>1
<1> QED BY <1>3, <1>4, <1>5, <1>6, <1>7, <1>8, <1>9 DEF InfoEnter, InfoAged

\* What the state of port information says of the information, and that of the
\* edge machine of the link.
StateTells(p) ==
  /\ At("info", p) \in {BEGIN, "DISABLED", "ENABLED"} <=> prio[p].infoIs = "Disabled"
  /\ At("info", p) = "AGED" <=> prio[p].infoIs = "Aged"
  /\ At("info", p) = "ENABLED" => adapt[p].portEnabled
  /\ At("edge", p) \in {BEGIN, "DISABLED"} => ~ adapt[p].portEnabled

\* Where the edge machine goes, and what it writes there.
LEMMA EdgeGoes ==
  ASSUME TypeOK, NEW p \in Port, EdgeNext(p) # Stay, EdgeEnter(p, EdgeNext(p))
  PROVE  /\ prio' = prio /\ sel' = sel /\ ctl' = ctl
         /\ EdgeNext(p) \in {"DISABLED", "DETECTED", "DELEAYED", "RESOLVED"}
         /\ EdgeNext(p) = "DISABLED" =>
              /\ ~ adapt'[p].portEnabled
              /\ At("edge", p) = BEGIN \/ ~ adapt[p].adminEnable
         /\ EdgeNext(p) = "DETECTED" => adapt'[p].portEnabled /\ adapt[p].adminEnable
         /\ EdgeNext(p) \notin {"DISABLED", "DETECTED"} =>
              /\ adapt'[p].portEnabled = adapt[p].portEnabled
              /\ At("edge", p) \notin {BEGIN, "DISABLED"}
<1> DEFINE s == EdgeNext(p)
<1>1. adapt \in [Port -> Adaptation] /\ adapt[p] \in Adaptation
  BY DEF TypeOK, StateOK
<1>2. /\ s \in {"DISABLED", "DETECTED", "DELEAYED", "RESOLVED"}
      /\ s = "DISABLED" => At("edge", p) = BEGIN \/ ~ adapt[p].adminEnable
      /\ s = "DETECTED" => adapt[p].adminEnable
      /\ s \notin {"DISABLED", "DETECTED"} => At("edge", p) \notin {BEGIN, "DISABLED"}
  BY DEF EdgeNext, Stay, BEGIN
<1>3. EdgeEnter(p, s) /\ prio' = prio /\ sel' = sel /\ ctl' = ctl
  BY DEF EdgeEnter
<1> HIDE DEF s
<1>4. CASE s = "DISABLED"
  <2>1. ~ adapt'[p].portEnabled
    BY <1>1, <1>3, <1>4 DEF EdgeEnter, Adaptation
  <2> QED BY <1>2, <1>3, <1>4, <2>1 DEF s
<1>5. CASE s = "DETECTED"
  <2>1. adapt'[p].portEnabled
    BY <1>1, <1>3, <1>5 DEF EdgeEnter, Adaptation
  <2> QED BY <1>2, <1>3, <1>5, <2>1 DEF s
<1>6. CASE s \in {"DELEAYED", "RESOLVED"}
  <2> DEFINE edge == IF adapt[p].wasInitBpdu THEN adapt[p].operEdge ELSE p \in AdminEdge
  <2>1. adapt' = adapt \/ adapt' = [adapt EXCEPT ![p].operEdge = edge]
    BY <1>3, <1>6 DEF EdgeEnter
  <2> HIDE DEF edge
  <2>2. adapt'[p].portEnabled = adapt[p].portEnabled
    BY <1>1, <2>1 DEF Adaptation
  <2> QED BY <1>2, <1>3, <1>6, <2>2 DEF s
<1> QED BY <1>2, <1>4, <1>5, <1>6

LEMMA MoveKeepsTells ==
  ASSUME TypeOK, RunsHome, NEW m, Moves(m), NEW q \in Port, PassRuns(q), RoleRight(q),
         StateTells(q)
  PROVE  StateTells(q)'
<1> DEFINE s == NextState(m)
<1>1. /\ m \in Machine /\ s # Stay /\ s # BEGIN /\ RunMachine(m, s)
      /\ \A k \in PortKind :
           At(k, q)' = IF m[1] = k /\ m[2] = q THEN s ELSE At(k, q)
  BY MoveFacts
<1>2. /\ At("info", q)' = IF m[1] = "info" /\ m[2] = q THEN s ELSE At("info", q)
      /\ At("edge", q)' = IF m[1] = "edge" /\ m[2] = q THEN s ELSE At("edge", q)
  BY <1>1, Kinds
<1>3. CASE m[1] = "info" /\ m[2] = q
  <2>1. s = InfoNext(q) /\ InfoEnter(q, s)
    BY <1>1, <1>3 DEF NextState, RunMachine
  <2>2. adapt' = adapt
    BY <2>1, InfoWrites
  <2>3. prio'[q].infoIs = CASE s = "DISABLED" -> "Disabled"
                            [] s = "AGED"     -> "Aged"
                            [] s = "UPDATE"   -> "Mine"
                            [] s = "SUPERIOR" -> "Received"
                            [] OTHER          -> prio[q].infoIs
    BY <2>1, InfoWrites
  <2>4. /\ s \in {"DISABLED", "ENABLED", "AGED", "UPDATE", "RECEIVE", "SUPERIOR",
                  "REPEAT", "AGREEMENT", "CURRENT"}
        /\ s = "ENABLED"  => At("info", q) = "DISABLED" /\ adapt[q].portEnabled
        /\ s \in {"RECEIVE", "REPEAT", "AGREEMENT", "CURRENT"}
             => At("info", q) \notin {BEGIN, "DISABLED", "ENABLED", "AGED"}
    BY <1>1, <2>1, InfoGoes DEF BEGIN
  <2> HIDE DEF s
  <2> QED BY <1>2, <1>3, <2>2, <2>3, <2>4 DEF StateTells, BEGIN
<1>4. CASE ~ (m[1] = "info" /\ m[2] = q)
  <2>1. prio'[q].infoIs = prio[q].infoIs /\ At("info", q)' = At("info", q)
    BY <1>1, <1>2, <1>4, NewsWriter DEF NewsKept
  <2>2. CASE m[1] = "edge" /\ m[2] = q
    <3>1. s = EdgeNext(q) /\ EdgeEnter(q, s)
      BY <1>1, <2>2 DEF NextState, RunMachine
    <3>2. At("info", q) # "ENABLED"
      <4>1. SUFFICES ASSUME At("info", q) = "ENABLED" PROVE FALSE
        OBVIOUS
      <4>2. cur = PortMachine("info", q) /\ NextState(cur) # Stay
        BY <4>1, PassMoves, NextOf DEF PassRuns, InfoPass
      <4>3. m = cur
        BY <4>2, ChosenFirst DEF Moves, PortMachine, NoMachine
      <4> QED BY <2>2, <4>2, <4>3 DEF PortMachine
    <3>3. At("edge", q)' \in {BEGIN, "DISABLED"} => ~ adapt'[q].portEnabled
      BY <1>1, <1>2, <2>2, <3>1, EdgeGoes
    <3> QED BY <2>1, <3>2, <3>3 DEF StateTells
  <2>3. CASE ~ (m[1] = "edge" /\ m[2] = q)
    <3>1. adapt'[q].portEnabled = adapt[q].portEnabled
      BY <1>1, <2>3, AdaptWriters
    <3> QED BY <1>2, <2>1, <2>3, <3>1 DEF StateTells
  <2> QED BY <2>2, <2>3
<1> QED BY <1>3, <1>4

\* A port of the protocol whose link is up is enabled only as it is set to be,
\* and one that is not in use has no role.
LinkRight(p) ==
  p \in phys /\ p \notin NonStp =>
    /\ adapt[p].portEnabled => adapt[p].adminEnable
    /\ ~ adapt[p].portEnabled => prio[p].infoIs = "Disabled"
    /\ prio[p].infoIs = "Disabled" =>
         ctl[p].role = "Disabled" /\ sel[p].selectedRole = "Disabled"

\* A port that does not ask for a new selection has been selected a role that
\* goes with its information.
AskRight(p) ==
  p \notin NonStp =>
    /\ ~ sel[p].reselect =>
         /\ prio[p].infoIs = "Disabled" => sel[p].selectedRole = "Disabled"
         /\ prio[p].infoIs = "Aged" => sel[p].updtInfo
    /\ At("roletrns", p) = "INIT_PORT" => sel[p].selectedRole = "Disabled"

\* What role selection writes.
LEMMA RoleSelWrites ==
  ASSUME TypeOK, NEW m \in Machine, m[1] = "rolesel", NEW s, RunMachine(m, s),
         NEW q \in Port, q \notin NonStp
  PROVE  LET e == Elected(m[2])
         IN  /\ m[2] \in Bridge /\ ctl'[q] = ctl[q] /\ adapt' = adapt
             /\ br' = [br EXCEPT ![m[2]] = e]
             /\ Owner[q] # m[2] => sel'[q] = sel[q]
             /\ Owner[q] = m[2] =>
                  sel'[q] = [selectedRole |-> RoleFor(q, e), selected |-> TRUE,
                             reselect |-> FALSE, updtInfo |-> UpdtInfoFor(q, e)]
<1>1. m[2] \in Bridge /\ RoleSelEnter(m[2])
  BY MachineCases, Kinds DEF RunMachine
<1> QED BY <1>1 DEF RoleSelEnter, UpdtRolesBridge

LEMMA MoveKeepsAsk ==
  ASSUME TypeOK, RunsHome, NEW m, Moves(m), NEW q \in Port, PassRuns(q), RoleRight(q),
         AskRight(q)
  PROVE  AskRight(q)'
<1> SUFFICES ASSUME q \notin NonStp
             PROVE  AskRight(q)'
  BY DEF AskRight
<1> DEFINE s == NextState(m)
<1>1. /\ m \in Machine /\ s # Stay /\ s # BEGIN /\ RunMachine(m, s)
      /\ \A k \in PortKind :
           At(k, q)' = IF m[1] = k /\ m[2] = q THEN s ELSE At(k, q)
  BY MoveFacts
<1>2. At("roletrns", q)' = IF m[1] = "roletrns" /\ m[2] = q THEN s ELSE At("roletrns", q)
  BY <1>1, Kinds
<1>3. ~ (m[1] = "roletrns" /\ m[2] = q) => At("roletrns", q) # "INIT_PORT"
  <2> SUFFICES ASSUME At("roletrns", q) = "INIT_PORT", ~ (m[1] = "roletrns" /\ m[2] = q)
               PROVE  FALSE
    OBVIOUS
  <2>1. cur = PortMachine("roletrns", q) /\ NextState(cur) # Stay
    BY PassMoves, NextOf DEF PassRuns, RolePass
  <2>2. m = cur
    BY <2>1, ChosenFirst DEF Moves, PortMachine, NoMachine
  <2> QED BY <2>1, <2>2 DEF PortMachine
<1>4. CASE m[1] = "rolesel"
  <2> DEFINE e == Elected(m[2])
  <2>1. /\ Owner[q] # m[2] => sel'[q] = sel[q]
        /\ Owner[q] = m[2] =>
             sel'[q] = [selectedRole |-> RoleFor(q, e), selected |-> TRUE,
                        reselect |-> FALSE, updtInfo |-> UpdtInfoFor(q, e)]
    BY <1>1, <1>4, RoleSelWrites
  <2>2. prio'[q].infoIs = prio[q].infoIs
    BY <1>1, <1>4, NewsWriter DEF NewsKept
  <2> HIDE DEF e
  <2>3. /\ prio[q].infoIs = "Disabled" => RoleFor(q, e) = "Disabled"
        /\ prio[q].infoIs = "Aged" => UpdtInfoFor(q, e)
    BY DEF RoleFor, UpdtInfoFor
  <2> QED BY <1>2, <1>3, <1>4, <2>1, <2>2, <2>3 DEF AskRight
<1>5. CASE m[1] = "roletrns" /\ m[2] = q
  <2>1. RoletrnsEnter(q, s) /\ prio' = prio
    BY <1>1, <1>5 DEF RunMachine, RoletrnsEnter
  <2>2. /\ s = "INIT_PORT" => sel'[q].selectedRole = "Disabled"
        /\ s # "INIT_PORT" => sel' = sel
    BY <2>1, RoletrnsRole
  <2>3. s = "INIT_PORT" => sel'[q].reselect
    BY <2>1 DEF RoletrnsEnter, TypeOK, StateOK, Selection
  <2> HIDE DEF s
  <2> QED BY <1>2, <1>5, <2>1, <2>2, <2>3 DEF AskRight
<1>6. CASE m[1] = "info" /\ m[2] = q
  <2>1. s = InfoNext(q) /\ InfoEnter(q, s)
    BY <1>1, <1>6 DEF NextState, RunMachine
  <2>2. /\ prio'[q].infoIs = CASE s = "DISABLED" -> "Disabled"
                                [] s = "AGED"     -> "Aged"
                                [] s = "UPDATE"   -> "Mine"
                                [] s = "SUPERIOR" -> "Received"
                                [] OTHER          -> prio[q].infoIs
        /\ sel'[q].selectedRole = sel[q].selectedRole
        /\ IF s \in {"DISABLED", "AGED", "SUPERIOR"} THEN sel'[q].reselect
            ELSE sel'[q].reselect = sel[q].reselect
        /\ s \notin {"DISABLED", "UPDATE"} => sel'[q].updtInfo = sel[q].updtInfo
    BY <2>1, InfoWrites
  <2> HIDE DEF s
  <2> QED BY <1>2, <1>3, <1>6, <2>2 DEF AskRight
<1>7. CASE ~ (m[1] = "rolesel" \/ (m[1] \in {"info", "roletrns"} /\ m[2] = q))
  <2>1. sel'[q] = sel[q] /\ prio'[q].infoIs = prio[q].infoIs
    BY <1>1, <1>7, SelectionWriters, NewsWriter DEF NewsKept
  <2> QED BY <1>2, <1>3, <1>7, <2>1 DEF AskRight
<1> QED BY <1>4, <1>5, <1>6, <1>7

LEMMA MoveKeepsLink ==
  ASSUME TypeOK, RunsHome, NEW m, Moves(m), NEW q \in Port, RoleRight(q),
         StateTells(q), LinkRight(q)
  PROVE  LinkRight(q)'
<1> DEFINE s == NextState(m)
<1>1. /\ m \in Machine /\ s # Stay /\ s # BEGIN /\ RunMachine(m, s) /\ phys' = phys
      /\ adapt'[q].adminEnable = adapt[q].adminEnable
  BY MoveFacts, EdgeWriters
<1> SUFFICES ASSUME q \notin NonStp, q \in phys
             PROVE  LinkRight(q)'
  BY <1>1 DEF LinkRight
<1>2. ~ (m[1] = "edge" /\ m[2] = q) => adapt'[q].portEnabled = adapt[q].portEnabled
  BY <1>1, AdaptWriters
<1>3. ~ (m[1] = "info" /\ m[2] = q) => prio'[q].infoIs = prio[q].infoIs
  BY <1>1, NewsWriter DEF NewsKept
<1>4. ~ (m[1] = "roletrns" /\ m[2] = q) => ctl'[q].role = ctl[q].role
  BY <1>1, DutyWriter DEF DutyKept, TakenOut
<1>5. CASE m[1] = "rolesel"
  <2> DEFINE e == Elected(m[2])
  <2>1. /\ Owner[q] # m[2] => sel'[q] = sel[q]
        /\ Owner[q] = m[2] =>
             sel'[q] = [selectedRole |-> RoleFor(q, e), selected |-> TRUE,
                        reselect |-> FALSE, updtInfo |-> UpdtInfoFor(q, e)]
    BY <1>1, <1>5, RoleSelWrites
  <2> HIDE DEF e
  <2>2. prio[q].infoIs = "Disabled" => RoleFor(q, e) = "Disabled"
    BY DEF RoleFor
  <2> QED BY <1>1, <1>2, <1>3, <1>4, <1>5, <2>1, <2>2 DEF LinkRight
<1>6. CASE m[1] = "roletrns" /\ m[2] = q
  <2>1. s = RoletrnsNext(q) /\ RoletrnsEnter(q, s)
    BY <1>1, <1>6 DEF NextState, RunMachine
  <2>2. /\ s = "INIT_PORT" => sel'[q].selectedRole = "Disabled"
        /\ s # "INIT_PORT" => sel' = sel
        /\ s = "BLOCK_PORT" => ctl'[q].role = sel[q].selectedRole
        /\ s \notin {"INIT_PORT", "BLOCK_PORT", "ROOT_PORT", "DESIGNATED_PORT"}
             => ctl'[q].role = ctl[q].role
    BY <2>1, RoletrnsRole
  <2>3. s = "INIT_PORT" => ctl'[q].role = "Disabled"
    BY <2>1 DEF RoletrnsEnter, TypeOK, StateOK, Control
  <2>4. sel[q].selectedRole = "Disabled" /\ ctl[q].role = "Disabled"
          => s \notin {"ROOT_PORT", "DESIGNATED_PORT"}
    <3>1. ctl[q].role = "Disabled" => At("roletrns", q) \in IdleStates
      BY DEF RoleRight
    <3> QED BY <1>1, <2>1, <3>1
            DEF RoletrnsNext, IdleStates, BlockState, RootPass, DesgPass, RoleEntryState,
                BlockedRole, BlockedPortNext, Stay, BEGIN
  <2> HIDE DEF s
  <2> QED BY <1>1, <1>2, <1>3, <1>6, <2>2, <2>3, <2>4 DEF LinkRight
<1>7. CASE m[1] = "info" /\ m[2] = q
  <2>1. s = InfoNext(q) /\ InfoEnter(q, s)
    BY <1>1, <1>7 DEF NextState, RunMachine
  <2>2. /\ prio'[q].infoIs = CASE s = "DISABLED" -> "Disabled"
                                [] s = "AGED"     -> "Aged"
                                [] s = "UPDATE"   -> "Mine"
                                [] s = "SUPERIOR" -> "Received"
                                [] OTHER          -> prio[q].infoIs
        /\ sel'[q].selectedRole = sel[q].selectedRole
    BY <2>1, InfoWrites
  <2>3. /\ s = "DISABLED" => \/ At("info", q) \in {BEGIN, "DISABLED"}
                             \/ ~ adapt[q].portEnabled /\ prio[q].infoIs # "Disabled"
        /\ s # "DISABLED" => adapt[q].portEnabled \/ prio[q].infoIs = "Disabled"
        /\ s = "AGED" => At("info", q) \in {"ENABLED", "CURRENT"}
        /\ s = "UPDATE" => At("info", q) \in {"AGED", "CURRENT"}
        /\ s = "SUPERIOR" => At("info", q) = "RECEIVE"
    BY <1>1, <2>1, InfoGoes
  <2>4. s = "DISABLED" => prio[q].infoIs = "Disabled"
    BY <2>3 DEF StateTells, LinkRight
  <2>5. s \in {"AGED", "UPDATE", "SUPERIOR"} => adapt[q].portEnabled
    BY <2>3 DEF StateTells, BEGIN
  <2> HIDE DEF s
  <2> QED BY <1>1, <1>2, <1>4, <1>7, <2>2, <2>4, <2>5 DEF LinkRight
<1>8. CASE m[1] = "edge" /\ m[2] = q
  <2>1. s = EdgeNext(q) /\ EdgeEnter(q, s)
    BY <1>1, <1>8 DEF NextState, RunMachine
  <2>2. /\ prio' = prio /\ sel' = sel /\ ctl' = ctl
        /\ s = "DISABLED" => /\ ~ adapt'[q].portEnabled
                             /\ At("edge", q) = BEGIN \/ ~ adapt[q].adminEnable
        /\ s = "DETECTED" => adapt'[q].portEnabled /\ adapt[q].adminEnable
        /\ s \notin {"DISABLED", "DETECTED"} =>
              adapt'[q].portEnabled = adapt[q].portEnabled
    BY <1>1, <2>1, EdgeGoes
  <2> HIDE DEF s
  <2> QED BY <1>1, <2>2 DEF LinkRight, StateTells
<1>9. CASE ~ (m[1] = "rolesel" \/ (m[1] \in {"info", "roletrns", "edge"} /\ m[2] = q))
  <2>1. sel'[q] = sel[q]
    BY <1>1, <1>9, SelectionWriters
  <2> QED BY <1>1, <1>2, <1>3, <1>4, <1>9, <2>1 DEF LinkRight
<1> QED BY <1>5, <1>6, <1>7, <1>8, <1>9

-----------------------------------------------------------------------------
(***************************************************************************)
(* The root port is the best of those that compete.                        *)
(***************************************************************************)
\* The path through p, and whether it leads to a better root than the bridge.
Path(p) == AddCost(prio[p].portPrio, CableCost[p])

Contends(p) ==
  /\ p \notin NonStp /\ prio[p].infoIs = "Received"
  /\ VecLess(Path(p), OwnPrio(Owner[p]))

\* No port of the bridge leads to the root on a better path.
Best(p) ==
  /\ Contends(p)
  /\ \A r \in Ports[Owner[p]] : Contends(r) => ~ VecLess(Path(r), Path(p))

\* A port of bridge b asks for a new selection.
Asked(b) == \E r \in Ports[b] : sel[r].reselect

RootIsBest(p) ==
  ~ Asked(Owner[p]) /\ br[Owner[p]].rootPortId = PortId[p] => Best(p)

LEMMA PathType ==
  ASSUME TypeOK, NEW p \in Port
  PROVE  Path(p) \in Vector
<1>1. prio[p].portPrio \in Vector
  BY DEF TypeOK, StateOK, Information
<1>2. CableCost[p] \in Nat
  BY CableCostType
<1> QED BY <1>1, <1>2 DEF Path, AddCost, Vector

\* These are the candidates role selection looks at.
LEMMA CandidatesContend ==
  ASSUME TypeOK, NEW p \in Port, CostSet(p)
  PROVE  /\ p \in RootCandidates(Owner[p]) <=> Contends(p)
         /\ Contends(p) => RootPathPrio(p) = Path(p)
<1>1. prio[p].infoIs = "Received" => RootPathPrio(p) = Path(p)
  BY DEF CostSet, InUse, RootPathPrio, Path
<1>2. p \in Ports[Owner[p]]
  BY PortMachinesOf
<1> QED BY <1>1, <1>2 DEF RootCandidates, Contends

\* None of them is too far for its cost to be compared.
LEMMA CandidatesNear ==
  ASSUME RootInv, NEW m, Moves(m), m[1] # "info", NEW b \in Bridge
  PROVE  \A q \in RootCandidates(b) : Near(RootPathPrio(q))
<1>1. /\ TypeOK /\ TimeInv
      /\ \A q \in Port : PrioTold(q) /\ CostSet(q) /\ NewsRight(q)
  BY DEF RootInv, TimeInv, SettledInv, PortRight, PortTold
<1>2. \A q \in Port : ~ TooOld(q)
  BY <1>1, NoneTooOld DEF Moves
<1>3. \A q \in RootCandidates(b) : q \in Port /\ Owner[q] = b
  BY BridgePorts DEF RootCandidates
<1> QED BY <1>1, <1>2, <1>3, CandidateTold

\* It elects the best.
LEMMA ElectedIsBest ==
  ASSUME TypeOK, NEW p \in Port, \A q \in Port : NewsRight(q) /\ CostSet(q),
         \A q \in RootCandidates(Owner[p]) : Near(RootPathPrio(q))
  PROVE  Elected(Owner[p]).rootPortId = PortId[p] <=> Best(p)
<1> DEFINE b == Owner[p]
           C == RootCandidates(b)
<1>1. b \in Bridge /\ PortId[p] # 0 /\ NetOK
  BY PortAssumption DEF TypeOK, NetOK
<1>2. /\ \A q \in Ports[b] : q \in Port /\ Owner[q] = b
      /\ p \in Ports[b]
  BY <1>1, BridgePorts
<1>3. /\ C \subseteq Ports[b]
      /\ \A q \in Ports[b] : /\ q \in C <=> Contends(q)
                             /\ Contends(q) => RootPathPrio(q) = Path(q)
  <2>1. C \subseteq Ports[b]
    BY DEF RootCandidates
  <2> QED BY <1>2, <2>1, CandidatesContend
<1> HIDE DEF C
<1>4. CASE C = {}
  <2>1. Elected(b).rootPortId = 0
    BY <1>4 DEF C, Elected
  <2>2. ~ Contends(p)
    BY <1>2, <1>3, <1>4
  <2> QED BY <1>1, <2>1, <2>2 DEF Best
<1>5. CASE C # {}
  <2>1. PICK q \in C : /\ Elected(b) = ElectedThrough(q)
                       /\ \A r \in C : ~ VecLess(RootPathPrio(r), RootPathPrio(q))
    BY <1>1, <1>5, ElectedBest DEF C
  <2>2. q \in Ports[b] /\ q \in Port /\ Owner[q] = b /\ Contends(q)
    BY <1>2, <1>3
  <2>3. Best(q)
    BY <1>3, <2>1, <2>2 DEF Best
  <2>4. \A r \in Port : Contends(r) => BridgePort(Path(r)) = PortId[r]
    BY DEF Contends, NewsRight, Path, AddCost, BridgePort
  <2>5. Elected(b).rootPortId = PortId[q]
    BY <1>3, <2>1, <2>2, <2>4 DEF ElectedThrough
  <2>6. Best(p) => Path(p) = Path(q)
    BY <1>2, <2>2, <2>3, PathType, VecLessTotal DEF Best
  <2>7. Best(p) => PortId[p] = PortId[q]
    BY <2>2, <2>4, <2>6 DEF Best
  <2>8. PortId[p] = PortId[q] => p = q
    BY <2>2, PortAssumption
  <2> QED BY <2>3, <2>5, <2>7, <2>8
<1> QED BY <1>4, <1>5

\* News of other ports that is lost leaves the best the best.
LEMMA BestStays ==
  ASSUME NEW p \in Port, Best(p), prio'[p].infoIs = prio[p].infoIs,
         \A r \in Ports[Owner[p]] :
           prio'[r].infoIs = "Received" =>
             prio[r].infoIs = "Received" /\ prio'[r].portPrio = prio[r].portPrio
  PROVE  Best(p)'
<1>1. p \in Ports[Owner[p]]
  BY PortMachinesOf
<1>2. \A r \in Ports[Owner[p]] : Contends(r)' => Contends(r) /\ Path(r)' = Path(r)
  BY DEF Contends, Path
<1>3. prio[p].infoIs = "Received"
  BY DEF Best, Contends
<1>4. prio'[p].portPrio = prio[p].portPrio /\ Path(p)' = Path(p)
  BY <1>1, <1>3 DEF Path
<1>5. Contends(p)'
  BY <1>3, <1>4 DEF Best, Contends
<1> QED BY <1>2, <1>4, <1>5 DEF Best

\* A machine other than port information in SUPERIOR only loses news.
LEMMA NewsOnlyLost ==
  ASSUME TypeOK, RunsHome, NEW m, Moves(m), NEW r \in Port, StateTells(r),
         ~ (m[1] = "info" /\ m[2] = r /\ NextState(m) = "SUPERIOR")
  PROVE  prio'[r].infoIs = "Received" =>
           prio[r].infoIs = "Received" /\ prio'[r].portPrio = prio[r].portPrio
<1> DEFINE s == NextState(m)
<1>1. m \in Machine /\ s # Stay /\ RunMachine(m, s)
  BY MoveFacts
<1>2. CASE m[1] = "info" /\ m[2] = r
  <2>1. s = InfoNext(r) /\ InfoEnter(r, s)
    BY <1>1, <1>2 DEF NextState, RunMachine
  <2>2. /\ prio'[r].infoIs = CASE s = "DISABLED" -> "Disabled"
                               [] s = "AGED"     -> "Aged"
                               [] s = "UPDATE"   -> "Mine"
                               [] s = "SUPERIOR" -> "Received"
                               [] OTHER          -> prio[r].infoIs
        /\ s \notin {"ENABLED", "UPDATE", "SUPERIOR"}
             => prio'[r].portPrio = prio[r].portPrio
    BY <2>1, InfoWrites
  <2>3. s = "ENABLED" => At("info", r) = "DISABLED"
    BY <1>1, <2>1, InfoGoes
  <2>4. s # "SUPERIOR"
    BY <1>2
  <2> HIDE DEF s
  <2> QED BY <2>2, <2>3, <2>4 DEF StateTells
<1>3. CASE ~ (m[1] = "info" /\ m[2] = r)
  BY <1>1, <1>3, NewsWriter DEF NewsKept
<1> QED BY <1>2, <1>3

\* A port that asks for a new selection goes on asking until there is one.
LEMMA KeepsAsking ==
  ASSUME TypeOK, NEW m \in Machine, NEW s, RunMachine(m, s), NEW r \in Port,
         m # RoleSelMachine(Owner[r])
  PROVE  /\ br'[Owner[r]] = br[Owner[r]]
         /\ sel[r].reselect => sel'[r].reselect
<1>1. /\ br \in [Bridge -> RootKnown] /\ Owner[r] \in Bridge
      /\ sel \in [Port -> Selection] /\ sel[r] \in Selection
  BY PortAssumption DEF TypeOK, StateOK
<1>2. CASE m[1] = "rolesel"
  <2>1. m[2] \in Bridge /\ m[2] # Owner[r] /\ RoleSelEnter(m[2])
    BY <1>2, MachineCases, Kinds DEF RunMachine
  <2> QED BY <1>1, <2>1 DEF RoleSelEnter, UpdtRolesBridge
<1>3. CASE m[1] = "info" /\ m[2] = r
  <2>1. InfoEnter(r, s)
    BY <1>3 DEF RunMachine
  <2> QED BY <2>1, InfoWrites
<1>4. CASE m[1] = "roletrns" /\ m[2] = r
  <2>1. RoletrnsEnter(r, s)
    BY <1>4 DEF RunMachine
  <2>2. s = "INIT_PORT" => sel'[r].reselect
    BY <1>1, <2>1 DEF RoletrnsEnter, Selection
  <2>3. s # "INIT_PORT" => sel' = sel
    BY <2>1 DEF RoletrnsEnter
  <2>4. br' = br
    BY <2>1 DEF RoletrnsEnter
  <2> QED BY <2>2, <2>3, <2>4
<1>5. CASE m[1] # "rolesel" /\ ~ (m[1] \in {"info", "roletrns"} /\ m[2] = r)
  BY <1>5, SelectionWriters
<1> QED BY <1>2, <1>3, <1>4, <1>5

LEMMA MoveKeepsRootBest ==
  ASSUME TypeOK, RootInv, RunsHome, NEW m, Moves(m),
         \A p \in Port : NewsRight(p) /\ CostSet(p) /\ StateTells(p) /\ StandsRight(p),
         NEW q \in Port, RootIsBest(q)
  PROVE  RootIsBest(q)'
<1> DEFINE s == NextState(m)
           b == Owner[q]
<1> SUFFICES ASSUME ~ Asked(b)', br'[b].rootPortId = PortId[q]
             PROVE  Best(q)'
  BY DEF RootIsBest
<1>1. m \in Machine /\ s # Stay /\ RunMachine(m, s)
  BY MoveFacts
<1>2. b \in Bridge /\ q \in Ports[b] /\ \A r \in Ports[b] : r \in Port /\ Owner[r] = b
  BY PortMachinesOf, BridgePorts
<1>3. \A r \in Ports[b] : ~ sel'[r].reselect
  BY DEF Asked
<1>4. CASE m = RoleSelMachine(b)
  <2>1. m[1] = "rolesel" /\ m[2] = b
    BY <1>4 DEF RoleSelMachine
  <2>2. br'[b] = Elected(b)
    BY <1>1, <1>2, <2>1 DEF RunMachine, RoleSelEnter, UpdtRolesBridge, TypeOK, StateOK
  <2>3. Best(q)
    <3>1. \A r \in RootCandidates(b) : Near(RootPathPrio(r))
      BY <1>2, <2>1, CandidatesNear
    <3> QED BY <2>2, <3>1, ElectedIsBest
  <2>4. \A r \in Ports[b] : prio'[r].infoIs = prio[r].infoIs /\ prio'[r].portPrio = prio[r].portPrio
    BY <1>1, <1>2, <2>1, NewsWriter DEF NewsKept
  <2> QED BY <1>2, <2>3, <2>4, BestStays
<1>5. CASE m # RoleSelMachine(b)
  <2>1. /\ br'[b] = br[b]
        /\ \A r \in Ports[b] : ~ sel[r].reselect
    BY <1>1, <1>2, <1>3, <1>5, KeepsAsking
  <2>2. Best(q)
    BY <2>1 DEF RootIsBest, Asked
  <2>3. \A r \in Ports[b] : ~ (m[1] = "info" /\ m[2] = r /\ s = "SUPERIOR")
    <3> SUFFICES ASSUME NEW r \in Ports[b], m[1] = "info", m[2] = r, s = "SUPERIOR"
                 PROVE  FALSE
      OBVIOUS
    <3>1. InfoEnter(r, s)
      BY <1>1 DEF RunMachine
    <3> QED BY <1>2, <1>3, <3>1, InfoWrites
  <2>4. \A r \in Ports[b] : prio'[r].infoIs = "Received" =>
          prio[r].infoIs = "Received" /\ prio'[r].portPrio = prio[r].portPrio
    BY <1>2, <2>3, NewsOnlyLost
  <2>5. prio'[q].infoIs = prio[q].infoIs
    <3>1. CASE m[1] = "info" /\ m[2] = q
      <4>1. s = InfoNext(q) /\ InfoEnter(q, s)
        BY <1>1, <3>1 DEF NextState, RunMachine
      <4>2. s \notin {"DISABLED", "AGED", "SUPERIOR"}
        BY <1>2, <1>3, <4>1, InfoWrites
      <4>3. ~ sel[q].updtInfo
        BY <1>2, <2>1, <2>2 DEF Best, Contends, StandsRight
      <4>4. s # "UPDATE"
        BY <1>1, <4>1, <4>3, InfoGoes
      <4> QED BY <4>1, <4>2, <4>4, InfoWrites
    <3>2. CASE ~ (m[1] = "info" /\ m[2] = q)
      BY <1>1, <3>2, NewsWriter DEF NewsKept
    <3> QED BY <3>1, <3>2
  <2> QED BY <2>2, <2>4, <2>5, BestStays
<1> QED BY <1>4, <1>5

-----------------------------------------------------------------------------
(***************************************************************************)
(* A frame is read in silence: while one is unread the bridge does nothing *)
(* but what its list has before the port's information, and once it is     *)
(* read no port of the bridge has anything to send.                        *)
(***************************************************************************)
\* Role transitions of p runs when its bridge has no role to select, or when
\* p is being taken out of use.
SelectedFirst(p) ==
  p \notin NonStp /\ cur = PortMachine("roletrns", p)
    => RoleSelNext(Owner[p]) = Stay \/ sel[p].selectedRole = "Disabled"

\* Port information of a port with news runs when the port has nothing to send.
SentFirst(p) ==
  p \notin NonStp /\ cur = PortMachine("info", p) /\ prio[p].infoIs = "Received"
    => ~ Loud(p)

\* No port of the bridge has anything to send when a frame has been read.
ReadInSilence(p) ==
  At("info", p) = "RECEIVE" => \A r \in Ports[Owner[p]] : ~ Loud(r)

\* Port r is at rest but for what role transitions, the cost, the chip and the
\* topology change want of it.
Resting(r) ==
  /\ sel[r].selected /\ ~ sel[r].reselect /\ ~ sel[r].updtInfo
  /\ At("roletrns", r) # BEGIN

\* An unread frame is on a port that is out of use, or all ports are at rest
\* but for that and for what comes before it.
Unread(p) ==
  rcv[p].rcvdBpdu =>
    /\ p \notin NonStp /\ updating = {Owner[p]}
    /\ cur # NoMachine => Precedes(cur, PortMachine("info", p))
    /\ IF prio[p].infoIs = "Disabled"
       THEN ~ adapt[p].portEnabled /\ At("info", p) = "DISABLED"
       ELSE /\ At("info", p) = "CURRENT" /\ adapt[p].portEnabled
            /\ st[RoleSelMachine(Owner[p])] # BEGIN
            /\ \A r \in Ports[Owner[p]] :
                 /\ Resting(r)
                 /\ r # p => InfoNext(r) = Stay /\ EdgeNext(r) = Stay
                 /\ PortId[r] < PortId[p] => ~ Loud(r)

\* Port information reads the frame as soon as it runs.
LEMMA UnreadIsRead ==
  ASSUME TypeOK, NEW p \in Port, Unread(p), rcv[p].rcvdBpdu
  PROVE  /\ InfoNext(p) # Stay
         /\ InfoEnter(p, InfoNext(p)) => ~ rcv'[p].rcvdBpdu
<1>1. rcv \in [Port -> Reception] /\ rcv[p] \in Reception
  BY DEF TypeOK, StateOK
<1>2. CASE prio[p].infoIs = "Disabled"
  <2>1. InfoNext(p) = "DISABLED"
    BY <1>2 DEF Unread, InfoNext, BEGIN
  <2>2. InfoEnter(p, "DISABLED") => ~ rcv'[p].rcvdBpdu
    BY <1>1 DEF InfoEnter, InfoAged, InfoDisabled, Reception
  <2> QED BY <2>1, <2>2 DEF Stay
<1>3. CASE prio[p].infoIs # "Disabled"
  <2>1. p \in Ports[Owner[p]]
    BY PortMachinesOf
  <2>2. /\ At("info", p) = "CURRENT" /\ adapt[p].portEnabled /\ ~ sel[p].updtInfo
    BY <1>3, <2>1 DEF Unread, Resting
  <2>3. InfoNext(p) = "RECEIVE"
    BY <2>2 DEF InfoNext, InfoExpired, BEGIN
  <2>4. InfoEnter(p, "RECEIVE") => InfoReceive(p)
    BY DEF InfoEnter, InfoAged
  <2>5. InfoReceive(p) => ~ rcv'[p].rcvdBpdu
    BY <1>1 DEF InfoReceive, Reception
  <2> QED BY <2>3, <2>4, <2>5 DEF Stay
<1> QED BY <1>2, <1>3

\* Role transitions starts over in BEGIN only.
LEMMA StartsOver ==
  ASSUME NEW p, RoletrnsNext(p) = "INIT_PORT"
  PROVE  At("roletrns", p) = BEGIN
<1>1. /\ BlockedPortNext(p) # "INIT_PORT" /\ RootPortNext(p) # "INIT_PORT"
      /\ DesgPortNext(p) # "INIT_PORT"
  BY DEF BlockedPortNext, RootPortNext, DesgPortNext, Stay
<1>2. RoleEntryState(sel[p].selectedRole) # "INIT_PORT"
  BY DEF RoleEntryState, Stay
<1> QED BY <1>1, <1>2 DEF RoletrnsNext, Stay

\* What runs before an unread frame is read.
LEMMA RunsBeforeRead ==
  ASSUME TypeOK, RunsHome, NEW m, Moves(m), NEW q \in Port, Unread(q),
         rcv'[q].rcvdBpdu
  PROVE  /\ rcv[q].rcvdBpdu /\ Active = Owner[q]
         /\ m # PortMachine("info", q)
         /\ Precedes(m, PortMachine("info", q))
<1> DEFINE i == PortMachine("info", q)
           s == NextState(m)
<1>1. m \in Machine /\ s # Stay /\ RunMachine(m, s) /\ m \in MachinesOf[Active]
  BY MoveFacts
<1>2. rcv[q].rcvdBpdu
  BY <1>1, ReadWriter
<1>3. Active = Owner[q]
  <2>1. updating = {Owner[q]}
    BY <1>2 DEF Unread
  <2> QED BY <2>1, ActiveType DEF TypeOK
<1>4. NextState(i) = InfoNext(q) /\ InfoNext(q) # Stay
  BY <1>2, NextOf, UnreadIsRead
<1>5. m # i
  <2> SUFFICES ASSUME m = i
               PROVE  FALSE
    OBVIOUS
  <2>1. InfoEnter(q, InfoNext(q))
    BY <1>1, <1>4 DEF RunMachine, PortMachine
  <2> QED BY <1>2, <2>1, UnreadIsRead
<1>6. i \in MachinesOf[Active]
  BY <1>3, PortMachinesOf, Kinds
<1>7. CASE m = cur
  <2>1. cur # NoMachine
    BY <1>1, <1>7, NoMachineType
  <2> QED BY <1>2, <1>3, <1>5, <1>7, <2>1 DEF Unread
<1>8. CASE m # cur
  <2>1. ~ Precedes(m, i) => NextState(i) = Stay
    BY <1>5, <1>6, <1>8, ChosenFirst DEF Moves
  <2> QED BY <1>2, <1>3, <1>4, <1>5, <2>1
<1> QED BY <1>7, <1>8

\* A port at rest stays so while others run.
LEMMA RestingStays ==
  ASSUME TypeOK, RunsHome, NEW m, Moves(m), NEW r \in Port, Resting(r),
         m # RoleSelMachine(Owner[r]), m # PortMachine("info", r)
  PROVE  /\ Resting(r)' /\ sel'[r] = sel[r]
         /\ InfoNext(r) = Stay /\ m # PortMachine("edge", r) => InfoNext(r)' = Stay
         /\ EdgeNext(r) = Stay => EdgeNext(r)' = Stay
<1> DEFINE s == NextState(m)
<1>1. /\ m \in Machine /\ s # Stay /\ s # BEGIN /\ RunMachine(m, s)
      /\ \A k \in PortKind :
           At(k, r)' = IF m[1] = k /\ m[2] = r THEN s ELSE At(k, r)
  BY MoveFacts
<1>2. /\ ~ (m[1] = "info" /\ m[2] = r)
      /\ m[1] = "edge" /\ m[2] = r => m = PortMachine("edge", r)
      /\ m[1] = "roletrns" /\ m[2] = r => m = PortMachine("roletrns", r)
  BY <1>1, MachineCases, Kinds
<1>3. sel'[r] = sel[r]
  <2>1. CASE m[1] = "rolesel"
    <3>1. m[2] # Owner[r] /\ RoleSelEnter(m[2])
      BY <1>1, <2>1, MachineCases, Kinds DEF RunMachine
    <3> QED BY <3>1 DEF RoleSelEnter, UpdtRolesBridge
  <2>2. CASE m[1] = "roletrns" /\ m[2] = r
    <3>1. s = RoletrnsNext(r) /\ RoletrnsEnter(r, s)
      BY <1>1, <2>2 DEF NextState, RunMachine
    <3>2. s # "INIT_PORT"
      BY <3>1, StartsOver DEF Resting
    <3> QED BY <3>1, <3>2 DEF RoletrnsEnter
  <2>3. CASE m[1] # "rolesel" /\ ~ (m[1] = "roletrns" /\ m[2] = r)
    BY <1>1, <1>2, <2>3, SelectionWriters
  <2> QED BY <2>1, <2>2, <2>3
<1>4. /\ At("roletrns", r)' = IF m[1] = "roletrns" /\ m[2] = r THEN s ELSE At("roletrns", r)
      /\ At("info", r)' = At("info", r)
      /\ ~ (m[1] = "edge" /\ m[2] = r) => At("edge", r)' = At("edge", r)
  BY <1>1, <1>2, Kinds
<1>5. Resting(r)'
  BY <1>1, <1>3, <1>4 DEF Resting
<1>6. ASSUME InfoNext(r) = Stay, m # PortMachine("edge", r)
      PROVE  InfoNext(r)' = Stay
  <2>1. /\ adapt'[r].portEnabled = adapt[r].portEnabled
        /\ prio'[r].infoIs = prio[r].infoIs /\ rcv'[r].rcvdMsg = rcv[r].rcvdMsg
        /\ rcv'[r].rcvdBpdu = rcv[r].rcvdBpdu
        /\ timer'[r].rcvdInfoWhile = timer[r].rcvdInfoWhile
    BY <1>1, <1>2, <1>6, AdaptWriters, NewsWriter, ReadWriter, TimerWriters DEF NewsKept
  <2>2. InfoExpired(r)' <=> InfoExpired(r)
    BY <1>3, <2>1 DEF InfoExpired
  <2>3. InfoNext(r)' = InfoNext(r)
    BY <1>3, <1>4, <2>1, <2>2 DEF InfoNext
  <2> QED BY <1>6, <2>3 DEF Stay
<1>7. ASSUME EdgeNext(r) = Stay
      PROVE  EdgeNext(r)' = Stay
  <2>1. ~ (m[1] = "edge" /\ m[2] = r)
    BY <1>1, <1>2, <1>7, NextOf
  <2>2. /\ adapt'[r].adminEnable = adapt[r].adminEnable
        /\ adapt'[r].wasInitBpdu = adapt[r].wasInitBpdu
        /\ timer'[r].lnkWhile = timer[r].lnkWhile
    BY <1>1, <2>1, EdgeWriters
  <2>3. EdgeNext(r)' = EdgeNext(r)
    BY <1>4, <2>1, <2>2 DEF EdgeNext
  <2> QED BY <1>7, <2>3 DEF Stay
<1> QED BY <1>3, <1>5, <1>6, <1>7

\* What runs keeps an unread frame unread in order.
LEMMA MoveKeepsUnread ==
  ASSUME TypeOK, RunsHome, NEW m, Moves(m), NEW q \in Port, Unread(q)
  PROVE  Unread(q)'
<1> DEFINE s == NextState(m)
           b == Owner[q]
           i == PortMachine("info", q)
<1> SUFFICES ASSUME rcv'[q].rcvdBpdu
             PROVE  Unread(q)'
  BY DEF Unread
<1>1. rcv[q].rcvdBpdu /\ Active = b /\ m # i /\ Precedes(m, i)
  BY RunsBeforeRead
<1>2. /\ m \in Machine /\ s # Stay /\ s # BEGIN /\ RunMachine(m, s) /\ cur' = m
      /\ m \in MachinesOf[b] /\ b \in Bridge
      /\ \A r \in Port : \A k \in PortKind :
           At(k, r)' = IF m[1] = k /\ m[2] = r THEN s ELSE At(k, r)
  BY <1>1, MoveFacts
<1>3. q \in Ports[b] /\ \A r \in Ports[b] : r \in Port /\ Owner[r] = b
  BY <1>2, PortMachinesOf, BridgePorts
<1>4. ~ (m[1] = "info" /\ m[2] = q) /\ ~ (m[1] = "edge" /\ m[2] = q)
  <2>1. KindRank["edge"] = 6 /\ KindRank["info"] = 4
    BY DEF KindRank, PortMachines, PortKind
  <2>2. PortId[q] \in Nat
    BY PortAssumption
  <2>3. ~ Precedes(PortMachine("edge", q), i)
    BY <2>1, <2>2 DEF Precedes, PortMachine
  <2> QED BY <1>1, <1>2, <2>3, MachineCases, Kinds
<1>5. /\ prio'[q].infoIs = prio[q].infoIs /\ adapt'[q].portEnabled = adapt[q].portEnabled
      /\ At("info", q)' = At("info", q)
  BY <1>2, <1>4, NewsWriter, AdaptWriters, Kinds DEF NewsKept
<1>6. CASE prio[q].infoIs = "Disabled"
  BY <1>1, <1>2, <1>5, <1>6 DEF Unread, Moves
<1>7. CASE prio[q].infoIs # "Disabled"
  <2>1. /\ st[RoleSelMachine(b)] # BEGIN
        /\ \A r \in Ports[b] :
             /\ Resting(r)
             /\ r # q => InfoNext(r) = Stay /\ EdgeNext(r) = Stay
             /\ PortId[r] < PortId[q] => ~ Loud(r)
    BY <1>1, <1>7 DEF Unread
  <2>2. RoleSelNext(b) = Stay
    BY <2>1 DEF RoleSelNext, Resting
  <2>3. m # RoleSelMachine(b) /\ m[1] # "rolesel"
    BY <1>2, <2>2, NextOf, MachinesOfCases, Kinds
  <2>4. \A r \in Ports[b] : r # q => m # PortMachine("info", r) /\ m # PortMachine("edge", r)
    BY <1>2, <2>1, NextOf
  <2>5. \A r \in Ports[b] : /\ Resting(r)'
                            /\ r # q => InfoNext(r)' = Stay /\ EdgeNext(r)' = Stay
    BY <1>1, <1>3, <2>1, <2>3, <2>4, RestingStays
  <2>6. \A r \in Ports[b] : PortId[r] < PortId[q] => ~ Loud(r)'
    <3> SUFFICES ASSUME NEW r \in Ports[b], PortId[r] < PortId[q]
                 PROVE  ~ Loud(r)'
      OBVIOUS
    <3>1. r \in Port /\ PortId[r] \in Nat /\ PortId[q] \in Nat
      BY <1>3, PortAssumption
    <3>2. m[2] # r
      BY <1>1, <2>3, <3>1 DEF Precedes, PortMachine
    <3>3. m # PortMachine("transmit", r)
      BY <3>2 DEF PortMachine
    <3> QED BY <1>2, <2>1, <3>1, <3>2, <3>3, LoudWriters
  <2>7. st'[RoleSelMachine(b)] # BEGIN
    <3>1. st' = [st EXCEPT ![m] = s]
      BY <1>2 DEF RunMachine
    <3> QED BY <2>1, <2>3, <3>1
  <2> QED BY <1>1, <1>2, <1>5, <1>7, <2>1, <2>5, <2>6, <2>7 DEF Unread, Moves
<1> QED BY <1>6, <1>7

LEMMA MoveKeepsSelectedFirst ==
  ASSUME TypeOK, RunsHome, NEW m, Moves(m), NEW q \in Port, SelectedFirst(q)
  PROVE  SelectedFirst(q)'
<1> DEFINE s == NextState(m)
           b == Owner[q]
           r == RoleSelMachine(b)
<1> SUFFICES ASSUME q \notin NonStp, m = PortMachine("roletrns", q),
                    sel'[q].selectedRole # "Disabled"
             PROVE  RoleSelNext(b)' = Stay
  BY MoveFacts DEF SelectedFirst, Stay
<1>1. /\ m \in Machine /\ s # Stay /\ RunMachine(m, s) /\ m[1] = "roletrns" /\ m[2] = q
      /\ b = Active /\ s = RoletrnsNext(q)
  <2>1. m[1] = "roletrns" /\ m[2] = q /\ "roletrns" \in PortKind
    BY Kinds DEF PortMachine
  <2>2. s = RoletrnsNext(q)
    BY NextOf
  <2> QED BY <2>1, <2>2, MoveFacts
<1>2. RoletrnsEnter(q, s)
  BY <1>1 DEF RunMachine
<1>3. s # "INIT_PORT" /\ sel' = sel
  BY <1>2, RoletrnsRole
<1>4. st'[r] = st[r]
  <2>1. st' = [st EXCEPT ![m] = s] /\ m # r
    BY <1>1 DEF RunMachine, RoleSelMachine
  <2> QED BY <2>1
<1>5. RoleSelNext(b) = Stay
  <2>1. CASE m = cur
    BY <1>3, <2>1 DEF SelectedFirst
  <2>2. CASE m # cur
    <3>1. r \in MachinesOf[Active] /\ r \in Machine /\ r[1] = "rolesel" /\ r # m
      BY <1>1, PortMachinesOf DEF RoleSelMachine, Machine
    <3>2. ~ Precedes(m, r)
      BY <3>1, ListOrder, Kinds
    <3> QED BY <2>2, <3>1, <3>2, ChosenFirst, NextOf DEF Moves
  <2> QED BY <2>1, <2>2
<1> QED BY <1>3, <1>4, <1>5 DEF RoleSelNext, Stay

\* When port information of p does not go on with what it was at, no machine
\* that comes later in the list can move.
LEMMA InfoLast ==
  ASSUME TypeOK, RunsHome, NEW q \in Port, Moves(PortMachine("info", q)),
         cur # PortMachine("info", q),
         NEW r \in Ports[Owner[q]], r = q \/ PortId[q] < PortId[r]
  PROVE  ~ Loud(r)
<1> DEFINE m == PortMachine("info", q)
           n == PortMachine("transmit", r)
<1>1. Owner[q] = Active /\ r \in Port /\ Owner[r] = Active
  BY MoveFacts, Kinds, PortMachinesOf, BridgePorts DEF PortMachine
<1>2. n \in MachinesOf[Active] /\ n # m
  BY <1>1, PortMachinesOf, Kinds DEF PortMachine
<1>3. ~ Precedes(m, n)
  BY <1>1, ListOrder
<1> QED BY <1>2, <1>3, ChosenFirst, NextOf DEF Moves, Loud

LEMMA MoveKeepsSentFirst ==
  ASSUME TypeOK, RunsHome, NEW m, Moves(m), NEW q \in Port, StateTells(q),
         ReadInSilence(q), SentFirst(q)
  PROVE  SentFirst(q)'
<1> DEFINE s == NextState(m)
<1> SUFFICES ASSUME q \notin NonStp, m = PortMachine("info", q),
                    prio'[q].infoIs = "Received"
             PROVE  ~ Loud(q)'
  BY MoveFacts DEF SentFirst
<1>1. /\ m \in Machine /\ s # Stay /\ RunMachine(m, s) /\ m[1] = "info" /\ m[2] = q
      /\ s = InfoNext(q) /\ q \in Ports[Owner[q]]
  BY MoveFacts, NextOf, PortMachinesOf DEF PortMachine
<1>2. InfoEnter(q, s)
  BY <1>1 DEF RunMachine
<1>3. s # "UPDATE" /\ (s = "SUPERIOR" \/ prio[q].infoIs = "Received")
  BY <1>2, InfoWrites
<1>4. ~ Loud(q)
  <2>1. CASE s = "SUPERIOR"
    BY <1>1, <2>1, InfoGoes DEF ReadInSilence
  <2>2. CASE prio[q].infoIs = "Received" /\ cur = m
    BY <2>2 DEF SentFirst
  <2>3. CASE cur # m
    BY <1>1, <2>3, InfoLast
  <2> QED BY <1>3, <2>1, <2>2, <2>3
<1>5. m # PortMachine("transmit", q)
  BY DEF PortMachine
<1> QED BY <1>1, <1>3, <1>4, <1>5, LoudWriters

LEMMA MoveKeepsSilence ==
  ASSUME TypeOK, RunsHome, NEW m, Moves(m), NEW q \in Port, PassRuns(q), RoleRight(q),
         StateTells(q), Unread(q), ReadInSilence(q)
  PROVE  ReadInSilence(q)'
<1> DEFINE s == NextState(m)
           b == Owner[q]
           i == PortMachine("info", q)
<1> SUFFICES ASSUME At("info", q)' = "RECEIVE", NEW r \in Ports[b]
             PROVE  ~ Loud(r)'
  BY DEF ReadInSilence
<1>1. /\ m \in Machine /\ s # Stay /\ RunMachine(m, s)
      /\ At("info", q)' = IF m[1] = "info" /\ m[2] = q THEN s ELSE At("info", q)
      /\ m[1] = "info" /\ m[2] = q => m = i
  BY MoveFacts, Kinds
<1>2. r \in Port /\ PortId[r] \in Nat /\ PortId[q] \in Nat /\ b \in Bridge
      /\ Owner[r] = b /\ q \in Ports[b]
  BY PortMachinesOf, BridgePorts, PortAssumption
<1>3. m = i /\ s = "RECEIVE"
  <2>1. CASE m[1] = "info" /\ m[2] = q
    BY <1>1, <2>1
  <2>2. CASE ~ (m[1] = "info" /\ m[2] = q)
    <3>1. cur = i /\ NextState(cur) # Stay
      BY <1>1, <2>2, PassMoves, NextOf DEF PassRuns, InfoPass
    <3>2. m = cur
      BY <3>1, ChosenFirst DEF Moves, PortMachine, NoMachine
    <3> QED BY <2>2, <3>1, <3>2 DEF PortMachine
  <2> QED BY <2>1, <2>2
<1>4. At("info", q) = "CURRENT" /\ rcv[q].rcvdBpdu
  BY <1>1, <1>3, NextOf, InfoGoes
<1>5. prio[q].infoIs # "Disabled"
  BY <1>4 DEF StateTells, BEGIN
<1>6. cur # i
  <2>1. ~ Precedes(i, i)
    BY <1>2 DEF Precedes, PortMachine, KindRank, PortMachines, PortKind
  <2>2. i # NoMachine
    BY DEF PortMachine, NoMachine
  <2> QED BY <1>4, <2>1, <2>2 DEF Unread
<1>7. ~ Loud(r)
  <2>1. CASE PortId[r] < PortId[q]
    BY <1>4, <1>5, <2>1 DEF Unread
  <2>2. CASE ~ (PortId[r] < PortId[q])
    <3>1. r = q \/ PortId[q] < PortId[r]
      <4>1. PortId[q] = PortId[r] => r = q
        BY <1>2, PortAssumption
      <4> QED BY <1>2, <2>2, <4>1
    <3> QED BY <1>3, <1>6, <3>1, InfoLast
  <2> QED BY <2>1, <2>2
<1>8. m # PortMachine("transmit", r) /\ m[1] = "info"
  BY <1>3 DEF PortMachine
<1> QED BY <1>1, <1>2, <1>3, <1>7, <1>8, LoudWriters

-----------------------------------------------------------------------------
(***************************************************************************)
(* Who has something to send.                                              *)
(***************************************************************************)
\* A port in use that has something to send although it relies on news is the
\* root port of its bridge, by its role, by the role selected for it and by
\* its news.
TellsRoot(p) ==
  ( /\ p \in phys /\ p \notin NonStp
    /\ prio[p].infoIs \in {"Received", "Aged"}
    /\ ctl[p].role \in SendsRole /\ Loud(p) )
    => ctl[p].role = "Root" /\ sel[p].selectedRole = "Root" /\ Best(p)

\* Role transitions gives a port something to send, or a role in which to send
\* it, only when the role is the one selected and nothing is left to announce.
LEMMA RoletrnsGivesVoice ==
  ASSUME TypeOK, NEW p \in Port, p \notin NonStp, NEW s, s = RoletrnsNext(p), s # Stay,
         RoletrnsEnter(p, s), At("transmit", p)' = At("transmit", p),
         RoleRight(p), AskRight(p),
         ctl'[p].role \in SendsRole, Loud(p)', ~ (Loud(p) /\ ctl[p].role \in SendsRole)
  PROVE  Settled(p) /\ ctl'[p].role = sel[p].selectedRole /\ sel' = sel
<1>1. /\ ctl \in [Port -> Control] /\ ctl[p] \in Control
      /\ timer \in [Port -> Timers] /\ timer[p] \in Timers
  BY DEF TypeOK, StateOK
<1>2. /\ s = "INIT_PORT" => ctl'[p].role = "Disabled"
      /\ s = "BLOCK_PORT" => ctl'[p].role = sel[p].selectedRole
      /\ s = "ROOT_PORT" => ctl'[p].role = "Root"
      /\ s = "DESIGNATED_PORT" => ctl'[p].role = "Designated"
      /\ s \notin {"INIT_PORT", "BLOCK_PORT", "ROOT_PORT", "DESIGNATED_PORT"}
           => ctl'[p].role = ctl[p].role
  <2>1. s = "INIT_PORT" => ctl'[p].role = "Disabled"
    BY <1>1 DEF RoletrnsEnter, Control
  <2> QED BY <2>1, RoletrnsRole
<1>3. s # "INIT_PORT" /\ sel' = sel
  BY <1>2 DEF RoletrnsEnter, SendsRole
<1>4. ASSUME s \in {"ROOT_PORT", "DESIGNATED_PORT", "BLOCKED_PORT"},
             ctl'[p].role = ctl[p].role
      PROVE  FALSE
  <2> DEFINE delay == RootTimes(p).ForwardDelay
  <2>0. /\ \/ ctl' = [ctl EXCEPT ![p].role = "Root"]
           \/ ctl' = [ctl EXCEPT ![p].role = "Designated"]
           \/ ctl' = [ctl EXCEPT ![p].synced = TRUE, ![p].sync = FALSE,
                                 ![p].reRoot = FALSE]
        /\ \/ timer' = [timer EXCEPT ![p].rrWhile = delay]
           \/ timer' = timer
           \/ timer' = [timer EXCEPT ![p].fdWhile = delay, ![p].rrWhile = 0]
    BY <1>4 DEF RoletrnsEnter
  <2> HIDE DEF delay
  <2>1. ctl'[p].newInfo = ctl[p].newInfo
    BY <1>1, <2>0 DEF Control
  <2>2. timer'[p].helloWhen = timer[p].helloWhen /\ timer'[p].txCount = timer[p].txCount
    BY <1>1, <2>0 DEF Timers
  <2>3. adapt' = adapt
    BY DEF RoletrnsEnter
  <2>4. CanSend(p)' <=> CanSend(p)
    BY <2>1, <2>2 DEF CanSend
  <2>5. TransmitNext(p)' = TransmitNext(p)
    BY <1>4, <2>2, <2>3, <2>4 DEF TransmitNext
  <2> QED BY <1>4, <2>5 DEF Loud, Stay
<1>5. CASE ctl[p].role # sel[p].selectedRole /\ Settled(p)
  <2>1. s = "INIT_PORT" \/ s = RoleEntryState(sel[p].selectedRole)
    BY <1>5 DEF RoletrnsNext
  <2>2. sel[p].selectedRole \in PortRole
    BY DEF TypeOK, StateOK, Selection
  <2>3. ctl'[p].role = sel[p].selectedRole
    BY <1>2, <1>3, <2>1, <2>2 DEF RoleEntryState, Stay, PortRole, BlockedRole
  <2> QED BY <1>3, <1>5, <2>3
<1>6. CASE ~ (ctl[p].role # sel[p].selectedRole /\ Settled(p))
  <2> DEFINE x == At("roletrns", p)
  <2>1. CASE x \in {BEGIN, "INIT_PORT"}
    <3>1. x = "INIT_PORT"
      BY <1>3, <2>1 DEF RoletrnsNext
    <3>2. s = "BLOCK_PORT"
      BY <1>6, <3>1 DEF RoletrnsNext, RootPass, DesgPass, BEGIN
    <3> QED BY <1>2, <3>1, <3>2 DEF AskRight, SendsRole
  <2>2. CASE x \in RootPass
    <3>1. s = "ROOT_PORT" /\ ctl[p].role = "Root"
      BY <1>6, <2>2 DEF RoletrnsNext, RootPass, RoleRight, IdleStates, BlockState, DesgStates,
                        DesgPass, BEGIN
    <3> QED BY <1>2, <1>4, <3>1
  <2>3. CASE x \in DesgPass
    <3>1. s = "DESIGNATED_PORT" /\ ctl[p].role = "Designated"
      BY <1>6, <2>3 DEF RoletrnsNext, RootPass, RoleRight, IdleStates, BlockState, RootStates,
                        DesgPass, BEGIN
    <3> QED BY <1>2, <1>4, <3>1
  <2>4. CASE x = "BACKUP_PORT"
    <3>1. s = "BLOCKED_PORT"
      BY <1>6, <2>4 DEF RoletrnsNext, RootPass, DesgPass, BEGIN
    <3> QED BY <1>2, <1>4, <3>1
  <2>5. CASE x \in {"BLOCK_PORT", "BLOCKED_PORT", "ROOT_PORT", "DESIGNATED_PORT"}
    <3>1. Settled(p) /\ ctl[p].role = sel[p].selectedRole
      BY <1>6, <2>5 DEF RoletrnsNext, RootPass, DesgPass, BEGIN
    <3>2. s = CASE x = "BLOCK_PORT" ->
                     IF hw[p].learning \/ hw[p].forwarding THEN Stay ELSE "BLOCKED_PORT"
                [] x = "BLOCKED_PORT" -> BlockedPortNext(p)
                [] x = "ROOT_PORT" -> RootPortNext(p)
                [] OTHER -> DesgPortNext(p)
      BY <1>6, <2>5, <3>1 DEF RoletrnsNext, RootPass, DesgPass, BEGIN
    <3>3. /\ x = "ROOT_PORT" => ctl[p].role = "Root"
          /\ x = "DESIGNATED_PORT" => ctl[p].role = "Designated"
      BY DEF RoleRight, IdleStates, BlockState, RootStates, DesgStates, RootPass, DesgPass,
             BEGIN
    <3>4. /\ x \in {"BLOCK_PORT", "BLOCKED_PORT"} => s \in {"BLOCKED_PORT", "BACKUP_PORT"}
          /\ x = "ROOT_PORT" => s \in RootPass \cup {"ROOT_PORT"}
          /\ x = "DESIGNATED_PORT" => s \in DesgPass
      BY <2>5, <3>2 DEF BlockedPortNext, RootPortNext, DesgPortNext, RootPass, DesgPass
    <3>5. ctl'[p].role = ctl[p].role
      BY <1>2, <2>5, <3>3, <3>4 DEF RootPass, DesgPass
    <3> QED BY <1>3, <3>1, <3>5
  <2> QED BY <2>1, <2>2, <2>3, <2>4, <2>5
          DEF RoleRight, IdleStates, BlockState, RootStates, DesgStates
<1> QED BY <1>5, <1>6

LEMMA MoveKeepsRootVoice ==
  ASSUME LoopInv, RunsHome, NEW m, Moves(m),
         \A r \in Port : /\ StateTells(r) /\ LinkRight(r) /\ AskRight(r) /\ RootIsBest(r)
                         /\ ReadInSilence(r) /\ TellsRoot(r),
         NEW q \in Port, SelectedFirst(q), SentFirst(q)
  PROVE  TellsRoot(q)'
<1> DEFINE s == NextState(m)
           b == Owner[q]
<1>0. /\ TypeOK /\ SettledInv
      /\ \A r \in Port : RoleRight(r) /\ NewsRight(r) /\ SelectionRight(r) /\ CostSet(r)
      /\ \A r \in Port : StandsRight(r)
  BY DEF LoopInv, RootInv, TimeInv, SettledInv, PortRight
<1>1. /\ m \in Machine /\ s # Stay /\ RunMachine(m, s)
      /\ \A k \in PortKind :
           /\ At(k, q)' = IF m[1] = k /\ m[2] = q THEN s ELSE At(k, q)
           /\ m[1] = k /\ m[2] = q => m = PortMachine(k, q)
  BY <1>0, MoveFacts
<1>2. phys' = phys
  BY <1>0, <1>1, EdgeWriters
<1> SUFFICES ASSUME q \in phys, q \notin NonStp, prio'[q].infoIs \in {"Received", "Aged"},
                    ctl'[q].role \in SendsRole, Loud(q)'
             PROVE  ctl'[q].role = "Root" /\ sel'[q].selectedRole = "Root" /\ Best(q)'
  BY <1>2 DEF TellsRoot
<1>3. q \in Ports[b] /\ b \in Bridge /\ \A r \in Ports[b] : r \in Port /\ Owner[r] = b
  BY PortMachinesOf, BridgePorts
<1>4. CASE m[1] = "roletrns" /\ m[2] = q
  <2>1. /\ m = PortMachine("roletrns", q) /\ s = RoletrnsNext(q) /\ RoletrnsEnter(q, s)
        /\ At("transmit", q)' = At("transmit", q)
    BY <1>1, <1>4, NextOf, Kinds DEF RunMachine
  <2>2. prio' = prio /\ br' = br
    BY <2>1 DEF RoletrnsEnter
  <2>3. Best(q) => Best(q)'
    BY <2>2, BestStays
  <2>4. CASE Loud(q) /\ ctl[q].role \in SendsRole
    <3>1. ctl[q].role = "Root" /\ sel[q].selectedRole = "Root" /\ Best(q)
      BY <2>2, <2>4 DEF TellsRoot
    <3>2. s # "DESIGNATED_PORT" /\ s # "INIT_PORT"
      <4>1. BlockedPortNext(q) # "DESIGNATED_PORT" /\ RootPortNext(q) # "DESIGNATED_PORT"
        BY DEF BlockedPortNext, RootPortNext, Stay
      <4>2. At("roletrns", q) \in IdleStates \cup RootStates
        BY <1>0, <3>1 DEF RoleRight
      <4>3. s # "DESIGNATED_PORT"
        BY <2>1, <3>1, <4>1, <4>2
           DEF RoletrnsNext, IdleStates, RootStates, RootPass, DesgPass, BlockState, BEGIN,
               Stay
      <4>4. s = "INIT_PORT" => ctl'[q].role = "Disabled"
        <5>1. ctl \in [Port -> Control] /\ ctl[q] \in Control
          BY <1>0 DEF TypeOK, StateOK
        <5>2. s = "INIT_PORT" =>
                ctl' = [ctl EXCEPT ![q].role = "Disabled", ![q].synced = FALSE,
                                   ![q].sync = TRUE, ![q].reRoot = TRUE]
          BY <2>1 DEF RoletrnsEnter
        <5> QED BY <5>1, <5>2 DEF Control
      <4> QED BY <4>3, <4>4 DEF SendsRole
    <3>3. ctl'[q].role = "Root" /\ sel' = sel
      BY <1>0, <2>1, <3>1, <3>2, RoletrnsRole
    <3> QED BY <2>3, <3>1, <3>3
  <2>5. CASE ~ (Loud(q) /\ ctl[q].role \in SendsRole)
    <3>1. Settled(q) /\ ctl'[q].role = sel[q].selectedRole /\ sel' = sel
      BY <1>0, <1>1, <2>1, <2>5, RoletrnsGivesVoice
    <3>2. RoleSelNext(b)' = Stay
      <4>1. SelectedFirst(q)' /\ cur' = m
        BY <1>0, MoveKeepsSelectedFirst, MoveFacts
      <4> QED BY <2>1, <3>1, <4>1 DEF SelectedFirst, SendsRole
    <3>3. \A r \in Ports[b] : ~ sel[r].reselect
      BY <3>1, <3>2 DEF RoleSelNext, Stay
    <3>4. ~ sel[q].reselect /\ ~ sel[q].updtInfo
      BY <1>3, <3>1, <3>3 DEF Settled
    <3>5. prio[q].infoIs = "Received"
      BY <2>2, <3>4 DEF AskRight
    <3>6. sel[q].selectedRole = "Root"
      BY <1>0, <3>1, <3>4, <3>5 DEF StandsRight, SendsRole
    <3>7. Best(q)
      BY <1>0, <3>3, <3>4, <3>6 DEF SelectionRight, RootIsBest, Asked
    <3> QED BY <2>3, <3>1, <3>6, <3>7
  <2> QED BY <2>4, <2>5
<1>5. CASE ~ (m[1] = "roletrns" /\ m[2] = q)
  <2>1. ctl'[q].role = ctl[q].role
    BY <1>0, <1>1, <1>5, DutyWriter DEF DutyKept, TakenOut
  <2>2. ~ (m[1] = "info" /\ m[2] = q /\ s = "UPDATE")
    BY <1>0, <1>1, InfoWrites DEF RunMachine
  <2>3. Loud(q)
    <3>1. m = PortMachine("transmit", q) => Loud(q)
      BY <1>1, NextOf DEF Loud
    <3> QED BY <1>0, <1>1, <1>5, <2>2, <3>1, LoudWriters
  <2>4. \A r \in Ports[b] : ~ (m[1] = "info" /\ m[2] = r /\ s = "SUPERIOR")
    <3> SUFFICES ASSUME NEW r \in Ports[b], m[1] = "info", m[2] = r, s = "SUPERIOR"
                 PROVE  FALSE
      OBVIOUS
    <3>1. s = InfoNext(r)
      BY <1>1 DEF NextState
    <3>2. At("info", r) = "RECEIVE"
      BY <1>1, <3>1, InfoGoes
    <3> QED BY <1>3, <2>3, <3>2 DEF ReadInSilence
  <2>5. \A r \in Ports[b] : prio'[r].infoIs = "Received" =>
          prio[r].infoIs = "Received" /\ prio'[r].portPrio = prio[r].portPrio
    BY <1>0, <1>3, <2>4, NewsOnlyLost
  <2>6. prio'[q].infoIs = prio[q].infoIs
    <3>1. CASE m[1] = "info" /\ m[2] = q
      <4>1. m = PortMachine("info", q) /\ s = InfoNext(q) /\ InfoEnter(q, s)
        BY <1>1, <3>1, NextOf, Kinds DEF RunMachine
      <4>2. s # "AGED"
        <5> SUFFICES ASSUME s = "AGED"
                     PROVE  FALSE
          OBVIOUS
        <5>1. CASE At("info", q) = "ENABLED"
          BY <2>1, <5>1 DEF StateTells, LinkRight, SendsRole
        <5>2. CASE InfoExpired(q)
          <6>1. cur # m
            BY <2>3, <4>1, <5>2 DEF SentFirst, InfoExpired
          <6> QED BY <1>0, <1>3, <2>3, <4>1, <6>1, InfoLast
        <5> QED BY <1>1, <4>1, <5>1, <5>2, InfoGoes
      <4>3. s # "DISABLED" /\ s # "UPDATE" /\ s # "SUPERIOR"
        BY <1>0, <1>3, <2>2, <2>4, <3>1, <4>1, InfoWrites
      <4> QED BY <1>0, <4>1, <4>2, <4>3, InfoWrites
    <3>2. CASE ~ (m[1] = "info" /\ m[2] = q)
      BY <1>0, <1>1, <3>2, NewsWriter DEF NewsKept
    <3> QED BY <3>1, <3>2
  <2>7. ctl[q].role = "Root" /\ sel[q].selectedRole = "Root" /\ Best(q)
    BY <2>1, <2>3, <2>6 DEF TellsRoot
  <2>8. Best(q)'
    BY <2>5, <2>6, <2>7, BestStays
  <2>9. sel'[q].selectedRole = "Root"
    <3>1. CASE m = RoleSelMachine(b)
      <4>1. m[1] = "rolesel" /\ m[2] = b
        BY <3>1 DEF RoleSelMachine
      <4> DEFINE e == Elected(b)
      <4>2. sel'[q] = [selectedRole |-> RoleFor(q, e), selected |-> TRUE,
                       reselect |-> FALSE, updtInfo |-> UpdtInfoFor(q, e)]
        BY <1>0, <1>1, <4>1, RoleSelWrites
      <4>3. Elected(b).rootPortId = PortId[q]
        <5>1. \A r \in RootCandidates(b) : Near(RootPathPrio(r))
          BY <1>3, <4>1, CandidatesNear DEF LoopInv
        <5> QED BY <1>0, <2>7, <5>1, ElectedIsBest
      <4>4. RoleFor(q, Elected(b)) = "Root"
        BY <1>0, <1>3, <4>3, RootRoleIsRootPort
      <4> QED BY <4>2, <4>4
    <3>2. CASE m[1] = "rolesel" /\ m # RoleSelMachine(b)
      <4>1. m[2] # b
        BY <1>1, <3>2, MachineCases, Kinds
      <4> QED BY <1>0, <1>1, <2>7, <3>2, <4>1, RoleSelWrites
    <3>3. CASE m[1] = "info" /\ m[2] = q
      <4>1. InfoEnter(q, s)
        BY <1>1, <3>3 DEF RunMachine
      <4> QED BY <1>0, <2>7, <4>1, InfoWrites
    <3>4. CASE m[1] # "rolesel" /\ ~ (m[1] = "info" /\ m[2] = q)
      BY <1>0, <1>1, <1>5, <2>7, <3>4, SelectionWriters
    <3> QED BY <3>1, <3>2, <3>3, <3>4
  <2> QED BY <2>1, <2>7, <2>8, <2>9
<1> QED BY <1>4, <1>5

-----------------------------------------------------------------------------
(***************************************************************************)
(* Who has signed what.                                                    *)
(***************************************************************************)
\* What a port says of itself it signs.
SelfNamed(p) ==
  p \notin NonStp /\ prio[p].infoIs = "Mine"
    => DesignBridge(prio[p].portPrio) = Owner[p] /\ DesignPort(prio[p].portPrio) = PortId[p]

\* Only what a designated port sent is taken for news, or for the old news.
VerdictRight(p) ==
  At("info", p) = "RECEIVE" /\ rcv[p].rcvdMsg \in {"Superior", "Repeated"}
    => FromDesignated(rcv[p].msg)

WireSigned(p) ==
  Peer[p] # p => \A i \in 1 .. Len(wire[p]) :
    FromDesignated(wire[p][i]) => NamesNeighbour(p, wire[p][i].vec)

NewsSigned(p) ==
  Peer[p] # p =>
    /\ FromDesignated(rcv[p].msg) => NamesNeighbour(p, rcv[p].msg.vec)
    /\ prio[p].infoIs = "Received" => NamesNeighbour(p, prio[p].portPrio)

LEMMA MoveKeepsSelfNamed ==
  ASSUME TypeOK, RunsHome, NEW m, Moves(m), NEW q \in Port, StandsRight(q), StateTells(q),
         SelfNamed(q)
  PROVE  SelfNamed(q)'
<1> DEFINE s == NextState(m)
<1>1. m \in Machine /\ s # Stay /\ RunMachine(m, s)
  BY MoveFacts
<1>2. CASE m[1] = "info" /\ m[2] = q
  <2>1. s = InfoNext(q) /\ InfoEnter(q, s)
    BY <1>1, <1>2 DEF NextState, RunMachine
  <2>2. CASE s = "UPDATE"
    <3>1. prio'[q].portPrio = prio[q].designPrio
      BY <2>1, <2>2, InfoWrites
    <3> QED BY <3>1 DEF StandsRight, SelfNamed, DesignPrioFor, MakeVector, DesignBridge, DesignPort
  <2>3. CASE s = "ENABLED"
    <3>1. prio'[q].infoIs = "Disabled"
      BY <1>1, <2>1, <2>3, InfoWrites, InfoGoes DEF StateTells
    <3> QED BY <3>1 DEF SelfNamed
  <2>4. CASE s \notin {"UPDATE", "ENABLED"}
    <3>1. /\ prio'[q].infoIs = "Mine" => prio[q].infoIs = "Mine" /\ s # "SUPERIOR"
          /\ s # "SUPERIOR" => prio'[q].portPrio = prio[q].portPrio
      BY <2>1, <2>4, InfoWrites
    <3> QED BY <3>1 DEF SelfNamed
  <2> QED BY <2>2, <2>3, <2>4
<1>3. CASE ~ (m[1] = "info" /\ m[2] = q)
  BY <1>1, <1>3, NewsWriter DEF NewsKept, SelfNamed
<1> QED BY <1>2, <1>3

LEMMA MoveKeepsVerdict ==
  ASSUME TypeOK, RunsHome, NEW m, Moves(m), NEW q \in Port, VerdictRight(q)
  PROVE  VerdictRight(q)'
<1> DEFINE s == NextState(m)
<1>1. /\ m \in Machine /\ s # Stay /\ RunMachine(m, s)
      /\ At("info", q)' = IF m[1] = "info" /\ m[2] = q THEN s ELSE At("info", q)
  BY MoveFacts, Kinds
<1>2. CASE m[1] = "info" /\ m[2] = q
  <2>1. InfoEnter(q, s)
    BY <1>1, <1>2 DEF RunMachine
  <2>2. /\ rcv'[q].msg = rcv[q].msg
        /\ s = "RECEIVE" => rcv'[q].rcvdMsg = RcvBpdu(q)
    BY <2>1, InfoWrites
  <2>3. RcvBpdu(q) \in {"Superior", "Repeated"} => FromDesignated(rcv[q].msg)
    BY DEF RcvBpdu
  <2> QED BY <1>1, <1>2, <2>2, <2>3 DEF VerdictRight, FromDesignated
<1>3. CASE ~ (m[1] = "info" /\ m[2] = q)
  BY <1>1, <1>3, NewsWriter DEF NewsKept, VerdictRight, FromDesignated
<1> QED BY <1>2, <1>3

\* A frame sent as designated is what the port says of itself.
LEMMA SendsOwn ==
  ASSUME TypeOK, NEW p \in Port, p \in phys \ NonStp, LinkRight(p), TellsRoot(p),
         NEW type, \/ type = "Config" /\ TransmitNext(p) = "TRANSMIT_CONFIG"
                   \/ type = "RSTP" /\ TransmitNext(p) = "TRANSMIT_RSTP",
         FromDesignated(BpduOf(p, type))
  PROVE  prio[p].infoIs = "Mine"
<1>1. /\ ctl[p].role \in SendsRole /\ Loud(p)
      /\ type = "Config" => ctl[p].role = "Designated"
  BY DEF TransmitNext, Loud, Stay
<1>2. type = "RSTP" => sel[p].selectedRole = "Designated"
  <2> SUFFICES ASSUME type = "RSTP"
               PROVE  sel[p].selectedRole = "Designated"
    OBVIOUS
  <2>1. RoleField(sel[p].selectedRole) = "Designated"
    BY DEF FromDesignated, BpduOf
  <2> QED BY <2>1 DEF RoleField, SendsRole
<1>3. prio[p].infoIs \notin {"Received", "Aged"}
  BY <1>1, <1>2 DEF TellsRoot
<1>4. prio[p].infoIs # "Disabled"
  BY <1>1 DEF LinkRight, SendsRole
<1> QED BY <1>3, <1>4 DEF TypeOK, StateOK, Information, InfoIs

LEMMA MoveKeepsWireSigned ==
  ASSUME TypeOK, RunsHome, NEW m, Moves(m),
         \A p \in Port : LinkRight(p) /\ TellsRoot(p) /\ SelfNamed(p),
         NEW q \in Port, WireSigned(q)
  PROVE  WireSigned(q)'
<1> SUFFICES ASSUME Peer[q] # q, NEW i \in 1 .. Len(wire'[q]), FromDesignated(wire'[q][i])
             PROVE  NamesNeighbour(q, wire'[q][i].vec)
  BY DEF WireSigned, FromDesignated, NamesNeighbour
<1>1. CASE \E j \in 1 .. Len(wire[q]) : wire'[q][i] = wire[q][j]
  BY <1>1 DEF WireSigned
<1>2. ASSUME NEW p \in Port, p \in phys \ NonStp, q = Peer[p], NEW type,
             \/ type = "Config" /\ TransmitNext(p) = "TRANSMIT_CONFIG"
             \/ type = "RSTP" /\ TransmitNext(p) = "TRANSMIT_RSTP",
             wire'[q][i] = BpduOf(p, type)
      PROVE  NamesNeighbour(q, wire'[q][i].vec)
  <2>1. prio[p].infoIs = "Mine"
    BY <1>2, SendsOwn
  <2>2. wire'[q][i].vec = prio[p].portPrio
    BY <1>2 DEF BpduOf
  <2>3. Peer[q] = p
    BY <1>2, PeerAssumption
  <2> QED BY <1>2, <2>1, <2>2, <2>3 DEF SelfNamed, NamesNeighbour
<1>3. ~ FromDesignated(TcnBpdu)
  BY DEF FromDesignated, TcnBpdu, NoBpdu
<1>4. m \in Machine /\ NextState(m) # Stay /\ RunMachine(m, NextState(m))
  BY MoveFacts
<1> QED BY <1>1, <1>2, <1>3, <1>4, MachineSends

LEMMA MoveKeepsNewsSigned ==
  ASSUME TypeOK, RunsHome, NEW m, Moves(m), NEW q \in Port, StateTells(q), VerdictRight(q),
         NewsSigned(q)
  PROVE  NewsSigned(q)'
<1> DEFINE s == NextState(m)
<1>1. m \in Machine /\ s # Stay /\ RunMachine(m, s)
  BY MoveFacts
<1>2. rcv'[q].msg = rcv[q].msg
  <2>1. m[1] = "info" /\ m[2] = q => InfoEnter(q, s)
    BY <1>1 DEF RunMachine
  <2> QED BY <1>1, <2>1, InfoWrites, NewsWriter DEF NewsKept
<1>3. CASE m[1] = "info" /\ m[2] = q /\ s = "SUPERIOR"
  <2>1. s = InfoNext(q) /\ InfoEnter(q, s)
    BY <1>1, <1>3 DEF NextState, RunMachine
  <2>2. At("info", q) = "RECEIVE" /\ rcv[q].rcvdMsg = "Superior"
    BY <1>1, <1>3, <2>1, InfoGoes
  <2>3. prio'[q].portPrio = rcv[q].msg.vec
    BY <1>3, <2>1, InfoWrites
  <2> QED BY <1>2, <2>2, <2>3 DEF VerdictRight, NewsSigned, FromDesignated, NamesNeighbour
<1>4. CASE ~ (m[1] = "info" /\ m[2] = q /\ s = "SUPERIOR")
  <2>1. prio'[q].infoIs = "Received" =>
          prio[q].infoIs = "Received" /\ prio'[q].portPrio = prio[q].portPrio
    BY <1>4, NewsOnlyLost
  <2> QED BY <1>2, <2>1 DEF NewsSigned, FromDesignated, NamesNeighbour
<1> QED BY <1>3, <1>4

-----------------------------------------------------------------------------
(***************************************************************************)
(* The invariant.                                                          *)
(***************************************************************************)
TellRight(p) ==
  /\ PassRuns(p) /\ StateTells(p) /\ LinkRight(p) /\ AskRight(p) /\ RootIsBest(p)
  /\ SelectedFirst(p) /\ SentFirst(p) /\ ReadInSilence(p) /\ Unread(p)
  /\ TellsRoot(p)
  /\ SelfNamed(p) /\ VerdictRight(p) /\ WireSigned(p) /\ NewsSigned(p)

TellInv == LoopInv /\ RunsHome /\ \A p \in Port : TellRight(p)

LEMMA LoopFacts ==
  ASSUME LoopInv
  PROVE  /\ TypeOK /\ SettledInv /\ Quiescent
         /\ \A r \in Port : /\ RoleRight(r) /\ NewsRight(r) /\ SelectionRight(r)
                            /\ CostSet(r) /\ StandsRight(r)
BY DEF LoopInv, RootInv, TimeInv, SettledInv, PortRight

\* Between updates a port needs its link to be neither up nor down for what
\* holds of it, and no frame is unread.
LEMMA AtRest ==
  ASSUME TellInv, Idle, NEW p \in Port
  PROVE  /\ At("info", p) \notin InfoPass
         /\ ~ rcv[p].rcvdBpdu
         /\ InfoNext(p) = Stay /\ EdgeNext(p) = Stay /\ ~ Loud(p)
         /\ RoleSelNext(Owner[p]) = Stay /\ RoletrnsNext(p) = Stay
         /\ p \notin NonStp =>
              /\ At("roletrns", p) \notin RolePass
              /\ adapt[p].portEnabled => adapt[p].adminEnable
              /\ ~ adapt[p].portEnabled <=> prio[p].infoIs = "Disabled"
              /\ prio[p].infoIs = "Disabled" =>
                   /\ ctl[p].role = "Disabled" /\ sel[p].selectedRole = "Disabled"
                   /\ At("info", p) = "DISABLED"
              /\ prio[p].infoIs # "Disabled" => At("info", p) = "CURRENT"
              /\ prio[p].infoIs \in {"Received", "Aged"} /\ ctl[p].role \in SendsRole
                   => ctl[p].role = "Root" /\ sel[p].selectedRole = "Root" /\ Best(p)
<1>1. /\ TypeOK /\ SettledInv /\ RunsHome /\ TellRight(p) /\ RoleRight(p)
      /\ SelectionRight(p) /\ StandsRight(p)
  BY LoopFacts DEF TellInv
<1>2. /\ At("info", p) \notin InfoPass
      /\ p \notin NonStp => At("roletrns", p) \notin RolePass
  BY <1>1, NoPassAtRest DEF TellRight
<1>3. ~ rcv[p].rcvdBpdu
  BY <1>1 DEF TellRight, Unread, Idle
<1>4. /\ InfoNext(p) = Stay /\ RoleSelNext(Owner[p]) = Stay /\ RoletrnsNext(p) = Stay
      /\ sel[p].selected /\ ~ sel[p].reselect /\ ~ sel[p].updtInfo
      /\ ctl[p].role = sel[p].selectedRole
  BY <1>1, NothingToDo, SelectionSettles, RoleSettles
<1>5. EdgeNext(p) = Stay /\ ~ Loud(p)
  <2>1. Quiet(Owner[p]) /\ Owner[p] \in Bridge
    BY <1>1, PortMachinesOf DEF SettledInv, Quiescent, Idle
  <2> QED BY <2>1, PortMachinesOf, Kinds, NextOf DEF Quiet, Loud
<1> SUFFICES ASSUME p \notin NonStp
             PROVE  /\ adapt[p].portEnabled => adapt[p].adminEnable
                    /\ ~ adapt[p].portEnabled <=> prio[p].infoIs = "Disabled"
                    /\ prio[p].infoIs = "Disabled" =>
                         /\ ctl[p].role = "Disabled" /\ sel[p].selectedRole = "Disabled"
                         /\ At("info", p) = "DISABLED"
                    /\ prio[p].infoIs # "Disabled" => At("info", p) = "CURRENT"
                    /\ prio[p].infoIs \in {"Received", "Aged"} /\ ctl[p].role \in SendsRole
                         => ctl[p].role = "Root" /\ sel[p].selectedRole = "Root" /\ Best(p)
  BY <1>2, <1>3, <1>4, <1>5
<1>6. adapt[p].portEnabled => adapt[p].adminEnable
  BY <1>1, <1>5 DEF EdgeNext, TellRight, StateTells, Stay, BEGIN
<1>7. /\ prio[p].infoIs = "Disabled" => sel[p].selectedRole = "Disabled"
      /\ prio[p].infoIs # "Aged"
  BY <1>1, <1>4 DEF TellRight, AskRight
<1>8. /\ ~ adapt[p].portEnabled <=> prio[p].infoIs = "Disabled"
      /\ prio[p].infoIs = "Disabled" => At("info", p) = "DISABLED"
      /\ prio[p].infoIs # "Disabled" => At("info", p) = "CURRENT"
  <2>1. At("info", p) # BEGIN /\ (prio[p].infoIs # "Disabled" => adapt[p].portEnabled)
    BY <1>4 DEF InfoNext, Stay
  <2>2. At("info", p) \in {"DISABLED", "AGED", "CURRENT"}
    BY <1>4, <2>1 DEF InfoNext, Stay
  <2>3. At("info", p) = "DISABLED" => ~ adapt[p].portEnabled
    BY <1>4, <2>1 DEF InfoNext, Stay
  <2> QED BY <1>1, <1>7, <2>1, <2>2, <2>3 DEF TellRight, StateTells, BEGIN
<1>9. ASSUME prio[p].infoIs = "Received", ctl[p].role \in SendsRole
      PROVE  ctl[p].role = "Root" /\ Best(p)
  <2>1. ctl[p].role = "Root"
    BY <1>1, <1>4, <1>9 DEF StandsRight, SendsRole
  <2>2. br[Owner[p]].rootPortId = PortId[p]
    BY <1>1, <1>4, <2>1 DEF SelectionRight
  <2>3. ~ Asked(Owner[p])
    BY <1>4 DEF RoleSelNext, Asked, Stay
  <2> QED BY <1>1, <2>1, <2>2, <2>3 DEF TellRight, RootIsBest
<1> QED BY <1>4, <1>6, <1>7, <1>8, <1>9

LEMMA MoveKeepsTell ==
  ASSUME TellInv, MachineStep, NEW q \in Port
  PROVE  TellRight(q)'
<1>1. /\ TypeOK /\ RunsHome
      /\ \A r \in Port : NewsRight(r) /\ CostSet(r) /\ StandsRight(r) /\ RoleRight(r)
  BY LoopFacts DEF TellInv
<1>2. \A r \in Port :
        /\ PassRuns(r) /\ StateTells(r) /\ LinkRight(r) /\ AskRight(r) /\ RootIsBest(r)
        /\ SelectedFirst(r) /\ SentFirst(r) /\ ReadInSilence(r) /\ Unread(r) /\ TellsRoot(r)
        /\ SelfNamed(r) /\ VerdictRight(r) /\ WireSigned(r) /\ NewsSigned(r)
  BY DEF TellInv, TellRight
<1>3. PICK m : Moves(m)
  BY OneMoves
<1>4. PassRuns(q)'
  BY <1>1, <1>2, MachineKeepsPass
<1>5. StateTells(q)' /\ LinkRight(q)' /\ AskRight(q)'
  BY <1>1, <1>2, <1>3, MoveKeepsTells, MoveKeepsLink, MoveKeepsAsk
<1>6. RootIsBest(q)' /\ SelectedFirst(q)'
  <2>1. RootInv
    BY DEF TellInv, LoopInv
  <2> QED BY <1>1, <1>2, <1>3, <2>1, MoveKeepsRootBest, MoveKeepsSelectedFirst
<1>7. SentFirst(q)' /\ ReadInSilence(q)' /\ Unread(q)'
  BY <1>1, <1>2, <1>3, MoveKeepsSentFirst, MoveKeepsSilence, MoveKeepsUnread
<1>8. TellsRoot(q)'
  BY <1>1, <1>2, <1>3, MoveKeepsRootVoice DEF TellInv
<1>9. SelfNamed(q)' /\ VerdictRight(q)'
  BY <1>1, <1>2, <1>3, MoveKeepsSelfNamed, MoveKeepsVerdict
<1>10. WireSigned(q)' /\ NewsSigned(q)'
  BY <1>1, <1>2, <1>3, MoveKeepsWireSigned, MoveKeepsNewsSigned
<1> QED BY <1>4, <1>5, <1>6, <1>7, <1>8, <1>9, <1>10 DEF TellRight

\* The end of an update.
LEMMA DoneKeepsTell ==
  ASSUME TellInv, UpdateDone, NEW q \in Port
  PROVE  TellRight(q)'
<1>1. TypeOK /\ RunsHome /\ TellRight(q) /\ RoleRight(q) /\ updating # {}
  BY LoopFacts DEF TellInv, UpdateDone
<1>2. /\ At("info", q) \notin InfoPass
      /\ q \notin NonStp => At("roletrns", q) \notin RolePass
  BY <1>1, NoPassAtRest DEF TellRight
<1>3. ~ rcv[q].rcvdBpdu
  <2> SUFFICES ASSUME rcv[q].rcvdBpdu
               PROVE  FALSE
    OBVIOUS
  <2>1. InfoNext(q) # Stay /\ updating = {Owner[q]}
    BY <1>1, UnreadIsRead DEF TellRight, Unread
  <2>2. Active = Owner[q]
    BY <1>1, <2>1, ActiveType DEF TypeOK
  <2> QED BY <2>1, <2>2, PortMachinesOf, Kinds, NextOf DEF UpdateDone
<1>4. /\ UNCHANGED <<stateVars, phys, wire>> /\ cur' = NoMachine
      /\ UNCHANGED <<st, ctl, sel, hw, prio, rcv, tcs, timer, adapt, br>>
  BY DEF UpdateDone, stateVars
<1>5. cur' # PortMachine("info", q) /\ cur' # PortMachine("roletrns", q)
  BY <1>4 DEF PortMachine, NoMachine
<1>6. PassRuns(q)' /\ SelectedFirst(q)' /\ SentFirst(q)' /\ Unread(q)' /\ ReadInSilence(q)'
  BY <1>2, <1>3, <1>4, <1>5
     DEF PassRuns, SelectedFirst, SentFirst, Unread, ReadInSilence, At, InfoPass
<1>7. StateTells(q)' /\ LinkRight(q)' /\ AskRight(q)' /\ RootIsBest(q)'
  BY <1>1, <1>4
     DEF TellRight, StateTells, LinkRight, AskRight, RootIsBest, At, Asked, Best, Contends, Path
<1>8. TellsRoot(q)'
  BY <1>1, <1>4
     DEF TellRight, TellsRoot, Best, Contends, Path, Loud, TransmitNext, CanSend, At
<1>9. SelfNamed(q)' /\ VerdictRight(q)' /\ WireSigned(q)' /\ NewsSigned(q)'
  BY <1>1, <1>4
     DEF TellRight, SelfNamed, VerdictRight, WireSigned, NewsSigned, At, FromDesignated,
         NamesNeighbour
<1> QED BY <1>6, <1>7, <1>8, <1>9 DEF TellRight

\* What an event leaves of port q alone, or changes to no harm.
LEMMA EventSpares ==
  ASSUME TypeOK, Event, NEW q \in Port
  PROVE  /\ st' = st /\ ctl' = ctl /\ prio' = prio /\ br' = br /\ phys' = phys
         /\ cur' = NoMachine
         /\ adapt'[q].portEnabled = adapt[q].portEnabled
         /\ \/ sel'[q] = sel[q]
            \/ sel'[q].selectedRole = "Disabled" /\ sel'[q].reselect
         /\ rcv'[q].rcvdMsg = rcv[q].rcvdMsg
<1>1. /\ st' = st /\ ctl' = ctl /\ prio' = prio /\ br' = br /\ phys' = phys
      /\ cur' = NoMachine
  BY DEF Event, PollLink, Tick, RxBpdu, Update
<1>2. Touched(q) /\ adapt'[q].portEnabled = adapt[q].portEnabled
  BY EventTouches, EventKeepsCost
<1> QED BY <1>1, <1>2 DEF Touched

\* The port that is enabled or disabled is set to what its link is, or to being
\* enabled; it is asked for a role only when it is not what it is set to.
LEMMA EnableSets ==
  ASSUME TypeOK, NEW p \in Port, NEW enable, NEW a \in Adaptation, EnablePort(p, enable, a),
         a.adminEnable = adapt[p].adminEnable
  PROVE  /\ adapt'[p].adminEnable = IF adapt[p].portEnabled = enable
                                    THEN adapt[p].adminEnable ELSE enable
         /\ adapt[p].portEnabled = enable => sel' = sel /\ timer' = timer
<1>1. adapt \in [Port -> Adaptation]
  BY DEF TypeOK, StateOK
<1>2. CASE adapt[p].portEnabled = enable
  BY <1>1, <1>2 DEF EnablePort
<1>3. CASE adapt[p].portEnabled # enable
  <2>1. adapt'[p] = [a EXCEPT !.adminEnable = enable, !.sendRSTP = TRUE,
                              !.operSpeed = Speed[p], !.p2p_recompute = TRUE]
    BY <1>1, <1>3 DEF EnablePort
  <2> QED BY <1>3, <2>1 DEF Adaptation
<1> QED BY <1>2, <1>3

LEMMA EventSets ==
  ASSUME TypeOK, Event, NEW q \in Port, q \in phys
  PROVE  /\ \/ adapt'[q].adminEnable = adapt[q].adminEnable
            \/ adapt'[q].adminEnable
         /\ adapt[q].portEnabled => sel'[q] = sel[q]
<1>1. adapt[q] \in Adaptation /\ \A p \in Port : adapt[p] \in Adaptation
  BY DEF TypeOK, StateOK
<1>2. ASSUME NEW p \in Port, PollLink(p)
      PROVE  /\ \/ adapt'[q].adminEnable = adapt[q].adminEnable
                \/ adapt'[q].adminEnable
             /\ adapt[q].portEnabled => sel'[q] = sel[q]
  <2>1. EnablePort(p, p \in phys, adapt[p])
    BY <1>2 DEF PollLink
  <2>2. CASE p = q
    <3>1. EnablePort(q, TRUE, adapt[q])
      BY <2>1, <2>2
    <3>2. adapt[q].portEnabled \in BOOLEAN
      BY <1>1 DEF Adaptation
    <3> QED BY <1>1, <3>1, <3>2, EnableSets
  <2>3. CASE p # q
    BY <2>1, <2>3, EnableStaysHome
  <2> QED BY <2>2, <2>3
<1>3. ASSUME NEW p \in Port, RxBpdu(p)
      PROVE  /\ \/ adapt'[q].adminEnable = adapt[q].adminEnable
                \/ adapt'[q].adminEnable
             /\ adapt[q].portEnabled => sel'[q] = sel[q]
  <2> DEFINE a == [adapt[p] EXCEPT !.operEdge = FALSE, !.wasInitBpdu = TRUE]
  <2>1. a \in Adaptation /\ a.adminEnable = adapt[p].adminEnable
    BY <1>1 DEF Adaptation
  <2>2. EnablePort(p, TRUE, a)
    BY <1>3 DEF RxBpdu
  <2> HIDE DEF a
  <2>3. CASE p = q
    <3>1. adapt[q].portEnabled \in BOOLEAN
      BY <1>1 DEF Adaptation
    <3> QED BY <2>1, <2>2, <2>3, <3>1, EnableSets
  <2>4. CASE p # q
    BY <2>2, <2>4, EnableStaysHome
  <2> QED BY <2>3, <2>4
<1>4. ASSUME NEW b \in Bridge, Tick(b)
      PROVE  adapt' = adapt /\ sel' = sel
  BY <1>4 DEF Tick
<1> QED BY <1>2, <1>3, <1>4 DEF Event

\* An event finds all machines at rest; the frame it brings, if any, is unread
\* in order and signed.
LEMMA RxBrings ==
  ASSUME TypeOK, NEW p \in Port, RxBpdu(p), WireSigned(p), NewsSigned(p), NEW q \in Port
  PROVE  /\ rcv'[q] # rcv[q] => q = p /\ p \notin NonStp
         /\ prio' = prio /\ Peer[p] # p /\ FromDesignated(rcv'[p].msg)
              => NamesNeighbour(p, rcv'[p].msg.vec)
<1>1. /\ rcv \in [Port -> Reception] /\ rcv[p] \in Reception /\ rcv[p].msg \in Bpdu
      /\ wire[p] \in Seq(Bpdu)
  BY DEF TypeOK, StateOK, Reception
<1> DEFINE m == Head(wire[p])
           notice == [rcv[p].msg EXCEPT !.type = "TCN"]
           taken == [m EXCEPT !.vec = ReceivedBy(m.vec, PortId[p])]
           kept == IF m.type = "TCN" THEN notice ELSE taken
<1>2. \/ rcv' = rcv
      \/ p \notin NonStp /\ rcv' = [rcv EXCEPT ![p].rcvdBpdu = TRUE, ![p].msg = kept]
  BY DEF RxBpdu, KeepBpdu
<1>3. /\ 1 \in 1 .. Len(wire[p]) /\ wire[p][1] = m /\ m \in Bpdu
  BY <1>1, HeadTailProperties, LenProperties, ElementOfSeq, EmptySeq DEF RxBpdu
<1>4. CASE rcv' = rcv
  BY <1>4 DEF NewsSigned
<1>5. CASE p \notin NonStp /\ rcv' = [rcv EXCEPT ![p].rcvdBpdu = TRUE, ![p].msg = kept]
  <2>1. rcv'[p].msg = kept /\ (q # p => rcv'[q] = rcv[q])
    BY <1>1, <1>5 DEF Reception
  <2>2. CASE m.type = "TCN"
    <3>1. notice.type = "TCN"
      BY <1>1 DEF Bpdu
    <3> HIDE DEF notice
    <3>2. ~ FromDesignated(rcv'[p].msg)
      BY <2>1, <2>2, <3>1 DEF FromDesignated
    <3> QED BY <1>5, <2>1, <3>2
  <2>3. CASE m.type # "TCN"
    <3>1. Peer[p] # p /\ FromDesignated(m) => NamesNeighbour(p, m.vec)
      BY <1>3 DEF WireSigned
    <3> HIDE DEF m
    <3>2. /\ taken.vec = ReceivedBy(m.vec, PortId[p]) /\ taken.type = m.type
          /\ taken.role = m.role
      BY <1>3 DEF Bpdu
    <3>3. Peer[p] # p /\ FromDesignated(taken) => NamesNeighbour(p, taken.vec)
      BY <3>1, <3>2 DEF FromDesignated, NamesNeighbour, ReceivedBy, DesignBridge, DesignPort
    <3> HIDE DEF taken
    <3> QED BY <1>5, <2>1, <2>3, <3>3
  <2> QED BY <2>2, <2>3
<1> QED BY <1>2, <1>4, <1>5

\* Ports that keep what is their own have as little to do as before.
LEMMA KeptIsQuiet ==
  ASSUME NEW r \in Port, st' = st, ctl' = ctl, prio' = prio, br' = br,
         adapt'[r] = adapt[r], timer'[r] = timer[r], sel'[r] = sel[r], rcv'[r] = rcv[r]
  PROVE  /\ InfoNext(r)' = InfoNext(r)
         /\ EdgeNext(r)' = EdgeNext(r)
         /\ TransmitNext(r)' = TransmitNext(r)
<1>1. InfoNext(r)' = InfoNext(r)
  BY DEF InfoNext, InfoExpired, At
<1>2. EdgeNext(r)' = EdgeNext(r)
  BY DEF EdgeNext, At
<1>3. TransmitNext(r)' = TransmitNext(r)
  BY DEF TransmitNext, CanSend, At
<1> QED BY <1>1, <1>2, <1>3

\* A frame that is taken finds its bridge at rest.
LEMMA RxLeavesUnread ==
  ASSUME TellInv, NEW p \in Port, RxBpdu(p), p \notin NonStp
  PROVE  Unread(p)'
<1> DEFINE a == [adapt[p] EXCEPT !.operEdge = FALSE, !.wasInitBpdu = TRUE]
           b == Owner[p]
<1>1. /\ TypeOK /\ SettledInv /\ Idle /\ Event /\ b \in Bridge
      /\ adapt[p] \in Adaptation /\ p \in Ports[b]
  <2>1. LoopInv /\ Idle /\ Event
    <3>1. Event
      BY DEF Event
    <3>2. Idle
      BY DEF RxBpdu
    <3> QED BY <3>1, <3>2 DEF TellInv
  <2>2. TypeOK /\ SettledInv
    BY <2>1, LoopFacts
  <2>3. b \in Bridge /\ p \in Ports[b]
    BY PortMachinesOf
  <2> QED BY <2>1, <2>2, <2>3 DEF TypeOK, StateOK
<1>2. /\ st' = st /\ ctl' = ctl /\ prio' = prio /\ br' = br /\ cur' = NoMachine
      /\ adapt'[p].portEnabled = adapt[p].portEnabled /\ updating' = {b}
  BY <1>1, EventSpares DEF RxBpdu, Update
<1>3. EnablePort(p, TRUE, a)
  BY DEF RxBpdu
<1>4. \A r \in Ports[b] :
        /\ r \in Port /\ Owner[r] = b
        /\ sel[r].selected /\ ~ sel[r].reselect /\ ~ sel[r].updtInfo
        /\ InfoNext(r) = Stay /\ EdgeNext(r) = Stay /\ ~ Loud(r)
        /\ RoleSelNext(b) = Stay /\ RoletrnsNext(r) = Stay
  <2> SUFFICES ASSUME NEW r \in Ports[b]
               PROVE  /\ r \in Port /\ Owner[r] = b
                      /\ sel[r].selected /\ ~ sel[r].reselect /\ ~ sel[r].updtInfo
                      /\ InfoNext(r) = Stay /\ EdgeNext(r) = Stay /\ ~ Loud(r)
                      /\ RoleSelNext(b) = Stay /\ RoletrnsNext(r) = Stay
    OBVIOUS
  <2>1. r \in Port /\ Owner[r] = b
    BY <1>1, BridgePorts
  <2> HIDE DEF b
  <2> QED BY <1>1, <2>1, AtRest, SelectionSettles
<1>5. CASE prio[p].infoIs = "Disabled"
  <2>1. ~ adapt[p].portEnabled /\ At("info", p) = "DISABLED"
    BY <1>1, <1>5, AtRest
  <2> QED BY <1>2, <1>5, <2>1 DEF Unread, At, NoMachine
<1>6. CASE prio[p].infoIs # "Disabled"
  <2>1. adapt[p].portEnabled = TRUE /\ At("info", p) = "CURRENT"
    <3>1. adapt[p].portEnabled /\ At("info", p) = "CURRENT"
      BY <1>1, <1>6, AtRest
    <3>2. adapt[p].portEnabled \in BOOLEAN
      BY <1>1 DEF Adaptation
    <3> QED BY <3>1, <3>2
  <2>2. sel' = sel /\ timer' = timer
    BY <1>3, <2>1 DEF EnablePort
  <2>3. st[RoleSelMachine(b)] # BEGIN
    BY <1>1, <1>4 DEF RoleSelNext, Stay, BEGIN
  <2>4. ASSUME NEW r \in Ports[b]
        PROVE  /\ Resting(r)'
               /\ r # p => InfoNext(r)' = Stay /\ EdgeNext(r)' = Stay
               /\ PortId[r] < PortId[p] => ~ Loud(r)'
    <3>1. At("roletrns", r) # BEGIN
      BY <1>4 DEF RoletrnsNext, Stay, BEGIN
    <3>2. Resting(r)'
      BY <1>2, <1>4, <2>2, <3>1 DEF Resting, At
    <3>3. ASSUME r # p
          PROVE  InfoNext(r)' = Stay /\ EdgeNext(r)' = Stay /\ ~ Loud(r)'
      <4>1. adapt'[r] = adapt[r]
        BY <1>1, <1>3, <1>4, <3>3, EnableStaysHome
      <4>2. rcv'[r] = rcv[r]
        BY <1>1, <1>4, <3>3, RxBrings DEF TellInv, TellRight
      <4>3. /\ InfoNext(r)' = InfoNext(r) /\ EdgeNext(r)' = EdgeNext(r)
            /\ TransmitNext(r)' = TransmitNext(r)
        BY <1>2, <1>4, <2>2, <4>1, <4>2, KeptIsQuiet
      <4> QED BY <1>4, <4>3 DEF Loud
    <3>4. PortId[p] \in Nat
      BY PortAssumption
    <3> QED BY <3>2, <3>3, <3>4
  <2> QED BY <1>2, <1>6, <2>1, <2>3, <2>4 DEF Unread, At, NoMachine
<1> QED BY <1>5, <1>6

LEMMA EventKeepsUnread ==
  ASSUME TellInv, Event, NEW q \in Port
  PROVE  Unread(q)'
<1>1. TypeOK /\ Idle /\ ~ rcv[q].rcvdBpdu
  <2>1. Idle
    BY EventFindsRest
  <2>2. TypeOK
    BY LoopFacts DEF TellInv
  <2> QED BY <2>1, <2>2, AtRest
<1>2. CASE rcv'[q] = rcv[q]
  BY <1>1, <1>2 DEF Unread
<1>3. CASE rcv'[q] # rcv[q]
  <2>1. PICK p \in Port : RxBpdu(p)
    BY <1>3 DEF Event, PollLink, Tick
  <2>2. q = p /\ p \notin NonStp
    BY <1>1, <1>3, <2>1, RxBrings DEF TellInv, TellRight
  <2> QED BY <2>1, <2>2, RxLeavesUnread
<1> QED BY <1>2, <1>3

LEMMA EventKeepsNewsSigned ==
  ASSUME TellInv, Event, NEW q \in Port
  PROVE  NewsSigned(q)'
<1>1. TypeOK /\ prio' = prio /\ NewsSigned(q)
  BY LoopFacts, EventSpares DEF TellInv, TellRight
<1>2. CASE rcv'[q] = rcv[q]
  BY <1>1, <1>2 DEF NewsSigned, NamesNeighbour, FromDesignated
<1>3. CASE rcv'[q] # rcv[q]
  <2>1. PICK p \in Port : RxBpdu(p)
    BY <1>3 DEF Event, PollLink, Tick
  <2>2. /\ q = p
        /\ Peer[p] # p /\ FromDesignated(rcv'[p].msg) => NamesNeighbour(p, rcv'[p].msg.vec)
    BY <1>1, <1>3, <2>1, RxBrings DEF TellInv, TellRight
  <2> QED BY <1>1, <2>2 DEF NewsSigned, NamesNeighbour, FromDesignated
<1> QED BY <1>2, <1>3

\* What is signed on the wire and what no device outside sends stay signed.
LEMMA OthersKeepWireSigned ==
  ASSUME TypeOK, Event \/ Environment, NEW q \in Port, WireSigned(q)
  PROVE  WireSigned(q)'
<1> SUFFICES ASSUME Peer[q] # q, NEW i \in 1 .. Len(wire'[q]),
                    FromDesignated(wire'[q][i])
             PROVE  NamesNeighbour(q, wire'[q][i].vec)
  BY DEF WireSigned, NamesNeighbour, FromDesignated
<1>1. PICK j \in 1 .. Len(wire[q]) : wire'[q][i] = wire[q][j]
  BY OthersSendNothing
<1> QED BY <1>1 DEF WireSigned

LEMMA EventKeepsTell ==
  ASSUME TellInv, Event, NEW q \in Port
  PROVE  TellRight(q)'
<1>1. /\ TypeOK /\ Idle /\ q \in Ports[Owner[q]] /\ Owner[q] \in Bridge
      /\ \A r \in Port : TellRight(r)
  BY LoopFacts, EventFindsRest, PortMachinesOf DEF TellInv
<1>2. /\ st' = st /\ ctl' = ctl /\ prio' = prio /\ br' = br /\ phys' = phys
      /\ cur' = NoMachine
      /\ \A r \in Port :
           /\ adapt'[r].portEnabled = adapt[r].portEnabled
           /\ \/ sel'[r] = sel[r]
              \/ sel'[r].selectedRole = "Disabled" /\ sel'[r].reselect
           /\ rcv'[r].rcvdMsg = rcv[r].rcvdMsg
  BY <1>1, EventSpares
<1>3. /\ At("info", q) \notin InfoPass
      /\ q \notin NonStp => At("roletrns", q) \notin RolePass
  BY <1>1, AtRest
<1>4. cur' # PortMachine("info", q) /\ cur' # PortMachine("roletrns", q)
  BY <1>2 DEF PortMachine, NoMachine
<1>5. PassRuns(q)' /\ SelectedFirst(q)' /\ SentFirst(q)' /\ ReadInSilence(q)'
  BY <1>2, <1>3, <1>4 DEF PassRuns, SelectedFirst, SentFirst, ReadInSilence, At, InfoPass
<1>6. Unread(q)'
  BY EventKeepsUnread
<1>7. StateTells(q)'
  BY <1>1, <1>2 DEF TellRight, StateTells, At
<1>8. LinkRight(q)'
  <2> SUFFICES ASSUME q \in phys, q \notin NonStp
               PROVE  /\ adapt'[q].portEnabled => adapt'[q].adminEnable
                      /\ ~ adapt'[q].portEnabled => prio'[q].infoIs = "Disabled"
                      /\ prio'[q].infoIs = "Disabled" =>
                           ctl'[q].role = "Disabled" /\ sel'[q].selectedRole = "Disabled"
    BY <1>2 DEF LinkRight
  <2>1. LinkRight(q)
    BY <1>1 DEF TellRight
  <2>2. \/ adapt'[q].adminEnable = adapt[q].adminEnable
        \/ adapt'[q].adminEnable
    BY <1>1, EventSets
  <2> QED BY <1>2, <2>1, <2>2 DEF LinkRight
<1>9. AskRight(q)'
  BY <1>1, <1>2, <1>3 DEF TellRight, AskRight, At, RolePass
<1>10. RootIsBest(q)'
  <2> SUFFICES ASSUME ~ Asked(Owner[q])', br'[Owner[q]].rootPortId = PortId[q]
               PROVE  Best(q)'
    BY DEF RootIsBest
  <2>1. \A r \in Ports[Owner[q]] : r \in Port
    BY <1>1, BridgePorts
  <2>2. ~ Asked(Owner[q])
    BY <1>2, <2>1 DEF Asked
  <2>3. Best(q)
    BY <1>1, <1>2, <2>2 DEF TellRight, RootIsBest
  <2> QED BY <1>2, <2>3, BestStays
<1>11. TellsRoot(q)'
  <2> SUFFICES ASSUME q \in phys, q \notin NonStp, prio[q].infoIs \in {"Received", "Aged"},
                      ctl[q].role \in SendsRole
               PROVE  ctl[q].role = "Root" /\ sel'[q].selectedRole = "Root" /\ Best(q)'
    BY <1>2 DEF TellsRoot
  <2>1. /\ ctl[q].role = "Root" /\ sel[q].selectedRole = "Root" /\ Best(q)
        /\ adapt[q].portEnabled
    BY <1>1, AtRest
  <2>2. sel'[q] = sel[q]
    BY <1>1, <2>1, EventSets
  <2> QED BY <1>2, <2>1, <2>2, BestStays
<1>12. SelfNamed(q)' /\ VerdictRight(q)'
  BY <1>1, <1>2, <1>3 DEF TellRight, SelfNamed, VerdictRight, At, InfoPass
<1>13. WireSigned(q)' /\ NewsSigned(q)'
  BY <1>1, OthersKeepWireSigned, EventKeepsNewsSigned DEF TellRight
<1> QED BY <1>5, <1>6, <1>7, <1>8, <1>9, <1>10, <1>11, <1>12, <1>13 DEF TellRight

\* The links change and strange devices send when all is at rest.
LEMMA EnvironmentKeepsTell ==
  ASSUME TellInv, Environment, NEW q \in Port
  PROVE  TellRight(q)'
<1>1. /\ UNCHANGED <<st, ctl, sel, hw, prio, rcv, tcs, timer, adapt, br, cur, updating>>
      /\ Idle
  <2>1. ASSUME NEW p \in Port, LinkChange(p)
        PROVE  UNCHANGED <<stateVars, cur, updating>> /\ Idle
    BY <2>1 DEF LinkChange
  <2>2. ASSUME NEW p \in Port, NEW m \in Foreign, ForeignFrame(p, m)
        PROVE  UNCHANGED <<stateVars, cur, updating>> /\ Idle
    BY <2>2 DEF ForeignFrame
  <2>3. UNCHANGED <<stateVars, cur, updating>> /\ Idle
    BY <2>1, <2>2 DEF Environment
  <2> QED BY <2>3 DEF stateVars
<1>2. TypeOK /\ TellRight(q)
  BY LoopFacts DEF TellInv
<1>3. PassRuns(q)' /\ StateTells(q)' /\ AskRight(q)' /\ RootIsBest(q)'
  BY <1>1, <1>2
     DEF TellRight, PassRuns, StateTells, AskRight, RootIsBest, At, Asked, Best, Contends, Path
<1>4. SelectedFirst(q)'
  BY <1>1, <1>2 DEF TellRight, SelectedFirst, RoleSelNext
<1>5. SentFirst(q)' /\ ReadInSilence(q)' /\ Unread(q)'
  <2>1. /\ At("info", q) # "RECEIVE" /\ ~ rcv[q].rcvdBpdu
    BY <1>1, AtRest DEF InfoPass
  <2>2. SentFirst(q)'
    BY <1>1, <1>2 DEF TellRight, SentFirst, Loud, TransmitNext, CanSend, At
  <2> QED BY <1>1, <2>1, <2>2 DEF ReadInSilence, Unread, At
<1>6. LinkRight(q)'
  <2>1. q \notin NonStp =>
          /\ adapt[q].portEnabled => adapt[q].adminEnable
          /\ ~ adapt[q].portEnabled => prio[q].infoIs = "Disabled"
          /\ prio[q].infoIs = "Disabled" =>
               ctl[q].role = "Disabled" /\ sel[q].selectedRole = "Disabled"
    BY <1>1, AtRest
  <2> QED BY <1>1, <2>1 DEF LinkRight
<1>7. TellsRoot(q)'
  <2>1. q \notin NonStp =>
          ( prio[q].infoIs \in {"Received", "Aged"} /\ ctl[q].role \in SendsRole
              => ctl[q].role = "Root" /\ sel[q].selectedRole = "Root" /\ Best(q) )
    BY <1>1, AtRest
  <2> QED BY <1>1, <2>1 DEF TellsRoot, Best, Contends, Path
<1>8. SelfNamed(q)' /\ VerdictRight(q)' /\ NewsSigned(q)'
  BY <1>1, <1>2
     DEF TellRight, SelfNamed, VerdictRight, NewsSigned, At, FromDesignated, NamesNeighbour
<1>9. WireSigned(q)'
  BY <1>2, OthersKeepWireSigned DEF TellRight
<1> QED BY <1>3, <1>4, <1>5, <1>6, <1>7, <1>8, <1>9 DEF TellRight

LEMMA StutterKeepsTell ==
  ASSUME TellInv, UNCHANGED vars, NEW q \in Port
  PROVE  TellRight(q)'
<1>1. UNCHANGED <<st, ctl, sel, hw, prio, rcv, tcs, timer, adapt, br, cur, updating, phys,
                  wire>>
  BY DEF vars
<1>2. TellRight(q)
  BY DEF TellInv
<1>3. PassRuns(q)' /\ StateTells(q)' /\ AskRight(q)' /\ RootIsBest(q)'
  BY <1>1, <1>2
     DEF TellRight, PassRuns, StateTells, AskRight, RootIsBest, At, Asked, Best, Contends, Path
<1>4. SelectedFirst(q)' /\ LinkRight(q)'
  BY <1>1, <1>2 DEF TellRight, SelectedFirst, RoleSelNext, LinkRight
<1>5. SentFirst(q)' /\ ReadInSilence(q)'
  BY <1>1, <1>2
     DEF TellRight, SentFirst, ReadInSilence, Loud, TransmitNext, CanSend, At
<1>6. Unread(q)'
  BY <1>1, <1>2
     DEF TellRight, Unread, Resting, Loud, TransmitNext, CanSend, At, InfoNext, InfoExpired,
         EdgeNext
<1>7. TellsRoot(q)'
  BY <1>1, <1>2
     DEF TellRight, TellsRoot, Best, Contends, Path, Loud, TransmitNext, CanSend, At
<1>8. SelfNamed(q)' /\ VerdictRight(q)' /\ NewsSigned(q)' /\ WireSigned(q)'
  BY <1>1, <1>2
     DEF TellRight, SelfNamed, VerdictRight, NewsSigned, WireSigned, At, FromDesignated,
         NamesNeighbour
<1> QED BY <1>3, <1>4, <1>5, <1>6, <1>7, <1>8 DEF TellRight

\* At start-up nothing has been sent, heard or selected.
LEMMA InitTell == Init => TellInv
<1> SUFFICES ASSUME Init
             PROVE  TellInv
  OBVIOUS
<1>1. InitState(phys) /\ cur = NoMachine /\ phys \subseteq Port
      /\ wire = [p \in Port |-> <<>>]
  BY EnvironmentAssumption DEF Init
<1>2. LoopInv
  BY InitLoop
<1>3. RunsHome
  BY <1>1 DEF RunsHome
<1>4. ASSUME NEW p \in Port
      PROVE  TellRight(p)
  <2>1. /\ \A k \in PortKind : At(k, p) = BEGIN
        /\ "info" \in PortKind /\ "roletrns" \in PortKind /\ "edge" \in PortKind
        /\ "transmit" \in PortKind
    <3>1. \A k \in PortKind : PortMachine(k, p) \in Machine
      BY DEF Machine, PortMachine
    <3> QED BY <1>1, <3>1, Kinds DEF InitState, At
  <2>2. /\ prio[p].infoIs = "Disabled" /\ ~ adapt[p].portEnabled
        /\ ctl[p].role = "Disabled" /\ sel[p].selectedRole = "Disabled" /\ sel[p].reselect
        /\ ~ rcv[p].rcvdBpdu /\ rcv[p].rcvdMsg = "Other" /\ rcv[p].msg = NoBpdu
        /\ wire[p] = <<>>
    BY <1>1 DEF InitState
  <2>3. cur # PortMachine("info", p) /\ cur # PortMachine("roletrns", p)
    BY <1>1 DEF PortMachine, NoMachine
  <2>4. PassRuns(p) /\ StateTells(p) /\ LinkRight(p) /\ AskRight(p)
    BY <2>1, <2>2
       DEF PassRuns, StateTells, LinkRight, AskRight, InfoPass, RolePass, RootPass, DesgPass,
           BEGIN
  <2>5. RootIsBest(p)
    BY <2>2, PortMachinesOf DEF RootIsBest, Asked
  <2>6. SelectedFirst(p) /\ SentFirst(p) /\ ReadInSilence(p) /\ Unread(p)
    BY <2>1, <2>2, <2>3 DEF SelectedFirst, SentFirst, ReadInSilence, Unread, BEGIN
  <2>7. TellsRoot(p) /\ SelfNamed(p) /\ VerdictRight(p)
    BY <2>1, <2>2 DEF TellsRoot, SelfNamed, VerdictRight, BEGIN
  <2>8. WireSigned(p) /\ NewsSigned(p)
    BY <2>2 DEF WireSigned, NewsSigned, FromDesignated, NoBpdu
  <2> QED BY <2>4, <2>5, <2>6, <2>7, <2>8 DEF TellRight
<1> QED BY <1>2, <1>3, <1>4 DEF TellInv

\* Every step keeps the invariant.
LEMMA NextKeepsTell == TellInv /\ [Next]_vars => TellInv'
<1> SUFFICES ASSUME TellInv, [Next]_vars
             PROVE  TellInv'
  OBVIOUS
<1>1. LoopInv' /\ RunsHome'
  BY NextKeepsLoop, NextKeepsHome, LoopFacts DEF TellInv
<1>2. CASE MachineStep
  BY <1>1, <1>2, MoveKeepsTell DEF TellInv
<1>3. CASE UpdateDone
  BY <1>1, <1>3, DoneKeepsTell DEF TellInv
<1>4. CASE Event
  BY <1>1, <1>4, EventKeepsTell DEF TellInv
<1>5. CASE Environment
  BY <1>1, <1>5, EnvironmentKeepsTell DEF TellInv
<1>6. CASE UNCHANGED vars
  BY <1>1, <1>6, StutterKeepsTell DEF TellInv
<1> QED BY <1>2, <1>3, <1>4, <1>5, <1>6 DEF Next, System

-----------------------------------------------------------------------------
\* What a port sends as designated is its own, and only a port whose selection
\* is through sends at all on what it was told: as the root port it is.
THEOREM TellInvariant == Spec => []TellInv
BY InitTell, NextKeepsTell, PTL DEF Spec

\* On a link between two ports of the network nothing passes for news, on the
\* way or taken already, that the other end did not say of itself.
THEOREM NewsIsSigned == Spec => []ToldByNeighbour
<1>1. TellInv => ToldByNeighbour
  BY DEF TellInv, TellRight, WireSigned, NewsSigned, ToldByNeighbour
<1> QED BY <1>1, TellInvariant, PTL

=============================================================================
