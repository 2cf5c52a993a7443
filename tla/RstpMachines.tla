---------------------------- MODULE RstpMachines ----------------------------
(***************************************************************************)
(* The state machines of RSTP.  Each has an operator M_Next, the state     *)
(* STP_M_check_conditions hops to (Stay when it returns False), and an     *)
(* action M_Enter, the entry action STP_M_enter_state runs in a state.     *)
(* Entering changes what the action says; the machine's own state is       *)
(* changed by the engine, in Rstp.                                         *)
(***************************************************************************)
EXTENDS RstpState

CONSTANT
  Peer           \* the port at the other end of a port's link; itself if none

ASSUME PeerAssumption ==
  /\ Peer \in [Port -> Port]
  /\ \A p \in Port : Peer[Peer[p]] = p

VARIABLES
  phys,          \* the ports whose link is up (STP_OUT_get_port_link_status)
  wire           \* port -> frames on their way to it, oldest first

At(k, p)     == st[PortMachine(k, p)]
RootTimes(p) == br[Owner[p]].rootTimes

\* The other ports of p's bridge.
Siblings == [p \in Port |-> Ports[Owner[p]] \ {p}]

-----------------------------------------------------------------------------
(***************************************************************************)
(* Port role selection (rolesel.c), one per bridge.                        *)
(***************************************************************************)
\* Mutant of RoleSelNext: waits until every port asks for it.
RoleSelNextAll(b) ==
  IF st[RoleSelMachine(b)] = BEGIN \/ \A p \in Ports[b] : sel[p].reselect
  THEN "ROLE_SELECTION" ELSE Stay

RoleSelNext(b) ==
  CASE st[RoleSelMachine(b)] = BEGIN -> "ROLE_SELECTION"
    [] OTHER -> IF \E p \in Ports[b] : sel[p].reselect
                THEN "ROLE_SELECTION" ELSE Stay

\* Mutant of RootPathPrio: leaves out the cost of the port.
RootPathPrioFree(p) == prio[p].portPrio

\* The vector of the path to the root through p.
RootPathPrio(p) == AddCost(prio[p].portPrio, adapt[p].operPCost)

\* Mutant of RootCandidates: does not ask whether the information is alive.
RootCandidatesAnyAge(b) ==
  {p \in Ports[b] \ NonStp : VecLess(RootPathPrio(p), OwnPrio(b))}

\* updtRootPrio: the ports whose information beats the bridge's own.
RootCandidates(b) ==
  {p \in Ports[b] \ NonStp :
     prio[p].infoIs = "Received" /\ VecLess(RootPathPrio(p), OwnPrio(b))}

\* None of the candidates leads to a better root than p.
IsBestOf(b, p) ==
  \A q \in RootCandidates(b) : ~ VecLess(RootPathPrio(q), RootPathPrio(p))

(***************************************************************************)
(* updtRootPrio: the root priority, times and port these ports give.  The  *)
(* code goes through the ports and keeps the better of two, which leaves   *)
(* it with a best one.  (If the costs are too far apart to be in order     *)
(* there may be none, and which port is left depends on where the loop     *)
(* began: some candidate.)                                                 *)
(***************************************************************************)
Elected(b) ==
  IF RootCandidates(b) = {}
  THEN [rootPrio |-> OwnPrio(b), rootTimes |-> BrTimes[b], rootPortId |-> 0]
  ELSE LET best == CHOOSE p \in RootCandidates(b) :
                     (\E q \in RootCandidates(b) : IsBestOf(b, q)) => IsBestOf(b, p)
       IN  [rootPrio   |-> RootPathPrio(best),
            rootTimes  |-> AgeOneHop(prio[best].portTimes),
            rootPortId |-> BridgePort(RootPathPrio(best))]

\* Mutant of RoleFor: the comparison that makes a port designated is reversed.
RoleForReversed(p, e) ==
  CASE p \in NonStp -> "NonStp"
    [] p \notin NonStp /\ prio[p].infoIs = "Disabled" -> "Disabled"
    [] p \notin NonStp /\ prio[p].infoIs \in {"Aged", "Mine"} -> "Designated"
    [] OTHER ->
         IF e.rootPortId = PortId[p] THEN "Root"
         ELSE IF VecLess(prio[p].portPrio, DesignPrioFor(p, e.rootPrio))
              THEN "Designated" ELSE "Alternate"

\* Mutant of RoleFor: every port with news of a better root is a root port.
RoleForAllRoots(p, e) ==
  CASE p \in NonStp -> "NonStp"
    [] p \notin NonStp /\ prio[p].infoIs = "Disabled" -> "Disabled"
    [] p \notin NonStp /\ prio[p].infoIs \in {"Aged", "Mine"} -> "Designated"
    [] OTHER -> IF p \in RootCandidates(Owner[p]) THEN "Root" ELSE "Designated"

\* updtRolesBridge, the switch on infoIs: the role of port p given e.
RoleFor(p, e) ==
  CASE p \in NonStp -> "NonStp"
    [] p \notin NonStp /\ prio[p].infoIs = "Disabled" -> "Disabled"
    [] p \notin NonStp /\ prio[p].infoIs \in {"Aged", "Mine"} -> "Designated"
    [] OTHER ->
         IF e.rootPortId = PortId[p] THEN "Root"
         ELSE IF VecLess(DesignPrioFor(p, e.rootPrio), prio[p].portPrio)
              THEN "Designated"
         ELSE IF DesignBridge(prio[p].portPrio) = Owner[p] THEN "Backup"
         ELSE "Alternate"

\* updtRolesBridge: what it leaves in updtInfo.
UpdtInfoFor(p, e) ==
  CASE p \in NonStp \/ prio[p].infoIs = "Disabled" -> sel[p].updtInfo
    [] prio[p].infoIs = "Aged" /\ p \notin NonStp -> TRUE
    [] prio[p].infoIs = "Mine" /\ p \notin NonStp ->
         \/ sel[p].updtInfo
         \/ prio[p].portPrio # DesignPrioFor(p, e.rootPrio)
         \/ prio[p].portTimes # e.rootTimes
    [] OTHER -> RoleFor(p, e) = "Designated"

\* clearReselectBridge, updtRolesBridge and setSelectedBridge, for bridge b.
UpdtRolesBridge(b) ==
  LET e == Elected(b)
  IN /\ br' = [br EXCEPT ![b] = e]
     /\ sel' = [p \in Port |->
          IF Owner[p] # b THEN sel[p]
          ELSE [selectedRole |-> RoleFor(p, e), selected |-> TRUE,
                reselect |-> FALSE, updtInfo |-> UpdtInfoFor(p, e)]]
     /\ prio' = [p \in Port |->
          IF Owner[p] # b \/ p \in NonStp THEN prio[p]
          ELSE [prio[p] EXCEPT !.designPrio = DesignPrioFor(p, e.rootPrio),
                               !.designTimes = e.rootTimes]]
     /\ ctl' = [p \in Port |->
          IF Owner[p] # b \/ p \notin NonStp THEN ctl[p]
          ELSE [ctl[p] EXCEPT !.role = "NonStp", !.learn = TRUE,
                              !.forward = TRUE]]

RoleSelEnter(b) ==
  /\ UpdtRolesBridge(b)
  /\ UNCHANGED <<hw, rcv, tcs, timer, adapt, phys, wire>>

-----------------------------------------------------------------------------
(***************************************************************************)
(* Port transmit (transmit.c).                                             *)
(***************************************************************************)
SendsRole == {"Root", "Designated"}

\* Mutant of CanSend: the limit is the wrong way round.
CanSendBeyond(p) == ctl[p].newInfo /\ timer[p].txCount > TxHoldCount

CanSend(p) == ctl[p].newInfo /\ timer[p].txCount < TxHoldCount

TransmitNext(p) ==
  CASE At("transmit", p) = BEGIN -> "TRANSMIT_INIT"
    [] At("transmit", p) = "IDLE" ->
         IF timer[p].helloWhen = 0 THEN "TRANSMIT_PERIODIC"
         ELSE IF ~ CanSend(p) \/ ctl[p].role \notin SendsRole THEN Stay
         ELSE IF adapt[p].sendRSTP THEN "TRANSMIT_RSTP"
         ELSE IF ctl[p].role = "Designated" THEN "TRANSMIT_CONFIG"
         ELSE "TRANSMIT_TCN"
    [] OTHER -> "IDLE"

\* Mutant of RoleField: every port that carries traffic claims to be designated.
RoleFieldLoud(role) ==
  CASE role \in {"Alternate", "Backup"} -> "AltBack"
    [] role \in SendsRole -> "Designated"
    [] OTHER -> "Unknown"

\* txRstp: the role field of the flags comes from selectedRole.
RoleField(role) ==
  CASE role \in {"Alternate", "Backup"} -> "AltBack"
    [] role \in SendsRole -> role
    [] OTHER -> "Unknown"

\* build_config_bpdu, and the flags txRstp adds.
BpduOf(p, type) ==
  [type |-> type,
   role      |-> IF type = "RSTP" THEN RoleField(sel[p].selectedRole) ELSE "Unknown",
   tc        |-> timer[p].tcWhile > 0,
   tcAck     |-> type = "Config" /\ tcs[p].tcAck,
   proposal  |-> type = "RSTP" /\ ctl[p].proposing,
   agreement |-> type = "RSTP" /\ ctl[p].synced,
   vec       |-> prio[p].portPrio,
   times     |-> prio[p].portTimes]

TcnBpdu == [NoBpdu EXCEPT !.type = "TCN"]

(***************************************************************************)
(* STP_OUT_tx_bpdu: hand a frame to the switch chip.  It reaches the port  *)
(* at the other end of the link, if there is one and the link is up.  A    *)
(* port that takes no part in the protocol sends nothing.                  *)
(***************************************************************************)
Send(p, m) ==
  wire' = IF p \in NonStp \/ Peer[p] = p \/ p \notin phys THEN wire
          ELSE [wire EXCEPT ![Peer[p]] = Append(@, m)]

TransmitEnter(p, s) ==
  /\ UNCHANGED <<sel, hw, prio, rcv, adapt, br, phys>>
  /\ \/ /\ s = "TRANSMIT_INIT"
        /\ ctl' = [ctl EXCEPT ![p].newInfo = FALSE]
        /\ timer' = [timer EXCEPT ![p].helloWhen = 0, ![p].txCount = 0]
        /\ UNCHANGED <<tcs, wire>>
     \/ /\ s = "TRANSMIT_PERIODIC"
        /\ ctl' = [ctl EXCEPT ![p].newInfo =
             \/ @
             \/ ctl[p].role = "Designated"
             \/ (ctl[p].role = "Root" /\ timer[p].tcWhile > 0)]
        /\ timer' = [timer EXCEPT ![p].helloWhen = RootTimes(p).HelloTime]
        /\ UNCHANGED <<tcs, wire>>
     \/ /\ s = "IDLE"
        /\ UNCHANGED <<ctl, timer, tcs, wire>>
     \/ /\ s \in {"TRANSMIT_CONFIG", "TRANSMIT_RSTP"}
        /\ ctl' = [ctl EXCEPT ![p].newInfo = FALSE]
        /\ Send(p, BpduOf(p, IF s = "TRANSMIT_RSTP" THEN "RSTP" ELSE "Config"))
        /\ timer' = [timer EXCEPT ![p].txCount = @ + 1]
        /\ tcs' = [tcs EXCEPT ![p].tcAck = FALSE]
     \/ /\ s = "TRANSMIT_TCN"
        /\ ctl' = [ctl EXCEPT ![p].newInfo = FALSE]
        /\ Send(p, TcnBpdu)
        /\ timer' = [timer EXCEPT ![p].txCount = @ + 1]
        /\ UNCHANGED tcs

-----------------------------------------------------------------------------
(***************************************************************************)
(* Port state transition (sttrans.c): drives the switch chip.              *)
(***************************************************************************)
\* Mutant of SttransNext: a port that forwards is never shut.
SttransNextSticky(p) ==
  CASE At("sttrans", p) = BEGIN -> "DISCARDING"
    [] At("sttrans", p) = "DISCARDING" ->
         IF ctl[p].learn THEN "LEARNING" ELSE Stay
    [] At("sttrans", p) = "LEARNING" ->
         IF ctl[p].forward THEN "FORWARDING"
         ELSE IF ~ ctl[p].learn THEN "DISCARDING" ELSE Stay
    [] OTHER -> Stay

SttransNext(p) ==
  CASE At("sttrans", p) = BEGIN -> "DISCARDING"
    [] At("sttrans", p) = "DISCARDING" ->
         IF ctl[p].learn THEN "LEARNING" ELSE Stay
    [] At("sttrans", p) = "LEARNING" ->
         IF ctl[p].forward THEN "FORWARDING"
         ELSE IF ~ ctl[p].learn THEN "DISCARDING" ELSE Stay
    [] OTHER -> IF ctl[p].forward THEN Stay ELSE "DISCARDING"

SttransEnter(p, s) ==
  /\ UNCHANGED <<ctl, sel, prio, rcv, timer, adapt, br, phys, wire>>
  /\ \/ /\ s = "DISCARDING"
        /\ hw' = [hw EXCEPT ![p] = [learning |-> FALSE, forwarding |-> FALSE]]
        /\ UNCHANGED tcs
     \/ /\ s = "LEARNING"
        /\ hw' = [hw EXCEPT ![p].learning = TRUE]
        /\ UNCHANGED tcs
     \/ /\ s = "FORWARDING"
        /\ hw' = [hw EXCEPT ![p].forwarding = TRUE]
        /\ tcs' = [tcs EXCEPT ![p].tc = ~ adapt[p].operEdge]

-----------------------------------------------------------------------------
(***************************************************************************)
(* Port role transitions (roletrns.c).                                     *)
(***************************************************************************)
RootPass  == {"ROOT_PROPOSED", "ROOT_AGREED", "REROOT", "REROOTED",
              "ROOT_LEARN", "ROOT_FORWARD"}
DesgPass  == {"DESIGNATED_PROPOSE", "DESIGNATED_SYNCED", "DESIGNATED_RETIRED",
              "DESIGNATED_LISTEN", "DESIGNATED_LEARN", "DESIGNATED_FORWARD"}
BlockState == {"BLOCK_PORT", "BLOCKED_PORT", "BACKUP_PORT"}

AllSynced(p)   == \A q \in Siblings[p] : ctl[q].synced
AllReRooted(p) == \A q \in Siblings[p] : timer[q].rrWhile = 0

\* Nothing selected for the port is still waiting to be announced.
Settled(p) == sel[p].selected /\ ~ sel[p].updtInfo

BlockedPortNext(p) ==
  IF \/ timer[p].fdWhile # RootTimes(p).ForwardDelay
     \/ ctl[p].sync \/ ctl[p].reRoot \/ ~ ctl[p].synced
  THEN "BLOCKED_PORT"
  ELSE IF timer[p].rbWhile # 2 * RootTimes(p).HelloTime /\ ctl[p].role = "Backup"
  THEN "BACKUP_PORT"
  ELSE Stay

\* A root port may open: its delay is over, or no other port still leads
\* where the root was before (RSTP only).
RootMayOpen(p) ==
  \/ timer[p].fdWhile = 0
  \/ AllReRooted(p) /\ timer[p].rbWhile = 0 /\ ForceVersion[Owner[p]] >= 2

RootPortNext(p) ==
  LET c == ctl[p]
  IN  IF ~ c.forward /\ ~ c.reRoot THEN "REROOT"
      ELSE IF (c.proposed \/ ~ c.synced) /\ AllSynced(p) THEN "ROOT_AGREED"
      ELSE IF c.proposed /\ ~ c.synced THEN "ROOT_PROPOSED"
      ELSE IF RootMayOpen(p) /\ c.learn /\ ~ c.forward THEN "ROOT_FORWARD"
      ELSE IF RootMayOpen(p) /\ ~ c.learn THEN "ROOT_LEARN"
      ELSE IF c.reRoot /\ c.forward THEN "REROOTED"
      ELSE IF timer[p].rrWhile # RootTimes(p).ForwardDelay THEN "ROOT_PORT"
      ELSE Stay

\* Mutant of DesgMayOpen: the delay never ends.
DesgMayOpenAgreed(p) ==
  /\ ctl[p].agreed \/ adapt[p].operEdge
  /\ timer[p].rrWhile = 0 \/ ~ ctl[p].reRoot
  /\ ~ ctl[p].sync

\* A designated port may open: its delay is over, or the neighbour agreed,
\* or it is an edge port; and nothing asks it to stay closed.
DesgMayOpen(p) ==
  /\ timer[p].fdWhile = 0 \/ ctl[p].agreed \/ adapt[p].operEdge
  /\ timer[p].rrWhile = 0 \/ ~ ctl[p].reRoot
  /\ ~ ctl[p].sync

DesgMustSync(p) ==
  \/ ~ hw[p].learning /\ ~ hw[p].forwarding /\ ~ ctl[p].synced
  \/ ctl[p].agreed /\ ~ ctl[p].synced
  \/ adapt[p].operEdge /\ ~ ctl[p].synced
  \/ ctl[p].sync /\ ctl[p].synced

DesgMustClose(p) ==
  /\ (ctl[p].sync /\ ~ ctl[p].synced) \/ (ctl[p].reRoot /\ timer[p].rrWhile > 0)
  /\ ~ adapt[p].operEdge
  /\ ctl[p].learn \/ ctl[p].forward

DesgPortNext(p) ==
  LET c == ctl[p]
  IN  IF ~ c.forward /\ ~ c.agreed /\ ~ c.proposing /\ ~ adapt[p].operEdge
      THEN "DESIGNATED_PROPOSE"
      ELSE IF timer[p].rrWhile = 0 /\ c.reRoot THEN "DESIGNATED_RETIRED"
      ELSE IF DesgMustSync(p) THEN "DESIGNATED_SYNCED"
      ELSE IF DesgMayOpen(p) /\ c.learn /\ ~ c.forward THEN "DESIGNATED_FORWARD"
      ELSE IF DesgMayOpen(p) /\ ~ c.learn THEN "DESIGNATED_LEARN"
      ELSE IF DesgMustClose(p) THEN "DESIGNATED_LISTEN"
      ELSE Stay

\* The state that starts a new role.
RoleEntryState(role) ==
  CASE role \in BlockedRole -> "BLOCK_PORT"
    [] role = "Root" -> "ROOT_PORT"
    [] role = "Designated" -> "DESIGNATED_PORT"
    [] OTHER -> Stay

RoletrnsNext(p) ==
  LET x == At("roletrns", p)
  IN  IF x = BEGIN THEN "INIT_PORT"
      ELSE IF ctl[p].role # sel[p].selectedRole /\ Settled(p)
      THEN RoleEntryState(sel[p].selectedRole)
      ELSE CASE x = "INIT_PORT" -> "BLOCK_PORT"
             [] x \in RootPass -> "ROOT_PORT"
             [] x \in DesgPass -> "DESIGNATED_PORT"
             [] x = "BACKUP_PORT" -> "BLOCKED_PORT"
             [] OTHER ->
                  IF ~ Settled(p) THEN Stay
                  ELSE CASE x = "BLOCK_PORT" ->
                              IF hw[p].learning \/ hw[p].forwarding
                              THEN Stay ELSE "BLOCKED_PORT"
                         [] x = "BLOCKED_PORT" -> BlockedPortNext(p)
                         [] x = "ROOT_PORT" -> RootPortNext(p)
                         [] OTHER -> DesgPortNext(p)

\* Mutant of BlockPort: leaves the forward flag as it was.
BlockPortLearning(p) ==
  ctl' = [ctl EXCEPT ![p].role = sel[p].selectedRole, ![p].learn = FALSE]

\* Entering BLOCK_PORT: take the role that was selected and shut the port.
BlockPort(p) ==
  ctl' = [ctl EXCEPT ![p].role = sel[p].selectedRole,
                     ![p].learn = FALSE, ![p].forward = FALSE]

RoletrnsEnter(p, s) ==
  /\ UNCHANGED <<hw, prio, rcv, tcs, adapt, br, phys, wire>>
  /\ s # "INIT_PORT" => UNCHANGED sel
  /\ \/ /\ s = "INIT_PORT"
        /\ ctl' = [ctl EXCEPT ![p].role = "Disabled", ![p].synced = FALSE,
                              ![p].sync = TRUE, ![p].reRoot = TRUE]
        /\ sel' = [sel EXCEPT ![p].selectedRole = "Disabled", ![p].reselect = TRUE]
        /\ timer' = [timer EXCEPT ![p].rrWhile = RootTimes(p).ForwardDelay,
                                  ![p].fdWhile = RootTimes(p).ForwardDelay,
                                  ![p].rbWhile = 0]
     \/ s = "BLOCK_PORT" /\ BlockPort(p) /\ UNCHANGED timer
     \/ /\ s = "BLOCKED_PORT"
        /\ ctl' = [ctl EXCEPT ![p].synced = TRUE, ![p].sync = FALSE,
                              ![p].reRoot = FALSE]
        /\ timer' = [timer EXCEPT ![p].fdWhile = RootTimes(p).ForwardDelay,
                                  ![p].rrWhile = 0]
     \/ /\ s = "BACKUP_PORT"
        /\ timer' = [timer EXCEPT ![p].rbWhile = 2 * RootTimes(p).HelloTime]
        /\ UNCHANGED ctl
     \/ /\ s = "ROOT_PROPOSED"      \* setSyncBridge
        /\ ctl' = [q \in Port |->
             [ctl[q] EXCEPT !.sync = @ \/ Owner[q] = Owner[p],
                            !.proposed = @ /\ q # p]]
        /\ UNCHANGED timer
     \/ /\ s = "ROOT_AGREED"
        /\ ctl' = [ctl EXCEPT ![p].proposed = FALSE, ![p].sync = FALSE,
                              ![p].synced = TRUE, ![p].newInfo = TRUE]
        /\ UNCHANGED timer
     \/ /\ s = "REROOT"             \* setReRootBridge
        /\ ctl' = [q \in Port |->
             [ctl[q] EXCEPT !.reRoot = @ \/ Owner[q] = Owner[p]]]
        /\ UNCHANGED timer
     \/ /\ s = "ROOT_PORT"
        /\ ctl' = [ctl EXCEPT ![p].role = "Root"]
        /\ timer' = [timer EXCEPT ![p].rrWhile = RootTimes(p).ForwardDelay]
     \/ /\ s \in {"REROOTED", "DESIGNATED_RETIRED"}
        /\ ctl' = [ctl EXCEPT ![p].reRoot = FALSE]
        /\ UNCHANGED timer
     \/ /\ s \in {"ROOT_LEARN", "DESIGNATED_LEARN"}
        /\ ctl' = [ctl EXCEPT ![p].learn = TRUE]
        /\ timer' = [timer EXCEPT ![p].fdWhile = RootTimes(p).ForwardDelay]
     \/ /\ s \in {"ROOT_FORWARD", "DESIGNATED_FORWARD"}
        /\ ctl' = [ctl EXCEPT ![p].forward = TRUE]
        /\ timer' = [timer EXCEPT ![p].fdWhile = 0]
     \/ /\ s = "DESIGNATED_PROPOSE"
        /\ ctl' = [ctl EXCEPT ![p].proposing = TRUE, ![p].newInfo = TRUE]
        /\ UNCHANGED timer
     \/ /\ s = "DESIGNATED_SYNCED"
        /\ ctl' = [ctl EXCEPT ![p].synced = TRUE, ![p].sync = FALSE]
        /\ timer' = [timer EXCEPT ![p].rrWhile = 0]
     \/ /\ s = "DESIGNATED_PORT"
        /\ ctl' = [ctl EXCEPT ![p].role = "Designated"]
        /\ UNCHANGED timer
     \/ /\ s = "DESIGNATED_LISTEN"
        /\ ctl' = [ctl EXCEPT ![p].learn = FALSE, ![p].forward = FALSE]
        /\ timer' = [timer EXCEPT ![p].fdWhile = RootTimes(p).ForwardDelay]

-----------------------------------------------------------------------------
(***************************************************************************)
(* Port information (portinfo.c): what the port knows of its segment.      *)
(***************************************************************************)
\* Only a designated port's information is compared: an RSTP frame says so,
\* a configuration frame always is.
FromDesignated(m) == m.type = "Config" \/ (m.type = "RSTP" /\ m.role = "Designated")

(***************************************************************************)
(* rcvBpdu.  Information replaces what the port has when it is better, or  *)
(* comes from the same designated port with other times.  The last test    *)
(* takes an agreement from any RSTP frame: the code compares the BPDU type *)
(* (2), not the port role, with RSTP_PORT_ROLE_ROOT (2).                   *)
(***************************************************************************)
RcvBpdu(p) ==
  LET m == rcv[p].msg
      v == prio[p].portPrio
      t == prio[p].portTimes
      sameSender == DesignBridge(m.vec) = DesignBridge(v) /\ DesignPort(m.vec) = DesignPort(v)
  IN  IF FromDesignated(m)
         /\ (VecLess(m.vec, v) \/ (sameSender /\ m.times # t))
      THEN "Superior"
      ELSE IF FromDesignated(m) /\ m.vec = v /\ m.times = t THEN "Repeated"
      ELSE IF /\ m.type = "RSTP" /\ m.agreement
              /\ adapt[p].operP2P
              /\ DesignBridge(m.vec) = DesignBridge(v)
      THEN "ConfirmedRoot"
      ELSE "Other"

RecordProposed(p) ==
  /\ rcv[p].msg.type = "RSTP" /\ rcv[p].msg.role = "Designated"
  /\ rcv[p].msg.proposal /\ adapt[p].operP2P

\* Mutant of InfoExpired: looks at aged information, not at received.
InfoExpiredAged(p) ==
  /\ prio[p].infoIs = "Aged" /\ timer[p].rcvdInfoWhile = 0
  /\ ~ sel[p].updtInfo /\ ~ rcv[p].rcvdBpdu

\* Nothing was heard from the neighbour for as long as its information lives.
InfoExpired(p) ==
  /\ prio[p].infoIs = "Received" /\ timer[p].rcvdInfoWhile = 0
  /\ ~ sel[p].updtInfo /\ ~ rcv[p].rcvdBpdu

InfoNext(p) ==
  LET x == At("info", p)
      settledNews == sel[p].selected /\ sel[p].updtInfo
  IN  IF (~ adapt[p].portEnabled /\ prio[p].infoIs # "Disabled") \/ x = BEGIN
      THEN "DISABLED"
      ELSE CASE x = "DISABLED" ->
                  IF sel[p].updtInfo THEN "DISABLED"
                  ELSE IF adapt[p].portEnabled /\ sel[p].selected THEN "ENABLED"
                  ELSE IF rcv[p].rcvdBpdu THEN "DISABLED" ELSE Stay
             [] x = "ENABLED" -> "AGED"
             [] x = "AGED" -> IF settledNews THEN "UPDATE" ELSE Stay
             [] x = "CURRENT" ->
                  IF settledNews THEN "UPDATE"
                  ELSE IF InfoExpired(p) THEN "AGED"
                  ELSE IF rcv[p].rcvdBpdu /\ ~ sel[p].updtInfo THEN "RECEIVE"
                  ELSE Stay
             [] x = "RECEIVE" ->
                  CASE rcv[p].rcvdMsg = "Superior" -> "SUPERIOR"
                    [] rcv[p].rcvdMsg = "Repeated" -> "REPEAT"
                    [] rcv[p].rcvdMsg = "ConfirmedRoot" -> "AGREEMENT"
                    [] OTHER -> "CURRENT"
             [] OTHER -> "CURRENT"

\* Entering DISABLED forgets what was received and decided on the port.
InfoDisabled(p) ==
  /\ rcv' = [rcv EXCEPT ![p].rcvdBpdu = FALSE, ![p].rcvdRSTP = FALSE,
                        ![p].rcvdSTP = FALSE]
  /\ ctl' = [ctl EXCEPT ![p].proposing = FALSE, ![p].agreed = FALSE,
                        ![p].proposed = FALSE]
  /\ sel' = [sel EXCEPT ![p].updtInfo = FALSE, ![p].reselect = TRUE,
                        ![p].selected = FALSE]
  /\ timer' = [timer EXCEPT ![p].rcvdInfoWhile = 0]
  /\ prio' = [prio EXCEPT ![p].infoIs = "Disabled"]
  /\ UNCHANGED tcs

\* rcvBpdu, updtBPDUVersion and setTcFlags, which takes every frame that is
\* not a TCN for a topology change, whatever its TC flag says.
InfoReceive(p) ==
  LET m == rcv[p].msg
      version1 == m.type \in {"TCN", "Config"}
  IN  /\ rcv' = [rcv EXCEPT ![p].rcvdMsg = RcvBpdu(p), ![p].rcvdBpdu = FALSE,
                            ![p].rcvdSTP = @ \/ version1,
                            ![p].rcvdRSTP = @ \/ m.type = "RSTP"]
      /\ tcs' = [tcs EXCEPT ![p].rcvdTcn = @ \/ m.type = "TCN",
                            ![p].rcvdTc = @ \/ m.type # "TCN",
                            ![p].rcvdTcAck = @ \/ m.tcAck]
      /\ UNCHANGED <<ctl, sel, timer, prio>>

InfoSuperior(p) ==
  LET m == rcv[p].msg
  IN  /\ prio' = [prio EXCEPT ![p].portPrio = m.vec, ![p].portTimes = m.times,
                              ![p].infoIs = "Received"]
      /\ timer' = [timer EXCEPT ![p].rcvdInfoWhile = InfoLifetime(m.times)]
      /\ ctl' = [ctl EXCEPT ![p].agreed = FALSE, ![p].synced = FALSE,
                            ![p].proposing = FALSE,
                            ![p].proposed = RecordProposed(p)]
      /\ sel' = [sel EXCEPT ![p].reselect = TRUE, ![p].selected = FALSE]
      /\ UNCHANGED <<rcv, tcs>>

InfoUpdate(p) ==
  /\ prio' = [prio EXCEPT ![p].portPrio = prio[p].designPrio,
                          ![p].portTimes = prio[p].designTimes,
                          ![p].infoIs = "Mine"]
  /\ sel' = [sel EXCEPT ![p].updtInfo = FALSE]
  /\ ctl' = [ctl EXCEPT ![p].agreed = FALSE, ![p].synced = FALSE,
                        ![p].proposed = FALSE, ![p].proposing = FALSE,
                        ![p].newInfo = TRUE]
  /\ UNCHANGED <<rcv, timer, tcs>>

\* Mutant of InfoAged: does not ask for a new selection.
InfoAgedUnasked(p) ==
  /\ prio' = [prio EXCEPT ![p].infoIs = "Aged"]
  /\ UNCHANGED <<rcv, ctl, sel, timer, tcs>>

\* Information that has died makes the bridge look for its root anew.
InfoAged(p) ==
  /\ prio' = [prio EXCEPT ![p].infoIs = "Aged"]
  /\ sel' = [sel EXCEPT ![p].reselect = TRUE, ![p].selected = FALSE]
  /\ UNCHANGED <<rcv, ctl, timer, tcs>>

InfoEnter(p, s) ==
  /\ UNCHANGED <<hw, adapt, br, phys, wire>>
  /\ \/ s = "DISABLED" /\ InfoDisabled(p)
     \/ /\ s = "ENABLED"
        /\ prio' = [prio EXCEPT ![p].portPrio = prio[p].designPrio,
                                ![p].portTimes = prio[p].designTimes]
        /\ UNCHANGED <<rcv, ctl, sel, timer, tcs>>
     \/ s = "AGED" /\ InfoAged(p)
     \/ s = "UPDATE" /\ InfoUpdate(p)
     \/ s = "CURRENT" /\ UNCHANGED <<rcv, ctl, sel, timer, prio, tcs>>
     \/ s = "RECEIVE" /\ InfoReceive(p)
     \/ s = "SUPERIOR" /\ InfoSuperior(p)
     \/ /\ s = "REPEAT"
        /\ ctl' = [ctl EXCEPT ![p].proposed = RecordProposed(p)]
        /\ timer' = [timer EXCEPT ![p].rcvdInfoWhile = InfoLifetime(prio[p].portTimes)]
        /\ UNCHANGED <<rcv, sel, prio, tcs>>
     \/ /\ s = "AGREEMENT"
        /\ ctl' = [ctl EXCEPT ![p].agreed = TRUE, ![p].proposing = FALSE]
        /\ UNCHANGED <<rcv, sel, timer, prio, tcs>>

-----------------------------------------------------------------------------
(***************************************************************************)
(* Path cost, edge, point-to-point and protocol migration (pcost.c,        *)
(* edge.c, p2p.c, migrate.c).  Each writes adapt only, but for its timer   *)
(* and the version flags migration reads.  adminPCost is AUTO and          *)
(* adminPointToPointMac is P2P_AUTO, the values every port is created with.*)
(***************************************************************************)
PcostNext(p) ==
  CASE At("pcost", p) = BEGIN -> "AUTO"
    [] At("pcost", p) = "AUTO" -> "STABLE"
    [] OTHER -> IF adapt[p].operSpeed # adapt[p].usedSpeed THEN "AUTO" ELSE Stay

PcostEnter(p, s) ==
  /\ UNCHANGED <<ctl, sel, hw, prio, rcv, tcs, timer, br, phys, wire>>
  /\ \/ /\ s = "AUTO"
        /\ adapt' = [adapt EXCEPT ![p].operSpeed = Speed[p],
                                  ![p].usedSpeed = Speed[p],
                                  ![p].operPCost = AutoPCost(Speed[p])]
     \/ s = "STABLE" /\ UNCHANGED adapt

EdgeNext(p) ==
  CASE At("edge", p) = BEGIN -> "DISABLED"
    [] At("edge", p) = "DISABLED" ->
         IF adapt[p].adminEnable THEN "DETECTED" ELSE Stay
    [] At("edge", p) = "DETECTED" -> "DELEAYED"
    [] At("edge", p) = "DELEAYED" ->
         IF adapt[p].wasInitBpdu \/ timer[p].lnkWhile = 0 THEN "RESOLVED"
         ELSE IF ~ adapt[p].adminEnable THEN "DISABLED" ELSE Stay
    [] OTHER -> IF adapt[p].adminEnable THEN Stay ELSE "DISABLED"

EdgeEnter(p, s) ==
  /\ UNCHANGED <<ctl, sel, hw, prio, rcv, tcs, br, phys, wire>>
  /\ \/ /\ s = "DISABLED"
        /\ adapt' = [adapt EXCEPT ![p].operEdge = p \in AdminEdge,
                                  ![p].wasInitBpdu = FALSE,
                                  ![p].portEnabled = FALSE]
        /\ timer' = [timer EXCEPT ![p].lnkWhile = 0]
     \/ /\ s = "DETECTED"
        /\ adapt' = [adapt EXCEPT ![p].portEnabled = TRUE, ![p].operEdge = FALSE]
        /\ timer' = [timer EXCEPT ![p].lnkWhile = LinkDelay]
     \/ s = "DELEAYED" /\ UNCHANGED <<adapt, timer>>
     \/ /\ s = "RESOLVED"
        /\ adapt' = [adapt EXCEPT ![p].operEdge =
             IF adapt[p].wasInitBpdu THEN @ ELSE p \in AdminEdge]
        /\ UNCHANGED timer

P2pNext(p) ==
  CASE At("p2p", p) \in {BEGIN, "RECOMPUTE"} -> "STABLE"
    [] OTHER -> IF adapt[p].p2p_recompute THEN "RECOMPUTE" ELSE Stay

\* Mutant of P2pEnter: forgets that it has recomputed.
P2pEnterAgain(p, s) ==
  /\ UNCHANGED <<ctl, sel, hw, prio, rcv, tcs, timer, br, phys, wire>>
  /\ IF s = "RECOMPUTE"
     THEN adapt' = [adapt EXCEPT ![p].operP2P = p \in FullDuplex]
     ELSE UNCHANGED adapt

P2pEnter(p, s) ==
  /\ UNCHANGED <<ctl, sel, hw, prio, rcv, tcs, timer, br, phys, wire>>
  /\ \/ /\ s = "RECOMPUTE"
        /\ adapt' = [adapt EXCEPT ![p].operP2P = p \in FullDuplex,
                                  ![p].p2p_recompute = FALSE]
     \/ s = "STABLE" /\ UNCHANGED adapt

MigrateNext(p) ==
  LET x == At("migrate", p)
      fresh == rcv[p].rcvdSTP \/ rcv[p].rcvdRSTP
      delay == timer[p].mdelayWhile > 0
  IN  IF (~ adapt[p].portEnabled /\ ~ adapt[p].initPm) \/ x = BEGIN THEN "INIT"
      ELSE CASE x = "INIT" ->
                  IF ~ adapt[p].portEnabled THEN Stay
                  ELSE IF ForceVersion[Owner[p]] >= 2 THEN "SEND_RSTP" ELSE "SEND_STP"
             [] x = "SEND_RSTP" -> "SENDING_RSTP"
             [] x = "SEND_STP" -> "SENDING_STP"
             [] x = "SENDING_RSTP" ->
                  IF delay /\ fresh THEN "SENDING_RSTP"
                  ELSE IF \/ ~ delay /\ rcv[p].rcvdSTP
                          \/ ForceVersion[Owner[p]] < 2
                  THEN "SEND_STP" ELSE Stay
             [] OTHER ->
                  IF delay /\ fresh THEN "SENDING_STP"
                  ELSE IF ~ delay /\ rcv[p].rcvdRSTP THEN "SEND_RSTP" ELSE Stay

MigrateEnter(p, s) ==
  /\ UNCHANGED <<ctl, sel, hw, prio, tcs, br, phys, wire>>
  /\ \/ /\ s = "INIT"
        /\ adapt' = [adapt EXCEPT ![p].initPm = TRUE]
        /\ UNCHANGED <<timer, rcv>>
     \/ /\ s \in {"SEND_RSTP", "SEND_STP"}
        /\ timer' = [timer EXCEPT ![p].mdelayWhile = MigrateTime]
        /\ adapt' = [adapt EXCEPT ![p].initPm = FALSE,
                                  ![p].sendRSTP = s = "SEND_RSTP"]
        /\ UNCHANGED rcv
     \/ /\ s \in {"SENDING_RSTP", "SENDING_STP"}
        /\ rcv' = [rcv EXCEPT ![p].rcvdRSTP = FALSE, ![p].rcvdSTP = FALSE]
        /\ UNCHANGED <<adapt, timer>>

-----------------------------------------------------------------------------
(***************************************************************************)
(* Topology change (topoch.c).                                             *)
(***************************************************************************)
TopochNext(p) ==
  LET t == tcs[p]
      x == At("topoch", p)
      active == ctl[p].role \in SendsRole
  IN  CASE x = BEGIN -> "INIT"
        [] x = "INIT" -> "INACTIVE"
        [] x = "INACTIVE" ->
             IF active THEN "TCACTIVE"
             ELSE IF t.rcvdTc \/ t.rcvdTcn \/ t.rcvdTcAck \/ t.tc \/ t.tcProp
             THEN "INACTIVE" ELSE Stay
        [] x = "TCACTIVE" ->
             IF ~ active THEN "INIT"
             ELSE IF t.tc THEN "DETECTED"
             ELSE IF t.rcvdTcn THEN "NOTIFIED_TCN"
             ELSE IF t.rcvdTc THEN "NOTIFIED_TC"
             ELSE IF t.tcProp /\ ~ adapt[p].operEdge THEN "PROPAGATING"
             ELSE IF t.rcvdTcAck THEN "ACKNOWLEDGED" ELSE Stay
        [] x = "NOTIFIED_TCN" -> "NOTIFIED_TC"
        [] OTHER -> "TCACTIVE"

\* newTcWhile: how long a port goes on telling of a change.
NewTcWhile(p) ==
  IF adapt[p].sendRSTP /\ adapt[p].operP2P
  THEN 2 * RootTimes(p).HelloTime ELSE RootTimes(p).MaxAge

\* setTcPropBridge: tell the other ports.  The code also has the chip forget
\* the addresses it has learned, which no state below depends on.
PropagateFrom(p) == [q \in Port |-> IF q \in Siblings[p]
                                    THEN [tcs[q] EXCEPT !.tcProp = TRUE] ELSE tcs[q]]

\* Mutant of TopochInit: does not stop the timer.
TopochInitRunning(p) ==
  /\ UNCHANGED timer
  /\ tcs' = [tcs EXCEPT ![p].tc = FALSE, ![p].tcProp = FALSE, ![p].tcAck = FALSE]

\* Entering INIT: the port stops telling of topology changes.
TopochInit(p) ==
  /\ timer' = [timer EXCEPT ![p].tcWhile = 0]
  /\ tcs' = [tcs EXCEPT ![p].tc = FALSE, ![p].tcProp = FALSE, ![p].tcAck = FALSE]

TopochEnter(p, s) ==
  /\ UNCHANGED <<ctl, sel, hw, prio, rcv, adapt, br, phys, wire>>
  /\ \/ s = "INIT" /\ TopochInit(p)
     \/ /\ s = "INACTIVE"
        /\ tcs' = [tcs EXCEPT ![p] =
             [tc |-> FALSE, tcProp |-> FALSE, tcAck |-> @.tcAck,
              rcvdTc |-> FALSE, rcvdTcn |-> FALSE, rcvdTcAck |-> FALSE]]
        /\ UNCHANGED timer
     \/ s = "TCACTIVE" /\ UNCHANGED <<timer, tcs>>
     \/ /\ s = "DETECTED"
        /\ timer' = [timer EXCEPT ![p].tcWhile = NewTcWhile(p)]
        /\ tcs' = [PropagateFrom(p) EXCEPT ![p].tc = FALSE]
     \/ /\ s = "NOTIFIED_TC"
        /\ tcs' = [PropagateFrom(p) EXCEPT ![p].rcvdTcn = FALSE, ![p].rcvdTc = FALSE,
                     ![p].tcAck = @ \/ ctl[p].role = "Designated"]
        /\ UNCHANGED timer
     \/ /\ s = "PROPAGATING"
        /\ timer' = [timer EXCEPT ![p].tcWhile = NewTcWhile(p)]
        /\ tcs' = [tcs EXCEPT ![p].tcProp = FALSE]
     \/ /\ s = "ACKNOWLEDGED"
        /\ timer' = [timer EXCEPT ![p].tcWhile = 0]
        /\ tcs' = [tcs EXCEPT ![p].rcvdTcAck = FALSE]
     \/ /\ s = "NOTIFIED_TCN"
        /\ timer' = [timer EXCEPT ![p].tcWhile = NewTcWhile(p)]
        /\ UNCHANGED tcs
=============================================================================
