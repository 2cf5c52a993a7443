----------------------------- MODULE RstpState ------------------------------
(***************************************************************************)
(* The state of the RSTP core (RSTP/inc/stpm.h, port.h, statmch.h): a set  *)
(* of bridges, the ports each of them owns, and the state machines they    *)
(* run.  A field of PORT_T or STPM_T is a field of one of the records      *)
(* below, under its own name; fields are grouped by the machines that      *)
(* write them.                                                             *)
(*                                                                         *)
(* One VLAN (one STPM_T per bridge) is modelled, as the firmware creates   *)
(* it.  The port's configuration never changes after creation: nothing in  *)
(* the firmware calls STP_IN_set_port_cfg, so mcheck stays False and is    *)
(* left out.  Statistics and uptime counters are left out too.             *)
(***************************************************************************)
EXTENDS RstpVector, Sequences, FiniteSets

CONSTANTS
  Bridge,        \* bridge identifiers (BRIDGE_ID): the smaller is the better
  Port,          \* all ports of all bridges
  Owner,         \* the bridge a port belongs to (port->owner)
  PortId,        \* port->port_id: priority and number; orders a bridge's ports
  BrTimes,       \* the times each bridge uses when it is the root
  ForceVersion,  \* protocol version of each bridge: 0 is STP, 2 is RSTP
  AdminEdge,     \* ports configured as edge ports (port->adminEdge)
  NonStp,        \* ports that take no part in the protocol (admin_non_stp)
  FullDuplex,    \* ports whose link is full duplex (STP_OUT_get_duplex)
  Speed,         \* speed of each port in Mb/s (STP_OUT_get_port_oper_speed)
  TxHoldCount,   \* how many frames a port sends per second (TxHoldCount)
  MigrateTime,   \* seconds a protocol version is kept (MigrateTime)
  LinkDelay      \* seconds a new link waits for a BPDU (port->LinkDelay)

ASSUME PortAssumption ==
  /\ Owner \in [Port -> Bridge]
  /\ PortId \in [Port -> Nat \ {0}]
  /\ \A p, q \in Port : Owner[p] = Owner[q] /\ PortId[p] = PortId[q] => p = q
  /\ AdminEdge \subseteq Port /\ NonStp \subseteq Port /\ FullDuplex \subseteq Port

ASSUME BridgeAssumption == IsFiniteSet(Bridge)

ASSUME TimesAssumption ==
  /\ Bridge \subseteq Nat
  /\ BrTimes \in [Bridge -> Times]
  /\ \A b \in Bridge : BrTimes[b].MessageAge = 0 /\ BrTimes[b].HelloTime > 0
  /\ ForceVersion \in [Bridge -> {0, 2}]
  /\ Speed \in [Port -> Nat]
  /\ TxHoldCount \in Nat \ {0} /\ MigrateTime \in Nat /\ LinkDelay \in Nat

VARIABLES
  st,      \* machine -> the state it is in (STATE_MACH_T.State)
  ctl,     \* port -> what port role transitions decides, and its handshake
  sel,     \* port -> what port role selection decides
  hw,      \* port -> learning, forwarding: the state set in the switch chip
  prio,    \* port -> priority vectors and times
  rcv,     \* port -> the last BPDU received and what is still unread of it
  tcs,     \* port -> topology change flags
  timer,   \* port -> its nine timers
  adapt,   \* port -> link, edge, point-to-point, cost and version state
  br       \* bridge -> root priority, root times, root port

stateVars == <<st, ctl, sel, hw, prio, rcv, tcs, timer, adapt, br>>

-----------------------------------------------------------------------------
BEGIN == "BEGIN"   \* the state every machine is created in
Stay  == "-"       \* check_conditions returned False: no transition

\* The states of all machines (the STATES of each STP_M source).
MachineState ==
  {BEGIN, "ROLE_SELECTION",
   "TRANSMIT_INIT", "TRANSMIT_PERIODIC", "TRANSMIT_CONFIG", "TRANSMIT_TCN",
   "TRANSMIT_RSTP", "IDLE",
   "DISCARDING", "LEARNING", "FORWARDING",
   "INIT_PORT", "BLOCK_PORT", "BLOCKED_PORT", "BACKUP_PORT", "ROOT_PROPOSED",
   "ROOT_AGREED", "REROOT", "ROOT_PORT", "REROOTED", "ROOT_LEARN",
   "ROOT_FORWARD", "DESIGNATED_PROPOSE", "DESIGNATED_SYNCED",
   "DESIGNATED_RETIRED", "DESIGNATED_PORT", "DESIGNATED_LISTEN",
   "DESIGNATED_LEARN", "DESIGNATED_FORWARD",
   "DISABLED", "ENABLED", "AGED", "UPDATE", "CURRENT", "RECEIVE", "SUPERIOR",
   "REPEAT", "AGREEMENT",
   "AUTO", "STABLE", "RECOMPUTE", "DETECTED", "DELEAYED", "RESOLVED",
   "INIT", "SEND_RSTP", "SENDING_RSTP", "SEND_STP", "SENDING_STP",
   "INACTIVE", "TCACTIVE", "PROPAGATING", "ACKNOWLEDGED", "NOTIFIED_TC",
   "NOTIFIED_TCN"}

PortRole == {"Disabled", "Alternate", "Backup", "Root", "Designated", "NonStp"}

\* Roles whose ports carry no user traffic.
BlockedRole == {"Disabled", "Alternate", "Backup"}

InfoIs == {"Disabled", "Aged", "Mine", "Received"}

(***************************************************************************)
(* A BPDU.  Its type decides which of the fields the receiver looks at:    *)
(* "TCN" has none, "Config" has no role and none of the RSTP flags.  The   *)
(* value "None" is a port that has received nothing yet (msgBpduType -1).  *)
(***************************************************************************)
BpduType == {"None", "TCN", "Config", "RSTP"}
MsgRole  == {"Unknown", "AltBack", "Root", "Designated"}

Bpdu == [type : BpduType, role : MsgRole, tc : BOOLEAN, tcAck : BOOLEAN,
         proposal : BOOLEAN, agreement : BOOLEAN, vec : Vector, times : Times]

NoBpdu ==
  [type |-> "None", role |-> "Unknown", tc |-> FALSE, tcAck |-> FALSE,
   proposal |-> FALSE, agreement |-> FALSE, vec |-> <<0, 0, 0, 0, 0>>,
   times |-> [MessageAge |-> 0, MaxAge |-> 0, ForwardDelay |-> 0, HelloTime |-> 0]]

-----------------------------------------------------------------------------
(***************************************************************************)
(* The groups of fields of PORT_T, and what STPM_T knows of the root.      *)
(***************************************************************************)
Control == [role : PortRole, learn : BOOLEAN, forward : BOOLEAN,
            synced : BOOLEAN, sync : BOOLEAN, reRoot : BOOLEAN,
            proposed : BOOLEAN, proposing : BOOLEAN, agreed : BOOLEAN,
            newInfo : BOOLEAN]

Selection == [selectedRole : PortRole, selected : BOOLEAN, reselect : BOOLEAN,
              updtInfo : BOOLEAN]

Chip == [learning : BOOLEAN, forwarding : BOOLEAN]

Information == [designPrio : Vector, designTimes : Times, portPrio : Vector,
                portTimes : Times, infoIs : InfoIs]

Verdict == {"Superior", "Repeated", "ConfirmedRoot", "Other"}

Reception == [rcvdBpdu : BOOLEAN, rcvdRSTP : BOOLEAN, rcvdSTP : BOOLEAN,
              rcvdMsg : Verdict, msg : Bpdu]

TopologyFlags == [tc : BOOLEAN, tcProp : BOOLEAN, tcAck : BOOLEAN,
                  rcvdTc : BOOLEAN, rcvdTcn : BOOLEAN, rcvdTcAck : BOOLEAN]

Timers == [fdWhile : Nat, helloWhen : Nat, mdelayWhile : Nat, rbWhile : Nat,
           rcvdInfoWhile : Nat, rrWhile : Nat, tcWhile : Nat,
           txCount : 0 .. TxHoldCount, lnkWhile : Nat]

Adaptation == [adminEnable : BOOLEAN, portEnabled : BOOLEAN,
               operEdge : BOOLEAN, wasInitBpdu : BOOLEAN, initPm : BOOLEAN,
               sendRSTP : BOOLEAN, p2p_recompute : BOOLEAN,
               operP2P : BOOLEAN, operSpeed : Nat, usedSpeed : Nat,
               operPCost : Nat]

RootKnown == [rootPrio : Vector, rootTimes : Times, rootPortId : Nat]

StateOK ==
  /\ ctl \in [Port -> Control]
  /\ sel \in [Port -> Selection]
  /\ hw \in [Port -> Chip]
  /\ prio \in [Port -> Information]
  /\ rcv \in [Port -> Reception]
  /\ tcs \in [Port -> TopologyFlags]
  /\ timer \in [Port -> Timers]
  /\ adapt \in [Port -> Adaptation]
  /\ br \in [Bridge -> RootKnown]

-----------------------------------------------------------------------------
(***************************************************************************)
(* State machines.  A bridge has one (port role selection); a port has     *)
(* nine.  STP_STATE_MACH_IN_LIST and STP_NEW_IN_LIST insert at the head,   *)
(* so _stp_stpm_iterate_machines meets the machine of the bridge, then the *)
(* ports from the last created to the first, and in each port the machines *)
(* in the order of PortMachines.                                           *)
(***************************************************************************)
PortMachines == <<"transmit", "sttrans", "roletrns", "info", "pcost", "edge",
                  "p2p", "migrate", "topoch">>

PortKind == {PortMachines[i] : i \in 1..9}

Ports == [b \in Bridge |-> {p \in Port : Owner[p] = b}]

RoleSelMachine(b)  == <<"rolesel", b>>
PortMachine(k, p)  == <<k, p>>
MachinesOf         == [b \in Bridge |-> {RoleSelMachine(b)} \cup (PortKind \X Ports[b])]
Machine            == ({"rolesel"} \X Bridge) \cup (PortKind \X Port)

KindRank == [k \in PortKind |-> CHOOSE i \in 1..9 : PortMachines[i] = k]

\* m stands before n in the lists _stp_stpm_iterate_machines walks.
Precedes(m, n) ==
  \/ m[1] = "rolesel"
  \/ /\ m[1] # "rolesel" /\ n[1] # "rolesel"
     /\ \/ PortId[m[2]] > PortId[n[2]]
        \/ m[2] = n[2] /\ KindRank[m[1]] < KindRank[n[1]]

-----------------------------------------------------------------------------
\* The vector a bridge would send if it were the root (_stp_stpm_init_data).
OwnPrio(b) == MakeVector(b, 0, b, 0, 0)

\* The vector port p would advertise for root vector v (designPrio).
DesignPrioFor(p, v) ==
  MakeVector(RootBridge(v), RootPathCost(v), Owner[p], PortId[p], PortId[p])

(***************************************************************************)
(* A bridge right after STP_stpm_start has run _stp_stpm_init_data,        *)
(* STP_port_init and the BEGIN entry of every machine, with nothing        *)
(* updated yet.  linkUp is the set of ports whose link is up.              *)
(***************************************************************************)
InitState(linkUp) ==
  /\ st = [m \in Machine |-> BEGIN]
  /\ ctl = [p \in Port |->
       [role |-> "Disabled", learn |-> FALSE, forward |-> FALSE,
        synced |-> FALSE, sync |-> TRUE, reRoot |-> TRUE,
        proposed |-> FALSE, proposing |-> FALSE, agreed |-> FALSE,
        newInfo |-> FALSE]]
  /\ sel = [p \in Port |->
       [selectedRole |-> "Disabled", selected |-> FALSE, reselect |-> TRUE,
        updtInfo |-> FALSE]]
  /\ hw = [p \in Port |-> [learning |-> FALSE, forwarding |-> FALSE]]
  /\ prio = [p \in Port |->
       [designPrio |-> DesignPrioFor(p, OwnPrio(Owner[p])),
        designTimes |-> BrTimes[Owner[p]],
        portPrio |-> NoBpdu.vec, portTimes |-> NoBpdu.times,
        infoIs |-> "Disabled"]]
  /\ rcv = [p \in Port |->
       [rcvdBpdu |-> FALSE, rcvdRSTP |-> FALSE, rcvdSTP |-> FALSE,
        rcvdMsg |-> "Other", msg |-> NoBpdu]]
  /\ tcs = [p \in Port |->
       [tc |-> FALSE, tcProp |-> FALSE, tcAck |-> FALSE,
        rcvdTc |-> FALSE, rcvdTcn |-> FALSE, rcvdTcAck |-> FALSE]]
  /\ timer = [p \in Port |->
       [fdWhile |-> BrTimes[Owner[p]].ForwardDelay, helloWhen |-> 0,
        mdelayWhile |-> 0, rbWhile |-> 0, rcvdInfoWhile |-> 0,
        rrWhile |-> BrTimes[Owner[p]].ForwardDelay, tcWhile |-> 0,
        txCount |-> 0, lnkWhile |-> 0]]
  /\ adapt = [p \in Port |->
       [adminEnable |-> p \in linkUp, portEnabled |-> FALSE,
        operEdge |-> FALSE, wasInitBpdu |-> FALSE, initPm |-> TRUE,
        sendRSTP |-> TRUE, p2p_recompute |-> TRUE, operP2P |-> FALSE,
        operSpeed |-> Speed[p], usedSpeed |-> 0, operPCost |-> 0]]
  /\ br = [b \in Bridge |->
       [rootPrio |-> OwnPrio(b), rootTimes |-> BrTimes[b], rootPortId |-> 0]]
=============================================================================
