-------------------------------- MODULE Rstp --------------------------------
(***************************************************************************)
(* The RSTP core at work: bridges joined by links, each running the state  *)
(* machines of RstpMachines under the engine of RSTP/src/stpm.c and        *)
(* statmch.c, driven by the events of RSTP/src/stp_in.c in the order the   *)
(* superloop (scr_code/veth_RSTP.c) delivers them.                         *)
(*                                                                         *)
(* A bridge handles one event at a time: the event changes the port, then  *)
(* STP_stpm_update runs machines until none of them can move.  The model   *)
(* takes one step per machine transition, so that what holds in the middle *)
(* of an update can be told from what holds between updates.               *)
(***************************************************************************)
EXTENDS RstpMachines

CONSTANTS
  UpAtStart,     \* the sets of ports that may have a link at start-up
  Foreign,       \* frames a device that is not modelled may send to a port
  MaxDisturb     \* bound: link changes and foreign frames in a behaviour

ASSUME EnvironmentAssumption ==
  /\ UpAtStart \subseteq {s \in SUBSET Port : \A p \in s : Peer[p] \in s}
  /\ MaxDisturb \in Nat
  /\ \A m \in Foreign : m \in Bpdu /\ (m.type # "TCN" => m.times.HelloTime > 0)

\* How far from the root a device outside the model may say it is: fifty links
\* of the slowest kind; and the largest maximum age (MAX_BR_MAXAGE).
MaxClaim  == 1000000000
MaxMaxAge == 40

(***************************************************************************)
(* _check_stpm_config keeps a bridge's maximum age within MaxMaxAge.  That *)
(* frames from outside keep to it, and to MaxClaim, nothing in the code    *)
(* checks.                                                                 *)
(***************************************************************************)
ASSUME CostAssumption ==
  /\ \A b \in Bridge : BrTimes[b].MaxAge <= MaxMaxAge
  /\ \A m \in Foreign : m.type # "TCN" =>
       m.times.MaxAge <= MaxMaxAge /\ RootPathCost(m.vec) <= MaxClaim

VARIABLES
  updating,       \* bridges inside STP_stpm_update
  cur,            \* the machine STP_change_state is running, if any
  enabled_ports,  \* ports whose link was up when it was last looked at
  ticked,         \* bridges that have had their tick in the current second
  disturbed       \* how many link changes and foreign frames there were

vars == <<st, ctl, sel, hw, prio, rcv, tcs, timer, adapt, br, phys, wire,
          updating, cur, enabled_ports, ticked, disturbed>>

-----------------------------------------------------------------------------
(***************************************************************************)
(* STP_stpm_update.                                                        *)
(***************************************************************************)
NoMachine == <<"none", 0>>

NextState(m) ==
  CASE m[1] = "rolesel"  -> RoleSelNext(m[2])
    [] m[1] = "transmit" -> TransmitNext(m[2])
    [] m[1] = "sttrans"  -> SttransNext(m[2])
    [] m[1] = "roletrns" -> RoletrnsNext(m[2])
    [] m[1] = "info"     -> InfoNext(m[2])
    [] m[1] = "pcost"    -> PcostNext(m[2])
    [] m[1] = "edge"     -> EdgeNext(m[2])
    [] m[1] = "p2p"      -> P2pNext(m[2])
    [] m[1] = "migrate"  -> MigrateNext(m[2])
    [] m[1] = "topoch"   -> TopochNext(m[2])

Movable(b) == {m \in MachinesOf[b] : NextState(m) # Stay}

(***************************************************************************)
(* STP_change_state keeps running a machine as long as its condition       *)
(* holds; then STP_stpm_update starts over and takes the first machine in  *)
(* the list whose condition holds.                                         *)
(***************************************************************************)
Chosen(b) ==
  IF cur # NoMachine /\ NextState(cur) # Stay THEN {cur}
  ELSE {m \in Movable(b) : \A n \in MachinesOf[b] \ {m} :
          Precedes(m, n) \/ NextState(n) = Stay}

\* Updates of different bridges do not interfere, so they run one by one.
Active == CHOOSE b \in updating : \A c \in updating : b <= c

\* Machine m hops to state s and runs its entry action there.
RunMachine(m, s) ==
  /\ st' = [st EXCEPT ![m] = s]
  /\ cur' = m
  /\ \/ m[1] = "rolesel"  /\ RoleSelEnter(m[2])
     \/ m[1] = "transmit" /\ TransmitEnter(m[2], s)
     \/ m[1] = "sttrans"  /\ SttransEnter(m[2], s)
     \/ m[1] = "roletrns" /\ RoletrnsEnter(m[2], s)
     \/ m[1] = "info"     /\ InfoEnter(m[2], s)
     \/ m[1] = "pcost"    /\ PcostEnter(m[2], s)
     \/ m[1] = "edge"     /\ EdgeEnter(m[2], s)
     \/ m[1] = "p2p"      /\ P2pEnter(m[2], s)
     \/ m[1] = "migrate"  /\ MigrateEnter(m[2], s)
     \/ m[1] = "topoch"   /\ TopochEnter(m[2], s)

MachineStep ==
  /\ updating # {}
  /\ \E m \in Chosen(Active) : \E s \in {NextState(m)} : RunMachine(m, s)
  /\ UNCHANGED <<updating, enabled_ports, ticked, disturbed>>

UpdateDone ==
  /\ updating # {}
  /\ \A m \in MachinesOf[Active] : NextState(m) = Stay
  /\ updating' = updating \ {Active}
  /\ cur' = NoMachine
  /\ UNCHANGED <<stateVars, phys, wire, enabled_ports, ticked, disturbed>>

-----------------------------------------------------------------------------
(***************************************************************************)
(* Events.  Each ends by calling STP_stpm_update.                          *)
(***************************************************************************)
Idle == updating = {}

Update(b) == updating' = {b} /\ cur' = NoMachine

\* STP_port_init resets every timer but lnkWhile.
ResetTimers(t) ==
  [fdWhile |-> 0, helloWhen |-> 0, mdelayWhile |-> 0, rbWhile |-> 0,
   rcvdInfoWhile |-> 0, rrWhile |-> 0, tcWhile |-> 0, txCount |-> 0,
   lnkWhile |-> t.lnkWhile]

(***************************************************************************)
(* _stp_in_enable_port_on_stpm and STP_port_init without check_link.  The  *)
(* fields of adapt other than those it sets are given by a, so that        *)
(* STP_IN_rx_bpdu can set its own in the same step.                        *)
(***************************************************************************)
EnablePort(p, enable, a) ==
  IF adapt[p].portEnabled = enable
  THEN adapt' = [adapt EXCEPT ![p] = a] /\ UNCHANGED <<timer, sel>>
  ELSE /\ adapt' = [adapt EXCEPT ![p] =
            [a EXCEPT !.adminEnable = enable, !.sendRSTP = TRUE,
                      !.operSpeed = Speed[p], !.p2p_recompute = TRUE]]
       /\ timer' = [timer EXCEPT ![p] = ResetTimers(@)]
       /\ sel' = [sel EXCEPT ![p].selectedRole = "Disabled",
                             ![p].reselect = TRUE, ![p].selected = FALSE]

\* Ports whose link changed since timerExpiredOneSecond last looked.
Unpolled(b) == {p \in Ports[b] : (p \in phys) # (p \in enabled_ports)}

(***************************************************************************)
(* timerExpiredOneSecond, the link poll: STP_IN_enable_port for each port  *)
(* whose link changed, in ascending order.  It runs in every pass of the   *)
(* superloop, before the tick and before any frame.                        *)
(***************************************************************************)
PollLink(p) ==
  /\ Idle
  /\ p \in Unpolled(Owner[p])
  /\ \A q \in Unpolled(Owner[p]) : PortId[p] <= PortId[q]
  /\ EnablePort(p, p \in phys, adapt[p])
  /\ enabled_ports' = IF p \in phys THEN enabled_ports \cup {p}
                                    ELSE enabled_ports \ {p}
  /\ Update(Owner[p])
  /\ UNCHANGED <<st, ctl, hw, prio, rcv, tcs, br, phys, wire, ticked, disturbed>>

(***************************************************************************)
(* STP_IN_one_second and STP_stpm_one_second.  Frames take less than a     *)
(* second to arrive, and the clocks of two bridges are never more than a   *)
(* second apart.                                                           *)
(***************************************************************************)
\* Mutant of Countdown: a timer that has run out goes on counting.
CountdownPastZero(n) == n - 1

Countdown(n) == IF n > 0 THEN n - 1 ELSE 0

Tick(b) ==
  /\ Idle
  /\ Unpolled(b) = {}
  /\ \A p \in Port : wire[p] = <<>>
  /\ b \notin ticked
  /\ ticked' = IF ticked \cup {b} = Bridge THEN {} ELSE ticked \cup {b}
  /\ timer' = [p \in Port |->
       IF Owner[p] # b THEN timer[p]
       ELSE [fdWhile |-> Countdown(timer[p].fdWhile),
             helloWhen |-> Countdown(timer[p].helloWhen),
             mdelayWhile |-> Countdown(timer[p].mdelayWhile),
             rbWhile |-> Countdown(timer[p].rbWhile),
             rcvdInfoWhile |-> Countdown(timer[p].rcvdInfoWhile),
             rrWhile |-> Countdown(timer[p].rrWhile),
             tcWhile |-> Countdown(timer[p].tcWhile),
             txCount |-> Countdown(timer[p].txCount),
             lnkWhile |-> Countdown(timer[p].lnkWhile)]]
  /\ Update(b)
  /\ UNCHANGED <<st, ctl, sel, hw, prio, rcv, tcs, adapt, br, phys, wire,
                 enabled_ports, disturbed>>

(***************************************************************************)
(* STP_info_rx_bpdu: keep the frame for the port information machine.  A   *)
(* TCN changes the type only; what else was in msg stays.  Frames are not  *)
(* kept on a port outside the protocol, nor RSTP frames when the bridge    *)
(* is held to STP.                                                         *)
(***************************************************************************)
KeepBpdu(p, m) ==
  rcv' = IF p \in NonStp \/ (m.type = "RSTP" /\ ForceVersion[Owner[p]] < 2) THEN rcv
         ELSE [rcv EXCEPT ![p].rcvdBpdu = TRUE,
                          ![p].msg = IF m.type = "TCN" THEN [@ EXCEPT !.type = "TCN"]
                                     ELSE [m EXCEPT !.vec = ReceivedBy(@, PortId[p])]]

\* STP_IN_rx_bpdu: a frame on an edge port is a topology change, on a port
\* not yet enabled it enables the port.
RxBpdu(p) ==
  /\ Idle
  /\ Unpolled(Owner[p]) = {}
  /\ wire[p] # <<>>
  /\ wire' = [wire EXCEPT ![p] = Tail(@)]
  /\ tcs' = [tcs EXCEPT ![p].tc = @ \/ ( /\ adapt[p].operEdge
                                         /\ timer[p].lnkWhile = 0
                                         /\ adapt[p].portEnabled )]
  /\ EnablePort(p, TRUE, [adapt[p] EXCEPT !.operEdge = FALSE, !.wasInitBpdu = TRUE])
  /\ KeepBpdu(p, Head(wire[p]))
  /\ Update(Owner[p])
  /\ UNCHANGED <<st, ctl, hw, prio, br, phys, enabled_ports, ticked, disturbed>>

-----------------------------------------------------------------------------
(***************************************************************************)
(* The environment: links change, and ports whose neighbour is not         *)
(* modelled receive frames.  A frame already in the receive ring when its  *)
(* link goes down is still delivered; one still on the cable is lost.      *)
(***************************************************************************)
LinkChange(p) ==
  LET ends == {p, Peer[p]}
  IN  /\ Idle
      /\ disturbed < MaxDisturb
      /\ disturbed' = disturbed + 1
      /\ IF p \in phys
         THEN /\ phys' = phys \ ends
              /\ \E kept \in [ends -> 0..TxHoldCount] :
                   /\ \A q \in ends : kept[q] <= Len(wire[q])
                   /\ wire' = [q \in Port |-> IF q \in ends
                                THEN SubSeq(wire[q], 1, kept[q]) ELSE wire[q]]
         ELSE phys' = phys \cup ends /\ UNCHANGED wire
      /\ UNCHANGED <<stateVars, updating, cur, enabled_ports, ticked>>

ForeignFrame(p, m) ==
  /\ Idle
  /\ disturbed < MaxDisturb
  /\ disturbed' = disturbed + 1
  /\ Peer[p] = p /\ p \in phys /\ wire[p] = <<>>
  /\ wire' = [wire EXCEPT ![p] = <<m>>]
  /\ UNCHANGED <<stateVars, phys, updating, cur, enabled_ports, ticked>>

-----------------------------------------------------------------------------
Init ==
  /\ phys \in UpAtStart
  /\ InitState(phys)
  /\ wire = [p \in Port |-> <<>>]
  /\ updating = Bridge
  /\ cur = NoMachine
  /\ enabled_ports = phys
  /\ ticked = {}
  /\ disturbed = 0

Event ==
  \/ \E p \in Port : PollLink(p)
  \/ \E b \in Bridge : Tick(b)
  \/ \E p \in Port : RxBpdu(p)

Environment ==
  \/ \E p \in Port : LinkChange(p)
  \/ \E p \in Port, m \in Foreign : ForeignFrame(p, m)

System == MachineStep \/ UpdateDone \/ Event

Next == System \/ Environment

(***************************************************************************)
(* The superloop never stops.  One of its steps is always possible (while  *)
(* a bridge updates, a machine moves or the update ends; otherwise a link  *)
(* is polled, a frame is read or a second passes), so this is the weak     *)
(* fairness of System, in a form that is cheap to check.  One condition is *)
(* enough: an update ends, a second brings a bounded number of frames and  *)
(* the bounded number of link changes bounds the polls, so every bridge    *)
(* gets its ticks.  Nothing is asked of the environment.                   *)
(***************************************************************************)
Fairness == []<><<disturbed' = disturbed>>_vars

Spec == Init /\ [][Next]_vars /\ Fairness

-----------------------------------------------------------------------------
TypeOK ==
  /\ st \in [Machine -> MachineState]
  /\ StateOK
  /\ phys \subseteq Port
  /\ wire \in [Port -> Seq(Bpdu)]
  /\ updating \subseteq Bridge
  /\ cur \in Machine \cup {NoMachine}
  /\ enabled_ports \subseteq Port
  /\ ticked \subseteq Bridge
  /\ disturbed \in 0..MaxDisturb

-----------------------------------------------------------------------------
(***************************************************************************)
(* Safety of one port.                                                     *)
(***************************************************************************)
\* Port role transitions has put the port in a role that carries no traffic
\* and has not been sent to another role since.
Blocked(p) == At("roletrns", p) \in BlockState /\ ctl[p].role \in BlockedRole

\* A port whose role carries no traffic is never told to learn or forward,
\* whatever its bridge is in the middle of (roletrns.c: BLOCK_PORT is the
\* only way in, and only root and designated states set the two flags).
BlockedStaysShut == \A p \in Port : Blocked(p) => ~ ctl[p].learn /\ ~ ctl[p].forward

\* Between updates the switch chip does what port role transitions decided:
\* no port forwards or learns that has no role to, or no link role at all.
ChipFollowsRole ==
  Idle => \A p \in Port :
    /\ hw[p].forwarding => ctl[p].forward /\ ctl[p].role \notin BlockedRole
    /\ hw[p].learning => ctl[p].learn

\* Between updates every port has been given its role: port role selection
\* and port role transitions agree, and no news is left unannounced.
RolesSettled ==
  Idle => \A p \in Port :
    /\ sel[p].selected /\ ~ sel[p].reselect /\ ~ sel[p].updtInfo
    /\ ctl[p].role = sel[p].selectedRole

\* Between updates a bridge that is not the root has exactly one root port,
\* the one whose information gave it its root; the root has none.
OneRootPort ==
  Idle => \A b \in Bridge :
    {p \in Ports[b] : ctl[p].role = "Root"}
       = {p \in Ports[b] : br[b].rootPortId = PortId[p]}

\* Received information dies with its timer: between updates a port that
\* relies on a neighbour heard it less than three hello times ago.
NoStaleInfo ==
  Idle => \A p \in Port : prio[p].infoIs = "Received" =>
    timer[p].rcvdInfoWhile > 0 /\ adapt[p].portEnabled

\* Only ports that carry traffic go on telling of a topology change.
TcOnlyWhenActive ==
  Idle => \A p \in Port : timer[p].tcWhile > 0 => ctl[p].role \in SendsRole

(***************************************************************************)
(* Safety of the network.                                                  *)
(***************************************************************************)
\* Ports that carry traffic to a port that takes it.
OpenPorts == {p \in phys : hw[p].forwarding /\ hw[Peer[p]].forwarding /\ Peer[p] # p}

\* The open links never form a loop: among any of them, some bridge has only
\* one end.
NoLoop ==
  \A S \in SUBSET OpenPorts :
    S # {} /\ (\A p \in S : Peer[p] \in S)
       => \E b \in Bridge : Cardinality(S \cap Ports[b]) = 1

\* Port p relies on news of the other end of its link, and that end, which
\* relies on none, would not say anything worse of itself now.
Heard(p) ==
  LET q == Peer[p]
  IN  /\ p \notin NonStp /\ q \notin NonStp
      /\ prio[p].infoIs = "Received" /\ prio[q].infoIs = "Mine"
      /\ ~ VecLess(prio[p].portPrio, ReceivedBy(prio[q].portPrio, PortId[p]))

\* Between updates a link carries traffic only while what one of its ends
\* relies on still holds at the other.
OpenLinksHeard == Idle => \A p \in OpenPorts : Heard(p) \/ Heard(Peer[p])

\* The roots a frame can truthfully name: the bridges themselves, and those
\* that devices outside the model announce.
KnownRoots ==
  Bridge \cup {RootBridge(m.vec) : m \in {f \in Foreign : f.type # "TCN"}}

\* How far port p is from the other end of its link, in cost and in hops;
\* how far a foreign frame says its sender is from the root.
CableCost   == [p \in Port |-> AutoPCost(Speed[p])]
CableHop    == [p \in Port |-> 1]
ClaimedCost == [m \in Foreign |-> RootPathCost(m.vec)]
ClaimedAge  == [m \in Foreign |-> m.times.MessageAge]

\* D bounds from below how far each bridge is from root r: nought at the root,
\* and across a link no more than its length longer.
IsDistance(D, r, length, claimed) ==
  /\ r \in Bridge => D[r] = 0
  /\ \A p \in Port : D[Owner[p]] <= D[Owner[Peer[p]]] + length[p]
  /\ \A p \in Port, m \in Foreign :
       Peer[p] = p /\ m.type # "TCN" /\ RootBridge(m.vec) = r =>
         D[Owner[p]] <= claimed[m] + length[p]

\* The bounds a finite instance is checked with.
CostBounds == [r \in KnownRoots |->
  {D \in [Bridge -> {n * CableCost[p] : n \in 0..Cardinality(Bridge), p \in Port}] :
     IsDistance(D, r, CableCost, ClaimedCost)}]

HopBounds == [r \in KnownRoots |->
  {D \in [Bridge -> 0..Cardinality(Bridge)] : IsDistance(D, r, CableHop, ClaimedAge)}]

\* A bridge never makes up a root or a short cut to it: whatever frames are
\* late, lost or left over from links long gone, its root is a bridge there
\* is, no worse than itself, at least as far away in cost and in age as the
\* cables lead; and only a bridge that is its own root has no root port.
RootsAreReal ==
  \A b \in Bridge :
    LET v == br[b].rootPrio
        r == RootBridge(v)
    IN  /\ r \in KnownRoots /\ r <= b
        /\ \A D \in CostBounds[r] : D[b] <= RootPathCost(v)
        /\ \A D \in HopBounds[r] : D[b] <= br[b].rootTimes.MessageAge
        /\ r = b <=> br[b].rootPortId = 0

\* News of a root dies out: between updates a port keeps what it was told for
\* three hello times at most, and never past MaxAge, to which every bridge on
\* the way takes it at least a second nearer.
NewsDiesOut ==
  Idle => \A p \in Port : prio[p].infoIs = "Received" =>
    /\ timer[p].rcvdInfoWhile <= 3 * prio[p].portTimes.HelloTime
    /\ prio[p].portTimes.MessageAge + timer[p].rcvdInfoWhile
         < prio[p].portTimes.MaxAge

\* A designated port names itself in what it sends: v comes from the port at
\* the other end of p's link.
NamesNeighbour(p, v) ==
  DesignBridge(v) = Owner[Peer[p]] /\ DesignPort(v) = PortId[Peer[p]]

\* A port that sends as designated sends what it says of itself, never what it
\* was told, although transmit.c does not ask whether the selection of the role
\* and the update of the information are through: on a link between two modelled
\* ports, all that a port can take for news, on the way or taken already, is
\* signed by the other end of that link.
ToldByNeighbour ==
  \A p \in Port : Peer[p] # p =>
    /\ \A i \in 1 .. Len(wire[p]) :
         FromDesignated(wire[p][i]) => NamesNeighbour(p, wire[p][i].vec)
    /\ prio[p].infoIs = "Received" => NamesNeighbour(p, prio[p].portPrio)

(***************************************************************************)
(* Liveness.                                                               *)
(***************************************************************************)
\* STP_stpm_update always returns.
UpdateEnds == updating # {} ~> updating = {}

\* Once the links stop changing, every pair of bridges a live link joins is
\* joined by links that carry traffic: no part of the network stays cut off.
Crosses(p, C) == Owner[p] \in C /\ Owner[Peer[p]] \notin C

Spanning == \A C \in SUBSET Bridge :
  (\E p \in phys : Crosses(p, C)) => \E p \in OpenPorts : Crosses(p, C)

Converges == <>[]Spanning

\* Once the links stop changing, bridges that live links connect agree on one
\* root, the best bridge among them: information about a root that cannot be
\* reached any more dies out.
Connected(b) == {c \in Bridge : \A C \in SUBSET Bridge :
  b \in C /\ (\A p \in phys : ~ Crosses(p, C)) => c \in C}

BestBridge(b) == CHOOSE c \in Connected(b) : \A d \in Connected(b) : c <= d

BestRootWins ==
  <>[](\A b \in Bridge : RootBridge(br[b].rootPrio) = BestBridge(b))


(***************************************************************************)
(* What the source claims and the code does not do.                        *)
(***************************************************************************)
\* stp_in.c, STP_IN_rx_bpdu, enables the port a frame came from because
\* "port link change indication will come later": once nothing is left to
\* poll or to read, the ports enabled are those whose link is up.
EnabledFollowsLink ==
  \A p \in Port : Idle /\ Unpolled(Owner[p]) = {} /\ wire[p] = <<>> =>
    adapt[p].adminEnable = (p \in phys)

\* rcvBpdu names its third verdict ConfirmedRootMsg: a port takes an agreement
\* only from a frame that claims the root port of the segment for its sender.
ConfirmedByRoot ==
  [][\A p \in Port :
       cur' = PortMachine("info", p) /\ At("info", p)' = "AGREEMENT"
         => rcv[p].msg.role = "Root"]_vars

\* topoch.c has the learning table cleaned "once for TopologyChange": a frame
\* makes the port notify one only if it says there is one.
NotifiedByFlag ==
  [][\A p \in Port :
       cur' = PortMachine("topoch", p) /\ At("topoch", p)' = "NOTIFIED_TC"
         => rcv[p].msg.tc \/ rcv[p].msg.type = "TCN"]_vars
=============================================================================
