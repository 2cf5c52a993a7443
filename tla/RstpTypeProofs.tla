--------------------------- MODULE RstpTypeProofs ---------------------------
(***************************************************************************)
(* Type correctness of Rstp for every topology, configuration and set of   *)
(* frames: one lemma per state machine and per event.  An election has a   *)
(* winner because priority vectors whose costs an int can hold are in a    *)
(* strict total order, in which every set of vectors has a least one.      *)
(***************************************************************************)
EXTENDS Rstp, WellFoundedInduction, SequenceTheorems, TLAPS

\* Every set of natural numbers, unless empty, has a least element.
LEMMA NatLeast ==
  ASSUME NEW S, S \subseteq Nat, S # {}
  PROVE  \E n \in S : \A k \in S : n <= k
<1> DEFINE R == OpToRel(<, Nat)
<1>1. IsWellFoundedOn(R, Nat)
  BY NatLessThanWellFounded
<1>2. PICK n \in S : \A k \in S : ~ (<<k, n>> \in R)
  <2> HIDE DEF R
  <2> QED BY <1>1, WFMin
<1>3. \A k \in S : n <= k
  <2>1. SUFFICES ASSUME NEW k \in S, ~ (n <= k)
                 PROVE  FALSE
    OBVIOUS
  <2>2. k \in Nat /\ n \in Nat /\ k < n
    BY <2>1
  <2>3. <<k, n>> \in R
    BY <2>2 DEF OpToRel
  <2> QED BY <1>2, <2>1, <2>3
<1> QED BY <1>3

\* STP_VECT_compare_vector never finds a vector better than itself.
LEMMA VecLessIrreflexive ==
  ASSUME NEW v \in Vector
  PROVE  ~ VecLess(v, v)
BY DEF Vector, VecLess, CostLess, MaxInt

\* The cost is one that an int can hold.
Near(v) == RootPathCost(v) <= MaxInt

\* Such costs are compared as the numbers they are.
LEMMA NearCosts ==
  ASSUME NEW u \in Vector, NEW v \in Vector, Near(u), Near(v)
  PROVE  CostLess(u[2], v[2]) <=> u[2] < v[2]
BY DEF Vector, CostLess, MaxInt, Near, RootPathCost

\* No cost is less than itself.
LEMMA CostTie == \A n \in Nat : ~ CostLess(n, n)
BY DEF CostLess, MaxInt

\* STP_VECT_compare_vector is transitive for such costs.
LEMMA VecLessTransitive ==
  ASSUME NEW u \in Vector, NEW v \in Vector, NEW w \in Vector,
         Near(u), Near(v), Near(w), VecLess(u, v), VecLess(v, w)
  PROVE  VecLess(u, w)
<1>1. /\ CostLess(u[2], v[2]) <=> u[2] < v[2]
      /\ CostLess(v[2], w[2]) <=> v[2] < w[2]
      /\ CostLess(u[2], w[2]) <=> u[2] < w[2]
  BY NearCosts
<1> QED BY <1>1 DEF Vector, VecLess

\* Of two different vectors one is better.
THEOREM VecLessTotal ==
  ASSUME NEW u \in Vector, NEW v \in Vector
  PROVE  VecLess(u, v) \/ VecLess(v, u) \/ u = v
BY DEF Vector, VecLess, CostLess, MaxInt

\* Among vectors that have a component i there is one whose component i is least.
LEMMA ComponentLeast ==
  ASSUME NEW S, S \subseteq Vector, S # {}, NEW i \in 1 .. 5
  PROVE  \E v \in S : \A u \in S : v[i] <= u[i]
<1> DEFINE N == {v[i] : v \in S}
<1>1. N \subseteq Nat
  BY DEF Vector
<1>2. N # {}
  OBVIOUS
<1>3. PICK n \in N : \A k \in N : n <= k
  <2> HIDE DEF N
  <2> QED BY <1>1, <1>2, NatLeast
<1> QED BY <1>3

\* Of any candidates whose costs an int can hold, updtRootPrio finds a best.
THEOREM VectorLeast ==
  ASSUME NEW S, S \subseteq Vector, S # {}, \A v \in S : Near(v)
  PROVE  \E v \in S : \A u \in S : ~ VecLess(u, v)
<1>1. PICK a \in S : \A u \in S : a[1] <= u[1]
  <2>1. 1 \in 1 .. 5
    OBVIOUS
  <2> QED BY <2>1, ComponentLeast, Zenon
<1> DEFINE S2 == {u \in S : u[1] = a[1]}
<1>2. PICK b \in S2 : \A u \in S2 : b[2] <= u[2]
  <2>1. S2 \subseteq Vector /\ S2 # {} /\ 2 \in 1 .. 5
    OBVIOUS
  <2> HIDE DEF S2
  <2> QED BY <2>1, ComponentLeast, Zenon
<1> DEFINE S3 == {u \in S2 : u[2] = b[2]}
<1>3. PICK c \in S3 : \A u \in S3 : c[3] <= u[3]
  <2>1. S3 \subseteq Vector /\ S3 # {} /\ 3 \in 1 .. 5
    OBVIOUS
  <2> HIDE DEF S3
  <2> QED BY <2>1, ComponentLeast, Zenon
<1> DEFINE S4 == {u \in S3 : u[3] = c[3]}
<1>4. PICK d \in S4 : \A u \in S4 : d[4] <= u[4]
  <2>1. S4 \subseteq Vector /\ S4 # {} /\ 4 \in 1 .. 5
    OBVIOUS
  <2> HIDE DEF S4
  <2> QED BY <2>1, ComponentLeast, Zenon
<1> DEFINE S5 == {u \in S4 : u[4] = d[4]}
<1>5. PICK e \in S5 : \A u \in S5 : e[5] <= u[5]
  <2>1. S5 \subseteq Vector /\ S5 # {} /\ 5 \in 1 .. 5
    OBVIOUS
  <2> HIDE DEF S5
  <2> QED BY <2>1, ComponentLeast, Zenon
<1>6. ASSUME NEW u \in S, VecLess(u, e)
      PROVE  FALSE
  <2>1. u \in Vector /\ e \in Vector /\ a \in Vector
    OBVIOUS
  <2>2. e[1] = a[1] /\ e[2] = b[2] /\ e[3] = c[3] /\ e[4] = d[4]
    OBVIOUS
  <2>3. u \in S2
    BY <1>1, <1>6, <2>1, <2>2 DEF Vector, VecLess
  <2>4. u \in S3
    <3>1. u[2] < b[2] \/ u[2] = b[2]
      BY <1>6, <2>1, <2>2, <2>3, NearCosts DEF Vector, VecLess
    <3>2. b[2] <= u[2] /\ u[2] \in Nat /\ b[2] \in Nat
      BY <1>2, <2>1, <2>3 DEF Vector
    <3> QED BY <2>3, <3>1, <3>2
  <2>5. u \in S4
    BY <1>3, <1>6, <2>1, <2>2, <2>3, <2>4, CostTie DEF Vector, VecLess
  <2>6. u \in S5
    BY <1>4, <1>6, <2>1, <2>2, <2>3, <2>4, <2>5, CostTie DEF Vector, VecLess
  <2> QED BY <1>5, <1>6, <2>1, <2>2, <2>6, CostTie DEF Vector, VecLess
<1> QED BY <1>6

-----------------------------------------------------------------------------
\* The part of the type invariant that the state machines read and write.
NetOK == StateOK /\ phys \subseteq Port /\ wire \in [Port -> Seq(Bpdu)]

\* What a machine of port p reads is typed.
LEMMA PortTypes ==
  ASSUME NetOK, NEW p \in Port
  PROVE  /\ ctl[p] \in Control /\ sel[p] \in Selection /\ hw[p] \in Chip
         /\ prio[p] \in Information /\ rcv[p] \in Reception
         /\ tcs[p] \in TopologyFlags /\ timer[p] \in Timers
         /\ adapt[p] \in Adaptation /\ wire[p] \in Seq(Bpdu)
         /\ Owner[p] \in Bridge /\ br[Owner[p]] \in RootKnown
         /\ RootTimes(p) \in Times
<1>1. Owner[p] \in Bridge
  BY PortAssumption
<1>2. br[Owner[p]] \in RootKnown
  BY <1>1 DEF NetOK, StateOK
<1>3. RootTimes(p) \in Times
  BY <1>2 DEF RootTimes, RootKnown
<1> QED BY <1>1, <1>2, <1>3 DEF NetOK, StateOK

-----------------------------------------------------------------------------
\* Every state of port state transition keeps the types.
LEMMA SttransKeepsTypes ==
  ASSUME NetOK, NEW p \in Port, NEW s, SttransEnter(p, s)
  PROVE  NetOK'
<1>1. hw' \in [Port -> Chip]
  <2>1. /\ [learning |-> FALSE, forwarding |-> FALSE] \in Chip
        /\ [hw[p] EXCEPT !.learning = TRUE] \in Chip
        /\ [hw[p] EXCEPT !.forwarding = TRUE] \in Chip
    BY PortTypes DEF Chip
  <2> QED BY <2>1 DEF NetOK, StateOK, SttransEnter
<1>2. tcs' \in [Port -> TopologyFlags]
  <2>1. [tcs[p] EXCEPT !.tc = ~ adapt[p].operEdge] \in TopologyFlags
    BY PortTypes DEF TopologyFlags, Adaptation
  <2> QED BY <2>1 DEF NetOK, StateOK, SttransEnter
<1> QED BY <1>1, <1>2 DEF NetOK, StateOK, SttransEnter

\* So does every state of the path cost machine,
LEMMA PcostKeepsTypes ==
  ASSUME NetOK, NEW p \in Port, NEW s, PcostEnter(p, s)
  PROVE  NetOK'
<1>1. Speed[p] \in Nat
  BY TimesAssumption
<1>2. AutoPCost(Speed[p]) \in Nat
  BY <1>1, SMT DEF AutoPCost
<1>3. [adapt[p] EXCEPT !.operSpeed = Speed[p], !.usedSpeed = Speed[p],
                       !.operPCost = AutoPCost(Speed[p])] \in Adaptation
  BY <1>1, <1>2, PortTypes DEF Adaptation
<1>4. adapt' \in [Port -> Adaptation]
  BY <1>3 DEF NetOK, StateOK, PcostEnter
<1> QED BY <1>4 DEF NetOK, StateOK, PcostEnter

\* of the point-to-point machine,
LEMMA P2pKeepsTypes ==
  ASSUME NetOK, NEW p \in Port, NEW s, P2pEnter(p, s)
  PROVE  NetOK'
<1> DEFINE duplex == p \in FullDuplex
<1>1. [adapt[p] EXCEPT !.operP2P = duplex, !.p2p_recompute = FALSE] \in Adaptation
  <2>1. duplex \in BOOLEAN
    OBVIOUS
  <2> HIDE DEF duplex
  <2> QED BY <2>1, PortTypes DEF Adaptation
<1>2. adapt' \in [Port -> Adaptation]
  BY <1>1 DEF NetOK, StateOK, P2pEnter
<1> QED BY <1>2 DEF NetOK, StateOK, P2pEnter

\* of the edge machine,
LEMMA EdgeKeepsTypes ==
  ASSUME NetOK, NEW p \in Port, NEW s, EdgeEnter(p, s)
  PROVE  NetOK'
<1> DEFINE admin == p \in AdminEdge
<1>1. /\ [adapt[p] EXCEPT !.operEdge = admin, !.wasInitBpdu = FALSE,
                          !.portEnabled = FALSE] \in Adaptation
      /\ [adapt[p] EXCEPT !.portEnabled = TRUE, !.operEdge = FALSE] \in Adaptation
      /\ [adapt[p] EXCEPT !.operEdge =
             IF adapt[p].wasInitBpdu THEN @ ELSE admin] \in Adaptation
  <2>1. admin \in BOOLEAN
    OBVIOUS
  <2> HIDE DEF admin
  <2> QED BY <2>1, PortTypes DEF Adaptation
<1>2. /\ [timer[p] EXCEPT !.lnkWhile = 0] \in Timers
      /\ [timer[p] EXCEPT !.lnkWhile = LinkDelay] \in Timers
  BY PortTypes, TimesAssumption DEF Timers
<1>3. adapt' \in [Port -> Adaptation]
  BY <1>1, ZenonT(40) DEF NetOK, StateOK, EdgeEnter
<1>4. timer' \in [Port -> Timers]
  BY <1>2, ZenonT(40) DEF NetOK, StateOK, EdgeEnter
<1> QED BY <1>3, <1>4 DEF NetOK, StateOK, EdgeEnter

\* of protocol migration,
LEMMA MigrateKeepsTypes ==
  ASSUME NetOK, NEW p \in Port, NEW s, MigrateEnter(p, s)
  PROVE  NetOK'
<1> DEFINE rstp == s = "SEND_RSTP"
<1>1. /\ [adapt[p] EXCEPT !.initPm = TRUE] \in Adaptation
      /\ [adapt[p] EXCEPT !.initPm = FALSE, !.sendRSTP = rstp] \in Adaptation
  <2>1. rstp \in BOOLEAN
    OBVIOUS
  <2> HIDE DEF rstp
  <2> QED BY <2>1, PortTypes DEF Adaptation
<1>2. [timer[p] EXCEPT !.mdelayWhile = MigrateTime] \in Timers
  BY PortTypes, TimesAssumption, ZenonT(40) DEF Timers
<1>3. [rcv[p] EXCEPT !.rcvdRSTP = FALSE, !.rcvdSTP = FALSE] \in Reception
  BY PortTypes DEF Reception
<1>4. adapt' \in [Port -> Adaptation]
  BY <1>1 DEF NetOK, StateOK, MigrateEnter
<1>5. timer' \in [Port -> Timers]
  BY <1>2 DEF NetOK, StateOK, MigrateEnter
<1>6. rcv' \in [Port -> Reception]
  BY <1>3 DEF NetOK, StateOK, MigrateEnter
<1> QED BY <1>4, <1>5, <1>6 DEF NetOK, StateOK, MigrateEnter

\* and of topology change.
LEMMA TopochKeepsTypes ==
  ASSUME NetOK, NEW p \in Port, NEW s, TopochEnter(p, s)
  PROVE  NetOK'
<1>1. NewTcWhile(p) \in Nat
  BY PortTypes DEF NewTcWhile, Times
<1>2. /\ [timer[p] EXCEPT !.tcWhile = 0] \in Timers
      /\ [timer[p] EXCEPT !.tcWhile = NewTcWhile(p)] \in Timers
  BY <1>1, PortTypes DEF Timers
<1>3. timer' \in [Port -> Timers]
  BY <1>2 DEF NetOK, StateOK, TopochEnter, TopochInit
<1>4. PropagateFrom(p) \in [Port -> TopologyFlags]
  <2>1. \A q \in Port : [tcs[q] EXCEPT !.tcProp = TRUE] \in TopologyFlags
    BY PortTypes DEF TopologyFlags
  <2> QED BY <2>1, PortTypes DEF PropagateFrom
<1> DEFINE desg == ctl[p].role = "Designated"
<1>5. /\ [tcs[p] EXCEPT !.tc = FALSE, !.tcProp = FALSE, !.tcAck = FALSE] \in TopologyFlags
      /\ [tc |-> FALSE, tcProp |-> FALSE, tcAck |-> tcs[p].tcAck,
          rcvdTc |-> FALSE, rcvdTcn |-> FALSE, rcvdTcAck |-> FALSE] \in TopologyFlags
      /\ [tcs[p] EXCEPT !.tcProp = FALSE] \in TopologyFlags
      /\ [tcs[p] EXCEPT !.rcvdTcAck = FALSE] \in TopologyFlags
  BY PortTypes DEF TopologyFlags
<1>6. /\ [PropagateFrom(p)[p] EXCEPT !.tc = FALSE] \in TopologyFlags
      /\ [PropagateFrom(p)[p] EXCEPT !.rcvdTcn = FALSE, !.rcvdTc = FALSE,
                                     !.tcAck = @ \/ desg] \in TopologyFlags
  <2>1. desg \in BOOLEAN
    OBVIOUS
  <2>2. PropagateFrom(p)[p] \in TopologyFlags
    BY <1>4
  <2> HIDE DEF desg
  <2> QED BY <2>1, <2>2 DEF TopologyFlags
<1>7. tcs' \in [Port -> TopologyFlags]
  BY <1>4, <1>5, <1>6, ZenonT(40) DEF NetOK, StateOK, TopochEnter, TopochInit
<1> QED BY <1>3, <1>7 DEF NetOK, StateOK, TopochEnter

\* Every frame a port builds is a BPDU.
LEMMA BpduOfType ==
  ASSUME NetOK, NEW p \in Port, NEW type \in {"Config", "RSTP"}
  PROVE  BpduOf(p, type) \in Bpdu
<1> DEFINE role == IF type = "RSTP" THEN RoleField(sel[p].selectedRole) ELSE "Unknown"
           tc == timer[p].tcWhile > 0
           tcAck == type = "Config" /\ tcs[p].tcAck
           proposal == type = "RSTP" /\ ctl[p].proposing
           agreement == type = "RSTP" /\ ctl[p].synced
<1>1. type \in BpduType
  BY DEF BpduType
<1>2. role \in MsgRole
  <2>1. RoleField(sel[p].selectedRole) \in MsgRole
    BY DEF RoleField, SendsRole, MsgRole
  <2> QED BY <2>1 DEF MsgRole
<1>3. /\ tc \in BOOLEAN /\ tcAck \in BOOLEAN /\ proposal \in BOOLEAN
      /\ agreement \in BOOLEAN
  OBVIOUS
<1>4. prio[p].portPrio \in Vector /\ prio[p].portTimes \in Times
  BY PortTypes DEF Information
<1> HIDE DEF role, tc, tcAck, proposal, agreement
<1>5. [type |-> type, role |-> role, tc |-> tc, tcAck |-> tcAck,
       proposal |-> proposal, agreement |-> agreement,
       vec |-> prio[p].portPrio, times |-> prio[p].portTimes] \in Bpdu
  BY <1>1, <1>2, <1>3, <1>4 DEF Bpdu
<1> QED BY <1>5, Zenon DEF BpduOf, role, tc, tcAck, proposal, agreement

\* The frames that are not built from a port are BPDUs too.
LEMMA NoBpduType == NoBpdu \in Bpdu /\ TcnBpdu \in Bpdu
BY DEF NoBpdu, TcnBpdu, Bpdu, BpduType, MsgRole, Vector, Times

\* A frame handed to the switch chip reaches a port or is lost.
LEMMA SendType ==
  ASSUME NetOK, NEW p \in Port, NEW m \in Bpdu, Send(p, m)
  PROVE  wire' \in [Port -> Seq(Bpdu)]
<1>1. Peer[p] \in Port
  BY PeerAssumption
<1>2. Append(wire[Peer[p]], m) \in Seq(Bpdu)
  BY <1>1, PortTypes, AppendProperties
<1> QED BY <1>1, <1>2 DEF Send, NetOK

\* Port transmit keeps the types: txCount stays within TxHoldCount because a
\* frame is sent only below it.
LEMMA TransmitKeepsTypes ==
  ASSUME NetOK, NEW p \in Port, NEW s, s = TransmitNext(p), TransmitEnter(p, s)
  PROVE  NetOK'
<1> DEFINE news == ctl[p].newInfo \/ ctl[p].role = "Designated"
                     \/ (ctl[p].role = "Root" /\ timer[p].tcWhile > 0)
<1>1. /\ [ctl[p] EXCEPT !.newInfo = FALSE] \in Control
      /\ [ctl[p] EXCEPT !.newInfo = news] \in Control
  <2>1. news \in BOOLEAN
    OBVIOUS
  <2> HIDE DEF news
  <2> QED BY <2>1, PortTypes DEF Control
<1>2. ctl' \in [Port -> Control]
  BY <1>1 DEF NetOK, StateOK, TransmitEnter
<1>3. [tcs[p] EXCEPT !.tcAck = FALSE] \in TopologyFlags
  BY PortTypes DEF TopologyFlags
<1>4. tcs' \in [Port -> TopologyFlags]
  BY <1>3 DEF NetOK, StateOK, TransmitEnter
<1>5. timer' \in [Port -> Timers]
  <2>. TxHoldCount \in Nat /\ timer[p].txCount \in 0 .. TxHoldCount
    BY PortTypes, TimesAssumption DEF Timers
  <2>0. 0 \in 0 .. TxHoldCount /\ RootTimes(p).HelloTime \in Nat
    BY PortTypes DEF Times
  <2>1. /\ [timer[p] EXCEPT !.helloWhen = 0, !.txCount = 0] \in Timers
        /\ [timer[p] EXCEPT !.helloWhen = RootTimes(p).HelloTime] \in Timers
    BY <2>0, PortTypes DEF Timers
  <2>2. CASE s \in {"TRANSMIT_CONFIG", "TRANSMIT_RSTP", "TRANSMIT_TCN"}
    <3>1. timer[p].txCount < TxHoldCount
      BY <2>2 DEF TransmitNext, CanSend, Stay
    <3>2. timer[p].txCount + 1 \in 0 .. TxHoldCount
      BY <3>1
    <3>3. [timer[p] EXCEPT !.txCount = @ + 1] \in Timers
      BY <3>2, PortTypes DEF Timers
    <3> QED BY <2>2, <3>3 DEF NetOK, StateOK, TransmitEnter
  <2>3. CASE s \notin {"TRANSMIT_CONFIG", "TRANSMIT_RSTP", "TRANSMIT_TCN"}
    BY <2>1, <2>3 DEF NetOK, StateOK, TransmitEnter
  <2> QED BY <2>2, <2>3
<1>6. wire' \in [Port -> Seq(Bpdu)]
  <2>1. CASE UNCHANGED wire
    BY <2>1 DEF NetOK
  <2>2. CASE Send(p, TcnBpdu)
    BY <2>2, SendType, NoBpduType
  <2>3. CASE Send(p, BpduOf(p, IF s = "TRANSMIT_RSTP" THEN "RSTP" ELSE "Config"))
    <3> DEFINE type == IF s = "TRANSMIT_RSTP" THEN "RSTP" ELSE "Config"
    <3>1. BpduOf(p, type) \in Bpdu
      BY BpduOfType
    <3> QED BY <2>3, <3>1, SendType
  <2> QED BY <2>1, <2>2, <2>3 DEF TransmitEnter
<1> QED BY <1>2, <1>4, <1>5, <1>6 DEF NetOK, StateOK, TransmitEnter

\* Port role transitions keep the types.
LEMMA RoletrnsKeepsTypes ==
  ASSUME NetOK, NEW p \in Port, NEW s, RoletrnsEnter(p, s)
  PROVE  NetOK'
<1>1. /\ [ctl[p] EXCEPT !.role = "Disabled", !.synced = FALSE, !.sync = TRUE,
                        !.reRoot = TRUE] \in Control
      /\ [ctl[p] EXCEPT !.synced = TRUE, !.sync = FALSE, !.reRoot = FALSE] \in Control
      /\ [ctl[p] EXCEPT !.proposed = FALSE, !.sync = FALSE, !.synced = TRUE,
                        !.newInfo = TRUE] \in Control
      /\ [ctl[p] EXCEPT !.role = "Root"] \in Control
      /\ [ctl[p] EXCEPT !.reRoot = FALSE] \in Control
      /\ [ctl[p] EXCEPT !.learn = TRUE] \in Control
      /\ [ctl[p] EXCEPT !.forward = TRUE] \in Control
      /\ [ctl[p] EXCEPT !.proposing = TRUE, !.newInfo = TRUE] \in Control
      /\ [ctl[p] EXCEPT !.synced = TRUE, !.sync = FALSE] \in Control
      /\ [ctl[p] EXCEPT !.role = "Designated"] \in Control
      /\ [ctl[p] EXCEPT !.learn = FALSE, !.forward = FALSE] \in Control
  BY PortTypes DEF Control, PortRole
<1>2. [ctl[p] EXCEPT !.role = sel[p].selectedRole, !.learn = FALSE,
                     !.forward = FALSE] \in Control
  BY PortTypes DEF Control, Selection
<1>3. ASSUME NEW q \in Port, NEW x \in BOOLEAN, NEW y \in BOOLEAN
      PROVE  /\ [ctl[q] EXCEPT !.sync = x, !.proposed = y] \in Control
             /\ [ctl[q] EXCEPT !.reRoot = x] \in Control
  BY <1>3, PortTypes DEF Control
<1>4. ctl' \in [Port -> Control]
  <2>1. CASE s = "ROOT_PROPOSED"
    <3>1. \A q \in Port : [ctl[q] EXCEPT !.sync = @ \/ Owner[q] = Owner[p],
                                         !.proposed = @ /\ q # p] \in Control
      BY <1>3
    <3> QED BY <2>1, <3>1 DEF RoletrnsEnter
  <2>2. CASE s = "REROOT"
    <3>1. \A q \in Port : [ctl[q] EXCEPT !.reRoot = @ \/ Owner[q] = Owner[p]] \in Control
      BY <1>3
    <3> QED BY <2>2, <3>1 DEF RoletrnsEnter
  <2>3. CASE s \notin {"ROOT_PROPOSED", "REROOT"}
    <3>1. CASE s \in {"INIT_PORT", "BLOCK_PORT", "BLOCKED_PORT", "BACKUP_PORT"}
      BY <1>1, <1>2, <3>1, ZenonT(40) DEF NetOK, StateOK, RoletrnsEnter, BlockPort
    <3>2. CASE s \in {"ROOT_AGREED", "ROOT_PORT", "REROOTED", "ROOT_LEARN", "ROOT_FORWARD"}
      BY <1>1, <3>2, ZenonT(40) DEF NetOK, StateOK, RoletrnsEnter
    <3>3. CASE s \in {"DESIGNATED_RETIRED", "DESIGNATED_LEARN", "DESIGNATED_FORWARD",
                      "DESIGNATED_PROPOSE", "DESIGNATED_SYNCED", "DESIGNATED_PORT",
                      "DESIGNATED_LISTEN"}
      BY <1>1, <3>3, ZenonT(40) DEF NetOK, StateOK, RoletrnsEnter
    <3> QED BY <2>3, <3>1, <3>2, <3>3 DEF RoletrnsEnter
  <2> QED BY <2>1, <2>2, <2>3
<1>5. [sel[p] EXCEPT !.selectedRole = "Disabled", !.reselect = TRUE] \in Selection
  BY PortTypes DEF Selection, PortRole
<1>6. sel' \in [Port -> Selection]
  BY <1>5, ZenonT(40) DEF NetOK, StateOK, RoletrnsEnter
<1> DEFINE fd == RootTimes(p).ForwardDelay
           rb == 2 * RootTimes(p).HelloTime
<1>7. fd \in Nat /\ rb \in Nat
  BY PortTypes DEF Times
<1> HIDE DEF fd, rb
<1>8. /\ [timer[p] EXCEPT !.rrWhile = fd, !.fdWhile = fd, !.rbWhile = 0] \in Timers
      /\ [timer[p] EXCEPT !.fdWhile = fd, !.rrWhile = 0] \in Timers
      /\ [timer[p] EXCEPT !.rbWhile = rb] \in Timers
      /\ [timer[p] EXCEPT !.rrWhile = fd] \in Timers
      /\ [timer[p] EXCEPT !.fdWhile = fd] \in Timers
      /\ [timer[p] EXCEPT !.fdWhile = 0] \in Timers
      /\ [timer[p] EXCEPT !.rrWhile = 0] \in Timers
  BY <1>7, PortTypes DEF Timers
<1>9. timer' \in [Port -> Timers]
  BY <1>8, ZenonT(40) DEF NetOK, StateOK, RoletrnsEnter, fd, rb
<1> QED BY <1>4, <1>6, <1>9 DEF NetOK, StateOK, RoletrnsEnter

\* updtRcvdInfoWhile never sets a negative time.
LEMMA InfoLifetimeType ==
  ASSUME NEW t \in Times
  PROVE  InfoLifetime(t) \in Nat
<1> DEFINE effAge == AtLeast1(t.MaxAge \div 16) + t.MessageAge
<1>1. t.MaxAge \in Nat /\ t.MessageAge \in Nat /\ t.HelloTime \in Nat
  BY DEF Times
<1>2. effAge \in Nat
  BY <1>1 DEF AtLeast1
<1>3. effAge <= t.MaxAge => t.MaxAge - effAge \in Nat
  BY <1>1, <1>2
<1> HIDE DEF effAge
<1>4. (IF effAge > t.MaxAge THEN 0
       ELSE IF t.MaxAge - effAge > 3 * t.HelloTime THEN 3 * t.HelloTime
       ELSE t.MaxAge - effAge) \in Nat
  BY <1>1, <1>2, <1>3
<1> QED BY <1>4 DEF InfoLifetime, effAge

\* Port information keeps the types.
LEMMA InfoKeepsTypes ==
  ASSUME NetOK, NEW p \in Port, NEW s, InfoEnter(p, s)
  PROVE  NetOK'
<1>1. /\ prio[p] \in Information /\ rcv[p].msg \in Bpdu
      /\ rcv[p].msg.vec \in Vector /\ rcv[p].msg.times \in Times
      /\ InfoLifetime(rcv[p].msg.times) \in Nat
      /\ InfoLifetime(prio[p].portTimes) \in Nat
  BY PortTypes, InfoLifetimeType DEF Information, Reception, Bpdu
<1> DEFINE proposed == RecordProposed(p)
           life1 == InfoLifetime(rcv[p].msg.times)
           life2 == InfoLifetime(prio[p].portTimes)
<1>2. proposed \in BOOLEAN
  BY DEF RecordProposed
<1>3. life1 \in Nat /\ life2 \in Nat
  BY <1>1
<1> HIDE DEF proposed, life1, life2
<1>4. ctl' \in [Port -> Control]
  <2>1. /\ [ctl[p] EXCEPT !.proposing = FALSE, !.agreed = FALSE,
                          !.proposed = FALSE] \in Control
        /\ [ctl[p] EXCEPT !.agreed = FALSE, !.synced = FALSE,
                          !.proposing = FALSE, !.proposed = proposed] \in Control
        /\ [ctl[p] EXCEPT !.agreed = FALSE, !.synced = FALSE, !.proposed = FALSE,
                          !.proposing = FALSE, !.newInfo = TRUE] \in Control
        /\ [ctl[p] EXCEPT !.proposed = proposed] \in Control
        /\ [ctl[p] EXCEPT !.agreed = TRUE, !.proposing = FALSE] \in Control
    BY <1>2, PortTypes DEF Control
  <2>2. \/ ctl' = ctl
        \/ ctl' = [ctl EXCEPT ![p].proposing = FALSE, ![p].agreed = FALSE,
                              ![p].proposed = FALSE]
        \/ ctl' = [ctl EXCEPT ![p].agreed = FALSE, ![p].synced = FALSE,
                              ![p].proposing = FALSE, ![p].proposed = proposed]
        \/ ctl' = [ctl EXCEPT ![p].agreed = FALSE, ![p].synced = FALSE,
                              ![p].proposed = FALSE, ![p].proposing = FALSE,
                              ![p].newInfo = TRUE]
        \/ ctl' = [ctl EXCEPT ![p].proposed = proposed]
        \/ ctl' = [ctl EXCEPT ![p].agreed = TRUE, ![p].proposing = FALSE]
    BY DEF InfoEnter, InfoAged, InfoDisabled, InfoUpdate, InfoReceive,
                 InfoSuperior, proposed
  <2> QED BY <2>1, <2>2, ZenonT(40) DEF NetOK, StateOK
<1>5. sel' \in [Port -> Selection]
  <2>1. /\ [sel[p] EXCEPT !.updtInfo = FALSE, !.reselect = TRUE,
                          !.selected = FALSE] \in Selection
        /\ [sel[p] EXCEPT !.reselect = TRUE, !.selected = FALSE] \in Selection
        /\ [sel[p] EXCEPT !.updtInfo = FALSE] \in Selection
    BY PortTypes DEF Selection
  <2>2. \/ sel' = sel
        \/ sel' = [sel EXCEPT ![p].updtInfo = FALSE, ![p].reselect = TRUE,
                              ![p].selected = FALSE]
        \/ sel' = [sel EXCEPT ![p].reselect = TRUE, ![p].selected = FALSE]
        \/ sel' = [sel EXCEPT ![p].updtInfo = FALSE]
    BY DEF InfoEnter, InfoAged, InfoDisabled, InfoUpdate, InfoReceive,
                 InfoSuperior
  <2> QED BY <2>1, <2>2 DEF NetOK, StateOK
<1>6. prio' \in [Port -> Information]
  <2>1. /\ [prio[p] EXCEPT !.infoIs = "Disabled"] \in Information
        /\ [prio[p] EXCEPT !.infoIs = "Aged"] \in Information
        /\ [prio[p] EXCEPT !.portPrio = prio[p].designPrio,
                           !.portTimes = prio[p].designTimes] \in Information
        /\ [prio[p] EXCEPT !.portPrio = prio[p].designPrio,
                           !.portTimes = prio[p].designTimes,
                           !.infoIs = "Mine"] \in Information
    BY <1>1 DEF Information, InfoIs
  <2>2. [prio[p] EXCEPT !.portPrio = rcv[p].msg.vec, !.portTimes = rcv[p].msg.times,
                        !.infoIs = "Received"] \in Information
    BY <1>1 DEF Information, InfoIs
  <2>3. \/ prio' = prio
        \/ prio' = [prio EXCEPT ![p].infoIs = "Disabled"]
        \/ prio' = [prio EXCEPT ![p].infoIs = "Aged"]
        \/ prio' = [prio EXCEPT ![p].portPrio = prio[p].designPrio,
                                ![p].portTimes = prio[p].designTimes]
        \/ prio' = [prio EXCEPT ![p].portPrio = prio[p].designPrio,
                                ![p].portTimes = prio[p].designTimes,
                                ![p].infoIs = "Mine"]
        \/ prio' = [prio EXCEPT ![p].portPrio = rcv[p].msg.vec,
                                ![p].portTimes = rcv[p].msg.times,
                                ![p].infoIs = "Received"]
    BY DEF InfoEnter, InfoAged, InfoDisabled, InfoUpdate, InfoReceive,
                 InfoSuperior
  <2> QED BY <2>1, <2>2, <2>3 DEF NetOK, StateOK
<1>7. timer' \in [Port -> Timers]
  <2>1. /\ [timer[p] EXCEPT !.rcvdInfoWhile = 0] \in Timers
        /\ [timer[p] EXCEPT !.rcvdInfoWhile = life1] \in Timers
        /\ [timer[p] EXCEPT !.rcvdInfoWhile = life2] \in Timers
    BY <1>3, PortTypes DEF Timers
  <2> QED BY <2>1, ZenonT(40) DEF NetOK, StateOK, InfoEnter, InfoAged, InfoDisabled, InfoUpdate,
                      InfoReceive, InfoSuperior, life1, life2
<1> DEFINE version1 == rcv[p].msg.type \in {"TCN", "Config"}
           rstp == rcv[p].msg.type = "RSTP"
           tcn == rcv[p].msg.type = "TCN"
           tcAck == rcv[p].msg.tcAck
           verdict == RcvBpdu(p)
<1>8. /\ version1 \in BOOLEAN /\ rstp \in BOOLEAN /\ tcn \in BOOLEAN
      /\ tcAck \in BOOLEAN /\ verdict \in Verdict
  <2>1. tcAck \in BOOLEAN
    BY <1>1 DEF Bpdu
  <2>2. verdict \in Verdict
    BY DEF RcvBpdu, Verdict
  <2> QED BY <2>1, <2>2
<1> HIDE DEF version1, rstp, tcn, tcAck, verdict
<1>9. rcv' \in [Port -> Reception]
  <2>1. /\ [rcv[p] EXCEPT !.rcvdBpdu = FALSE, !.rcvdRSTP = FALSE,
                          !.rcvdSTP = FALSE] \in Reception
        /\ [rcv[p] EXCEPT !.rcvdMsg = verdict, !.rcvdBpdu = FALSE,
                          !.rcvdSTP = @ \/ version1,
                          !.rcvdRSTP = @ \/ rstp] \in Reception
    BY <1>8, PortTypes DEF Reception
  <2>2. \/ rcv' = rcv
        \/ rcv' = [rcv EXCEPT ![p].rcvdBpdu = FALSE, ![p].rcvdRSTP = FALSE,
                              ![p].rcvdSTP = FALSE]
        \/ rcv' = [rcv EXCEPT ![p].rcvdMsg = verdict, ![p].rcvdBpdu = FALSE,
                              ![p].rcvdSTP = @ \/ version1,
                              ![p].rcvdRSTP = @ \/ rstp]
    BY DEF InfoEnter, InfoAged, InfoDisabled, InfoUpdate, InfoReceive,
                 InfoSuperior, verdict,
                 version1, rstp
  <2> QED BY <2>1, <2>2, ZenonT(40) DEF NetOK, StateOK
<1>10. tcs' \in [Port -> TopologyFlags]
  <2>1. [tcs[p] EXCEPT !.rcvdTcn = @ \/ tcn, !.rcvdTc = @ \/ ~ tcn,
                       !.rcvdTcAck = @ \/ tcAck] \in TopologyFlags
    BY <1>8, PortTypes DEF TopologyFlags
  <2>2. \/ tcs' = tcs
        \/ tcs' = [tcs EXCEPT ![p].rcvdTcn = @ \/ tcn, ![p].rcvdTc = @ \/ ~ tcn,
                              ![p].rcvdTcAck = @ \/ tcAck]
    BY DEF InfoEnter, InfoAged, InfoDisabled, InfoUpdate, InfoReceive,
                 InfoSuperior, tcn, tcAck
  <2> QED BY <2>1, <2>2, ZenonT(40) DEF NetOK, StateOK
<1> QED BY <1>4, <1>5, <1>6, <1>7, <1>9, <1>10 DEF NetOK, StateOK, InfoEnter, InfoAged

\* The ports of a bridge.
LEMMA BridgePorts ==
  ASSUME NEW b \in Bridge
  PROVE  Ports[b] = {p \in Port : Owner[p] = b} /\ Ports[b] \subseteq Port
BY DEF Ports

\* The vectors role selection compares are vectors.
LEMMA RootPathPrioType ==
  ASSUME NetOK, NEW p \in Port
  PROVE  RootPathPrio(p) \in Vector
<1>1. prio[p].portPrio \in Vector /\ adapt[p].operPCost \in Nat
  BY PortTypes DEF Information, Adaptation
<1> QED BY <1>1 DEF RootPathPrio, AddCost, Vector

\* So are those it has the ports advertise.
LEMMA DesignPrioType ==
  ASSUME NEW p \in Port, NEW v \in Vector
  PROVE  DesignPrioFor(p, v) \in Vector
<1>1. Owner[p] \in Nat /\ PortId[p] \in Nat
  BY PortAssumption, TimesAssumption
<1> QED BY <1>1 DEF DesignPrioFor, MakeVector, RootBridge, RootPathCost, Vector

\* What port p makes of its bridge when it is elected.
ElectedThrough(p) ==
  [rootPrio   |-> RootPathPrio(p),
   rootTimes  |-> AgeOneHop(prio[p].portTimes),
   rootPortId |-> BridgePort(RootPathPrio(p))]

\* If a port leads to a better root than the bridge, such a port is elected.
LEMMA ElectedCandidate ==
  ASSUME NetOK, NEW b \in Bridge, RootCandidates(b) # {}
  PROVE  \E p \in RootCandidates(b) :
           /\ p \in Port /\ Owner[p] = b /\ Elected(b) = ElectedThrough(p)
           /\ (\E q \in RootCandidates(b) : IsBestOf(b, q)) => IsBestOf(b, p)
<1> DEFINE C == RootCandidates(b)
           Wins(p) == (\E q \in C : IsBestOf(b, q)) => IsBestOf(b, p)
           best == CHOOSE p \in C : Wins(p)
<1>1. C \subseteq Port /\ \A q \in C : Owner[q] = b
  BY BridgePorts DEF RootCandidates
<1>2. \E p \in C : Wins(p)
  OBVIOUS
<1>3. best \in C /\ Wins(best)
  <2> HIDE DEF C, Wins
  <2> QED BY <1>2
<1>4. Elected(b) = ElectedThrough(best)
  BY DEF Elected, ElectedThrough
<1> HIDE DEF best
<1> QED BY <1>1, <1>3, <1>4

\* If all such ports are near the root, a best one is elected.
LEMMA ElectedBest ==
  ASSUME NetOK, NEW b \in Bridge, RootCandidates(b) # {},
         \A q \in RootCandidates(b) : Near(RootPathPrio(q))
  PROVE  \E p \in RootCandidates(b) :
           /\ p \in Port /\ Owner[p] = b /\ Elected(b) = ElectedThrough(p)
           /\ \A r \in RootCandidates(b) : ~ VecLess(RootPathPrio(r), RootPathPrio(p))
<1> DEFINE C == RootCandidates(b)
           V == {RootPathPrio(q) : q \in C}
<1>1. V \subseteq Vector /\ V # {} /\ \A v \in V : Near(v)
  BY BridgePorts, RootPathPrioType DEF RootCandidates
<1> HIDE DEF C
<1>2. PICK v \in V : \A u \in V : ~ VecLess(u, v)
  BY <1>1, VectorLeast
<1>3. PICK q \in C : v = RootPathPrio(q)
  BY <1>2
<1>4. q \in RootCandidates(b) /\ IsBestOf(b, q)
  BY <1>2, <1>3 DEF C, IsBestOf
<1> QED BY <1>4, ElectedCandidate DEF IsBestOf

\* Either no port leads to a better root than the bridge, or one is elected.
LEMMA ElectedCases ==
  ASSUME NetOK, NEW b \in Bridge
  PROVE  \/ Elected(b) = [rootPrio |-> OwnPrio(b), rootTimes |-> BrTimes[b],
                          rootPortId |-> 0]
         \/ \E p \in RootCandidates(b) :
              p \in Port /\ Owner[p] = b /\ Elected(b) = ElectedThrough(p)
<1>1. CASE RootCandidates(b) = {}
  BY <1>1 DEF Elected
<1>2. CASE RootCandidates(b) # {}
  BY <1>2, ElectedCandidate
<1> QED BY <1>1, <1>2

\* The election gives a bridge a root.
LEMMA ElectedType ==
  ASSUME NetOK, NEW b \in Bridge
  PROVE  Elected(b) \in RootKnown
<1>1. [rootPrio |-> OwnPrio(b), rootTimes |-> BrTimes[b], rootPortId |-> 0] \in RootKnown
  BY TimesAssumption DEF OwnPrio, MakeVector, Vector, RootKnown
<1>2. ASSUME NEW p \in Port
      PROVE  ElectedThrough(p) \in RootKnown
  <2>1. RootPathPrio(p) \in Vector /\ prio[p].portTimes \in Times
    BY RootPathPrioType, PortTypes DEF Information
  <2>2. AgeOneHop(prio[p].portTimes) \in Times
    BY <2>1 DEF AgeOneHop, AtLeast1, Times
  <2>3. BridgePort(RootPathPrio(p)) \in Nat
    BY <2>1 DEF BridgePort, Vector
  <2> QED BY <2>1, <2>2, <2>3 DEF RootKnown, ElectedThrough
<1> QED BY <1>1, <1>2, ElectedCases

\* Role selection gives a port one of the roles,
LEMMA RoleForType ==
  ASSUME NEW p, NEW e
  PROVE  RoleFor(p, e) \in PortRole
BY DEF RoleFor, PortRole

\* and a Boolean to announce it by.
LEMMA UpdtInfoForType ==
  ASSUME NetOK, NEW p \in Port, NEW e
  PROVE  UpdtInfoFor(p, e) \in BOOLEAN
<1>1. sel[p].updtInfo \in BOOLEAN
  BY PortTypes DEF Selection
<1> QED BY <1>1 DEF UpdtInfoFor

\* Port role selection keeps the types.
LEMMA RoleSelKeepsTypes ==
  ASSUME NetOK, NEW b \in Bridge, RoleSelEnter(b)
  PROVE  NetOK'
<1> DEFINE e == Elected(b)
<1>1. e \in RootKnown /\ e.rootPrio \in Vector /\ e.rootTimes \in Times
  BY ElectedType DEF RootKnown
<1> HIDE DEF e
<1>2. br' \in [Bridge -> RootKnown]
  BY <1>1 DEF NetOK, StateOK, RoleSelEnter, UpdtRolesBridge, e
<1>3. sel' \in [Port -> Selection]
  <2>1. ASSUME NEW p \in Port
        PROVE  [selectedRole |-> RoleFor(p, e), selected |-> TRUE,
                reselect |-> FALSE, updtInfo |-> UpdtInfoFor(p, e)] \in Selection
    BY RoleForType, UpdtInfoForType DEF Selection
  <2> QED BY <2>1, PortTypes DEF RoleSelEnter, UpdtRolesBridge, e
<1>4. prio' \in [Port -> Information]
  <2>1. ASSUME NEW p \in Port
        PROVE  [prio[p] EXCEPT !.designPrio = DesignPrioFor(p, e.rootPrio),
                               !.designTimes = e.rootTimes] \in Information
    BY <1>1, DesignPrioType, PortTypes DEF Information
  <2> QED BY <2>1, PortTypes DEF RoleSelEnter, UpdtRolesBridge, e
<1>5. ctl' \in [Port -> Control]
  <2>1. ASSUME NEW p \in Port
        PROVE  [ctl[p] EXCEPT !.role = "NonStp", !.learn = TRUE,
                              !.forward = TRUE] \in Control
    BY PortTypes DEF Control, PortRole
  <2> QED BY <2>1, PortTypes DEF RoleSelEnter, UpdtRolesBridge
<1> QED BY <1>2, <1>3, <1>4, <1>5 DEF NetOK, StateOK, RoleSelEnter

-----------------------------------------------------------------------------
(***************************************************************************)
(* The engine.                                                             *)
(***************************************************************************)
LEMMA Kinds ==
  PortKind = {"transmit", "sttrans", "roletrns", "info", "pcost", "edge",
              "p2p", "migrate", "topoch"}
BY DEF PortKind, PortMachines

\* A machine is that of a bridge or one of the nine of a port.
LEMMA MachineCases ==
  ASSUME NEW m \in Machine
  PROVE  \/ m[1] = "rolesel" /\ m[2] \in Bridge /\ m = RoleSelMachine(m[2])
         \/ m[1] \in PortKind /\ m[2] \in Port /\ m = PortMachine(m[1], m[2])
BY DEF Machine, RoleSelMachine, PortMachine

\* The machines of a bridge are machines.
LEMMA MachinesOfType ==
  ASSUME NEW b \in Bridge
  PROVE  MachinesOf[b] \subseteq Machine
BY BridgePorts DEF MachinesOf, Machine, RoleSelMachine

\* STP_stpm_update always works on some bridge.
LEMMA ActiveType ==
  ASSUME updating \subseteq Bridge, updating # {}
  PROVE  Active \in updating
<1>1. updating \subseteq Nat
  BY TimesAssumption
<1>2. \E b \in updating : \A c \in updating : b <= c
  BY <1>1, NatLeast
<1> QED BY <1>2 DEF Active

\* "No machine" is not a machine.
LEMMA NoMachineType == NoMachine \notin Machine
BY Kinds DEF NoMachine, Machine

\* The engine runs a machine that exists and can move.
LEMMA ChosenType ==
  ASSUME updating \subseteq Bridge, updating # {}, cur \in Machine \cup {NoMachine},
         NEW m \in Chosen(Active)
  PROVE  m \in Machine /\ NextState(m) # Stay
<1>1. Active \in Bridge
  BY ActiveType
<1>2. Movable(Active) \subseteq Machine
  BY <1>1, MachinesOfType DEF Movable
<1> QED BY <1>2, NoMachineType DEF Chosen, Movable

\* Every hop is to a state of the machines, and none back to the beginning.
LEMMA NextStateType ==
  ASSUME NEW m \in Machine, NextState(m) # Stay
  PROVE  NextState(m) \in MachineState \ {BEGIN}
<1> DEFINE Hop == (MachineState \ {BEGIN}) \cup {Stay}
<1> USE DEF MachineState, BEGIN
<1>1. \A x : RoleSelNext(x) \in Hop /\ TransmitNext(x) \in Hop /\ SttransNext(x) \in Hop
  BY DEF RoleSelNext, TransmitNext, SttransNext
<1>2. \A x : RoletrnsNext(x) \in Hop
  <2>1. \A r : RoleEntryState(r) \in Hop
    BY DEF RoleEntryState
  <2>2. \A x : BlockedPortNext(x) \in Hop /\ RootPortNext(x) \in Hop /\ DesgPortNext(x) \in Hop
    BY DEF BlockedPortNext, RootPortNext, DesgPortNext
  <2> HIDE DEF Hop
  <2>3. /\ "INIT_PORT" \in Hop /\ "BLOCK_PORT" \in Hop /\ "ROOT_PORT" \in Hop
        /\ "DESIGNATED_PORT" \in Hop /\ "BLOCKED_PORT" \in Hop /\ Stay \in Hop
    BY DEF Hop
  <2> QED BY <2>1, <2>2, <2>3 DEF RoletrnsNext
<1>3. \A x : InfoNext(x) \in Hop
  BY DEF InfoNext
<1>4. \A x : PcostNext(x) \in Hop /\ EdgeNext(x) \in Hop /\ P2pNext(x) \in Hop
  BY DEF PcostNext, EdgeNext, P2pNext
<1>5. \A x : MigrateNext(x) \in Hop
  BY DEF MigrateNext
<1>6. \A x : TopochNext(x) \in Hop
  BY DEF TopochNext
<1> HIDE DEF Hop
<1>7. NextState(m) \in Hop
  BY <1>1, <1>2, <1>3, <1>4, <1>5, <1>6, MachineCases, Kinds DEF NextState
<1> QED BY <1>7 DEF Hop

\* A step of the engine keeps the types: the entry action is one of the ten
\* above.
LEMMA MachineStepKeepsTypes ==
  ASSUME TypeOK, MachineStep
  PROVE  TypeOK'
<1>1. NetOK
  BY DEF TypeOK, NetOK
<1>2. PICK m \in Chosen(Active) : RunMachine(m, NextState(m))
  BY DEF MachineStep
<1>3. m \in Machine /\ NextState(m) # Stay
  BY ChosenType DEF MachineStep, TypeOK
<1>4. st' \in [Machine -> MachineState]
  BY <1>2, <1>3, NextStateType DEF RunMachine, TypeOK
<1>5. cur' \in Machine \cup {NoMachine}
  BY <1>2, <1>3 DEF RunMachine
<1> DEFINE s == NextState(m)
           p == m[2]
<1>6. NetOK'
  <2>1. CASE m[1] = "rolesel" /\ RoleSelEnter(p)
    BY <1>1, <1>3, <2>1, MachineCases, Kinds, RoleSelKeepsTypes
  <2>2. CASE m[1] = "transmit" /\ TransmitEnter(p, s)
    <3>1. p \in Port
      BY <1>3, <2>2, MachineCases
    <3>2. s = TransmitNext(p)
      BY <2>2 DEF NextState
    <3> QED BY <1>1, <2>2, <3>1, <3>2, TransmitKeepsTypes
  <2>3. ASSUME m[1] # "rolesel"
        PROVE  p \in Port
    BY <1>3, <2>3, MachineCases
  <2>4. CASE m[1] = "sttrans" /\ SttransEnter(p, s)
    BY <1>1, <2>3, <2>4, SttransKeepsTypes
  <2>5. CASE m[1] = "roletrns" /\ RoletrnsEnter(p, s)
    BY <1>1, <2>3, <2>5, RoletrnsKeepsTypes
  <2>6. CASE m[1] = "info" /\ InfoEnter(p, s)
    BY <1>1, <2>3, <2>6, InfoKeepsTypes
  <2>7. CASE m[1] = "pcost" /\ PcostEnter(p, s)
    BY <1>1, <2>3, <2>7, PcostKeepsTypes
  <2>8. CASE m[1] = "edge" /\ EdgeEnter(p, s)
    BY <1>1, <2>3, <2>8, EdgeKeepsTypes
  <2>9. CASE m[1] = "p2p" /\ P2pEnter(p, s)
    BY <1>1, <2>3, <2>9, P2pKeepsTypes
  <2>10. CASE m[1] = "migrate" /\ MigrateEnter(p, s)
    BY <1>1, <2>3, <2>10, MigrateKeepsTypes
  <2>11. CASE m[1] = "topoch" /\ TopochEnter(p, s)
    BY <1>1, <2>3, <2>11, TopochKeepsTypes
  <2> QED BY <1>2, <2>1, <2>2, <2>4, <2>5, <2>6, <2>7, <2>8, <2>9, <2>10, <2>11
             DEF RunMachine
<1> QED BY <1>4, <1>5, <1>6 DEF MachineStep, TypeOK, NetOK

-----------------------------------------------------------------------------
(***************************************************************************)
(* Events and the environment.                                             *)
(***************************************************************************)
LEMMA EnablePortKeepsTypes ==
  ASSUME TypeOK, NEW p \in Port, NEW enable \in BOOLEAN, NEW a \in Adaptation,
         EnablePort(p, enable, a)
  PROVE  /\ adapt' \in [Port -> Adaptation]
         /\ timer' \in [Port -> Timers]
         /\ sel' \in [Port -> Selection]
<1>1. NetOK
  BY DEF TypeOK, NetOK
<1>2. [a EXCEPT !.adminEnable = enable, !.sendRSTP = TRUE, !.operSpeed = Speed[p],
                !.p2p_recompute = TRUE] \in Adaptation
  BY TimesAssumption DEF Adaptation
<1>3. ResetTimers(timer[p]) \in Timers
  <2>1. 0 \in 0 .. TxHoldCount
    BY TimesAssumption
  <2> QED BY <1>1, <2>1, PortTypes DEF ResetTimers, Timers
<1>4. [sel[p] EXCEPT !.selectedRole = "Disabled", !.reselect = TRUE,
                     !.selected = FALSE] \in Selection
  BY <1>1, PortTypes DEF Selection, PortRole
<1> QED BY <1>2, <1>3, <1>4, ZenonT(40) DEF EnablePort, TypeOK, StateOK

\* The link poll keeps the types.
LEMMA PollLinkKeepsTypes ==
  ASSUME TypeOK, NEW p \in Port, PollLink(p)
  PROVE  TypeOK'
<1> DEFINE up == p \in phys
<1>1. /\ up \in BOOLEAN
      /\ EnablePort(p, up, adapt[p])
      /\ adapt[p] \in Adaptation
  BY DEF PollLink, TypeOK, StateOK
<1>2. /\ adapt' \in [Port -> Adaptation]
      /\ timer' \in [Port -> Timers]
      /\ sel' \in [Port -> Selection]
  <2> HIDE DEF up
  <2> QED BY <1>1, EnablePortKeepsTypes
<1>3. Owner[p] \in Bridge
  BY PortAssumption
<1> QED BY <1>2, <1>3 DEF PollLink, Update, TypeOK, StateOK

\* The tick keeps the types: no timer counts below zero.
LEMMA TickKeepsTypes ==
  ASSUME TypeOK, NEW b \in Bridge, Tick(b)
  PROVE  TypeOK'
<1>1. NetOK
  BY DEF TypeOK, NetOK
<1>2. \A n \in Nat : Countdown(n) \in Nat /\ Countdown(n) <= n
  BY DEF Countdown
<1>3. timer' \in [Port -> Timers]
  <2>1. ASSUME NEW p \in Port
        PROVE  [fdWhile |-> Countdown(timer[p].fdWhile),
                helloWhen |-> Countdown(timer[p].helloWhen),
                mdelayWhile |-> Countdown(timer[p].mdelayWhile),
                rbWhile |-> Countdown(timer[p].rbWhile),
                rcvdInfoWhile |-> Countdown(timer[p].rcvdInfoWhile),
                rrWhile |-> Countdown(timer[p].rrWhile),
                tcWhile |-> Countdown(timer[p].tcWhile),
                txCount |-> Countdown(timer[p].txCount),
                lnkWhile |-> Countdown(timer[p].lnkWhile)] \in Timers
    <3>1. timer[p] \in Timers
      BY <1>1, PortTypes
    <3>2. Countdown(timer[p].txCount) \in 0 .. TxHoldCount
      BY <1>2, <3>1, TimesAssumption DEF Timers
    <3> QED BY <1>2, <3>1, <3>2 DEF Timers
  <2> QED BY <1>1, <2>1, PortTypes DEF Tick
<1>4. ticked' \subseteq Bridge
  BY DEF Tick, TypeOK
<1> QED BY <1>3, <1>4 DEF Tick, Update, TypeOK, StateOK

\* A frame that is read keeps the types.
LEMMA RxBpduKeepsTypes ==
  ASSUME TypeOK, NEW p \in Port, RxBpdu(p)
  PROVE  TypeOK'
<1>1. NetOK
  BY DEF TypeOK, NetOK
<1>2. wire[p] \in Seq(Bpdu) /\ wire[p] # <<>>
  BY <1>1, PortTypes DEF RxBpdu
<1>3. Head(wire[p]) \in Bpdu /\ Tail(wire[p]) \in Seq(Bpdu)
  BY <1>2, HeadTailProperties
<1>4. wire' \in [Port -> Seq(Bpdu)]
  BY <1>3 DEF RxBpdu, TypeOK
<1>5. tcs' \in [Port -> TopologyFlags]
  <2> DEFINE edge == adapt[p].operEdge /\ timer[p].lnkWhile = 0 /\ adapt[p].portEnabled
  <2>1. edge \in BOOLEAN
    OBVIOUS
  <2> HIDE DEF edge
  <2>2. [tcs[p] EXCEPT !.tc = @ \/ edge] \in TopologyFlags
    BY <1>1, <2>1, PortTypes DEF TopologyFlags
  <2> QED BY <2>2 DEF RxBpdu, TypeOK, StateOK, edge
<1>6. /\ adapt' \in [Port -> Adaptation]
      /\ timer' \in [Port -> Timers]
      /\ sel' \in [Port -> Selection]
  <2>1. [adapt[p] EXCEPT !.operEdge = FALSE, !.wasInitBpdu = TRUE] \in Adaptation
    BY <1>1, PortTypes DEF Adaptation
  <2> QED BY <2>1, EnablePortKeepsTypes DEF RxBpdu
<1>7. rcv' \in [Port -> Reception]
  <2> DEFINE m == Head(wire[p])
             kept == IF m.type = "TCN" THEN [rcv[p].msg EXCEPT !.type = "TCN"]
                     ELSE [m EXCEPT !.vec = ReceivedBy(m.vec, PortId[p])]
  <2>1. rcv[p] \in Reception /\ rcv[p].msg \in Bpdu
    BY <1>1, PortTypes DEF Reception
  <2>2. [rcv[p].msg EXCEPT !.type = "TCN"] \in Bpdu
    BY <2>1 DEF Bpdu, BpduType
  <2>3. ReceivedBy(m.vec, PortId[p]) \in Vector
    BY <1>3, PortAssumption DEF Bpdu, Vector, ReceivedBy
  <2>4. [m EXCEPT !.vec = ReceivedBy(m.vec, PortId[p])] \in Bpdu
    BY <1>3, <2>3 DEF Bpdu
  <2>5. kept \in Bpdu
    BY <2>2, <2>4
  <2>6. rcv' = rcv \/ rcv' = [rcv EXCEPT ![p].rcvdBpdu = TRUE, ![p].msg = kept]
    BY DEF RxBpdu, KeepBpdu
  <2> HIDE DEF kept
  <2>7. [rcv[p] EXCEPT !.rcvdBpdu = TRUE, !.msg = kept] \in Reception
    BY <2>1, <2>5 DEF Reception
  <2> QED BY <2>6, <2>7 DEF TypeOK, StateOK
<1>8. Owner[p] \in Bridge
  BY PortAssumption
<1> QED BY <1>4, <1>5, <1>6, <1>7, <1>8 DEF RxBpdu, Update, TypeOK, StateOK

\* A link change keeps the types: what is left on the cable is a prefix.
LEMMA LinkChangeKeepsTypes ==
  ASSUME TypeOK, NEW p \in Port, LinkChange(p)
  PROVE  TypeOK'
<1>1. {p, Peer[p]} \subseteq Port
  BY PeerAssumption
<1>2. wire' \in [Port -> Seq(Bpdu)]
  <2>1. CASE UNCHANGED wire
    BY <2>1 DEF TypeOK
  <2>2. CASE p \in phys
    <3>1. PICK kept \in [{p, Peer[p]} -> 0 .. TxHoldCount] :
            /\ \A q \in {p, Peer[p]} : kept[q] <= Len(wire[q])
            /\ wire' = [q \in Port |-> IF q \in {p, Peer[p]}
                          THEN SubSeq(wire[q], 1, kept[q]) ELSE wire[q]]
      BY <2>2 DEF LinkChange
    <3>2. ASSUME NEW q \in {p, Peer[p]}
          PROVE  SubSeq(wire[q], 1, kept[q]) \in Seq(Bpdu)
      <4>1. wire[q] \in Seq(Bpdu)
        BY <1>1 DEF TypeOK
      <4>2. kept[q] \in Int /\ kept[q] <= Len(wire[q])
        BY <3>1, TimesAssumption
      <4>3. \A i \in 1 .. kept[q] : wire[q][i] \in Bpdu
        BY <4>1, <4>2, LenProperties, ElementOfSeq
      <4> QED BY <4>2, <4>3, SubSeqProperties
    <3> QED BY <3>1, <3>2 DEF TypeOK
  <2> QED BY <2>1, <2>2 DEF LinkChange
<1>3. phys' \subseteq Port /\ disturbed' \in 0 .. MaxDisturb
  BY <1>1, EnvironmentAssumption DEF LinkChange, TypeOK
<1> QED BY <1>2, <1>3 DEF LinkChange, TypeOK, StateOK, stateVars

\* A frame from outside keeps the types.
LEMMA ForeignFrameKeepsTypes ==
  ASSUME TypeOK, NEW p \in Port, NEW m \in Foreign, ForeignFrame(p, m)
  PROVE  TypeOK'
<1>1. <<m>> \in Seq(Bpdu)
  BY EnvironmentAssumption
<1>2. wire' \in [Port -> Seq(Bpdu)]
  BY <1>1 DEF ForeignFrame, TypeOK
<1>3. disturbed' \in 0 .. MaxDisturb
  BY EnvironmentAssumption DEF ForeignFrame, TypeOK
<1> QED BY <1>2, <1>3 DEF ForeignFrame, TypeOK, StateOK, stateVars

\* The end of an update keeps the types,
LEMMA UpdateDoneKeepsTypes ==
  ASSUME TypeOK, UpdateDone
  PROVE  TypeOK'
BY DEF UpdateDone, TypeOK, StateOK, stateVars

\* and so does a step that changes nothing.
LEMMA StutterKeepsTypes ==
  ASSUME TypeOK, UNCHANGED vars
  PROVE  TypeOK'
BY DEF vars, TypeOK, StateOK

\* A bridge starts in a state of the right types.
LEMMA InitTypes == Init => TypeOK
<1> SUFFICES ASSUME Init PROVE TypeOK
  OBVIOUS
<1>1. phys \subseteq Port /\ enabled_ports \subseteq Port
  BY EnvironmentAssumption DEF Init
<1>2. /\ 0 \in 0 .. TxHoldCount /\ 0 \in 0 .. MaxDisturb
      /\ \A p \in Port : Owner[p] \in Bridge
      /\ \A b \in Bridge : BrTimes[b] \in Times /\ OwnPrio(b) \in Vector
  <2>1. \A b \in Bridge : OwnPrio(b) \in Vector
    BY TimesAssumption DEF OwnPrio, MakeVector, Vector
  <2> QED BY <2>1, TimesAssumption, PortAssumption, EnvironmentAssumption
<1>3. \A p \in Port : BrTimes[Owner[p]].ForwardDelay \in Nat
  BY <1>2 DEF Times
<1>4. /\ NoBpdu \in Bpdu /\ NoBpdu.vec \in Vector /\ NoBpdu.times \in Times
  BY NoBpduType DEF Bpdu
<1>5. st \in [Machine -> MachineState]
  BY DEF Init, InitState, MachineState
<1>6. ctl \in [Port -> Control]
  BY DEF Init, InitState, Control, PortRole
<1>7. sel \in [Port -> Selection] /\ hw \in [Port -> Chip]
  BY DEF Init, InitState, Selection, PortRole, Chip
<1>8. prio \in [Port -> Information]
  <2>1. ASSUME NEW p \in Port
        PROVE  [designPrio |-> DesignPrioFor(p, OwnPrio(Owner[p])),
                designTimes |-> BrTimes[Owner[p]],
                portPrio |-> NoBpdu.vec, portTimes |-> NoBpdu.times,
                infoIs |-> "Disabled"] \in Information
    BY <1>2, <1>4, DesignPrioType DEF Information, InfoIs
  <2> QED BY <2>1 DEF Init, InitState
<1>9. rcv \in [Port -> Reception]
  BY <1>4 DEF Init, InitState, Reception, Verdict
<1>10. tcs \in [Port -> TopologyFlags]
  BY DEF Init, InitState, TopologyFlags
<1>11. timer \in [Port -> Timers]
  BY <1>2, <1>3 DEF Init, InitState, Timers
<1>12. adapt \in [Port -> Adaptation]
  <2>1. ASSUME NEW p \in Port
        PROVE  [adminEnable |-> p \in phys, portEnabled |-> FALSE,
                operEdge |-> FALSE, wasInitBpdu |-> FALSE, initPm |-> TRUE,
                sendRSTP |-> TRUE, p2p_recompute |-> TRUE, operP2P |-> FALSE,
                operSpeed |-> Speed[p], usedSpeed |-> 0, operPCost |-> 0] \in Adaptation
    <3> DEFINE up == p \in phys
    <3>1. up \in BOOLEAN /\ Speed[p] \in Nat
      BY TimesAssumption
    <3> HIDE DEF up
    <3>2. [adminEnable |-> up, portEnabled |-> FALSE,
           operEdge |-> FALSE, wasInitBpdu |-> FALSE, initPm |-> TRUE,
           sendRSTP |-> TRUE, p2p_recompute |-> TRUE, operP2P |-> FALSE,
           operSpeed |-> Speed[p], usedSpeed |-> 0, operPCost |-> 0] \in Adaptation
      BY <3>1 DEF Adaptation
    <3> QED BY <3>2 DEF up
  <2> QED BY <2>1 DEF Init, InitState
<1>13. br \in [Bridge -> RootKnown]
  BY <1>2 DEF Init, InitState, RootKnown
<1>14. wire \in [Port -> Seq(Bpdu)]
  BY EmptySeq DEF Init
<1> QED BY <1>1, <1>2, <1>5, <1>6, <1>7, <1>8, <1>9, <1>10, <1>11, <1>12, <1>13,
           <1>14 DEF Init, TypeOK, StateOK

\* Every step keeps the types.
LEMMA NextKeepsTypes == TypeOK /\ [Next]_vars => TypeOK'
<1> SUFFICES ASSUME TypeOK, [Next]_vars
             PROVE  TypeOK'
  OBVIOUS
<1>1. CASE MachineStep
  BY <1>1, MachineStepKeepsTypes
<1>2. CASE UpdateDone
  BY <1>2, UpdateDoneKeepsTypes
<1>3. CASE \E p \in Port : PollLink(p)
  BY <1>3, PollLinkKeepsTypes
<1>4. CASE \E b \in Bridge : Tick(b)
  BY <1>4, TickKeepsTypes
<1>5. CASE \E p \in Port : RxBpdu(p)
  BY <1>5, RxBpduKeepsTypes
<1>6. CASE \E p \in Port : LinkChange(p)
  BY <1>6, LinkChangeKeepsTypes
<1>7. CASE \E p \in Port, m \in Foreign : ForeignFrame(p, m)
  BY <1>7, ForeignFrameKeepsTypes
<1>8. CASE UNCHANGED vars
  BY <1>8, StutterKeepsTypes
<1> QED BY <1>1, <1>2, <1>3, <1>4, <1>5, <1>6, <1>7, <1>8
           DEF Next, System, Event, Environment

(***************************************************************************)
(* Whatever the topology, the times and the frames received, every         *)
(* variable keeps its type: an election always finds a winner, no timer    *)
(* goes below zero, and no port sends more than TxHoldCount frames between *)
(* two ticks.                                                              *)
(***************************************************************************)
THEOREM TypeCorrect == Spec => []TypeOK
BY InitTypes, NextKeepsTypes, PTL DEF Spec
=============================================================================
