-------------------------- MODULE RstpClockProofs ---------------------------
(***************************************************************************)
(* A dead root is forgotten: for every topology and every loss, delay and  *)
(* link change, a part of the network that nothing reaches any more gives  *)
(* up every root outside it within a time that depends on the configured   *)
(* limits only, not on its size.                                           *)
(*                                                                         *)
(* Left to themselves bridges may pass an old claim round in a circle.     *)
(* What stops it is that every bridge makes it a hop older (AgeOneHop),    *)
(* that no port keeps it for longer than three hello times (KeptInTime)    *)
(* and not at all once it has come of age (LifetimeBounds).  The invariant *)
(* ties the three to the clock: news of age n has been about for at most   *)
(* Life(n) seconds, wherever it is: in a port that tells of it, on the     *)
(* wire, in a frame not yet read, in a port that relies on it (for as much *)
(* longer as its timer has run) and in the root of the bridge.             *)
(*                                                                         *)
(* For that the times of a decision must be those of its vector            *)
(* (TimesStand), a repeated frame must say what the port has (RepeatRight) *)
(* and no time out of the limits may come into use (PortInLimits); these   *)
(* are NewsInv, an invariant of Rstp.  ClockInv adds the clock.            *)
(***************************************************************************)
EXTENDS RstpClock, RstpTellProofs

-----------------------------------------------------------------------------
(***************************************************************************)
(* Lifetimes.                                                              *)
(***************************************************************************)
\* How long news of age n can have been about.
Life(n) == n * Hop

LEMMA HopType == Hop \in Nat /\ Hop = 3 * LongestHello + 1
BY ClockAssumption DEF Hop

\* News that is a second older may have been about for a hop longer.
LEMMA LifeGrows ==
  ASSUME NEW n \in Nat, NEW k \in Nat
  PROVE  /\ Life(n) \in Nat
         /\ n <= k => Life(n) <= Life(k)
         /\ n + 1 <= k => Life(n) + Hop <= Life(k)
<1> HIDE DEF Hop
<1>1. Hop \in Nat
  BY HopType
<1>2. Life(n) \in Nat
  BY <1>1 DEF Life
<1>3. ASSUME NEW i \in Nat, NEW d \in Nat
      PROVE  Life(i + d) = Life(i) + d * Hop /\ d * Hop \in Nat
  BY <1>1, <1>3 DEF Life
<1>4. n <= k => Life(n) <= Life(k)
  <2>1. SUFFICES ASSUME n <= k
                 PROVE  Life(n) <= Life(k)
    OBVIOUS
  <2>2. k - n \in Nat /\ n + (k - n) = k
    BY <2>1
  <2>3. Life(k) = Life(n) + (k - n) * Hop /\ (k - n) * Hop \in Nat
    BY <1>3, <2>2
  <2> QED BY <1>2, <2>3
<1>5. n + 1 <= k => Life(n) + Hop <= Life(k)
  <2>1. SUFFICES ASSUME n + 1 <= k
                 PROVE  Life(n) + Hop <= Life(k)
    OBVIOUS
  <2>2. k - (n + 1) \in Nat /\ (n + 1) + (k - (n + 1)) = k /\ n + 1 \in Nat
    BY <2>1
  <2>3. /\ Life(k) = Life(n + 1) + (k - (n + 1)) * Hop
        /\ (k - (n + 1)) * Hop \in Nat
    BY <1>3, <2>2
  <2>4. Life(n + 1) = Life(n) + 1 * Hop
    BY <1>3
  <2> QED BY <1>1, <1>2, <2>3, <2>4
<1> QED BY <1>2, <1>4, <1>5

-----------------------------------------------------------------------------
(***************************************************************************)
(* The times that go with a decision of role selection.                    *)
(***************************************************************************)
\* As StandsRight says of vectors: what a port would advertise are the root
\* times of its bridge, and until it asks for a new selection, it advertises
\* them when it relies on no one, and they are what it was told, aged by one
\* hop, when it is the root port.
TimesStand(p) ==
  p \notin NonStp =>
    /\ prio[p].designTimes = br[Owner[p]].rootTimes
    /\ ~ sel[p].reselect =>
         /\ prio[p].infoIs = "Mine" /\ ~ sel[p].updtInfo
              => prio[p].portTimes = prio[p].designTimes
         /\ br[Owner[p]].rootPortId = PortId[p]
              => br[Owner[p]].rootTimes = AgeOneHop(prio[p].portTimes)

\* The root port of a bridge is one of its ports.
RootThere(b) ==
  br[b].rootPortId # 0 => \E p \in Ports[b] : PortId[p] = br[b].rootPortId

\* A bridge elects itself or a candidate.
LEMMA ElectedOne ==
  ASSUME TypeOK, NEW b \in Bridge, \A q \in Port : NewsRight(q)
  PROVE  \/ Elected(b) = [rootPrio |-> OwnPrio(b), rootTimes |-> BrTimes[b],
                          rootPortId |-> 0]
         \/ \E p \in Ports[b] \ NonStp :
              /\ prio[p].infoIs = "Received" /\ Elected(b).rootPortId = PortId[p]
              /\ RootBridge(Elected(b).rootPrio) = RootBridge(prio[p].portPrio)
              /\ Elected(b).rootTimes = AgeOneHop(prio[p].portTimes)
<1>1. ASSUME NEW p \in RootCandidates(b), p \in Port, Owner[p] = b,
             Elected(b) = ElectedThrough(p)
      PROVE  /\ p \in Ports[b] \ NonStp
             /\ prio[p].infoIs = "Received" /\ Elected(b).rootPortId = PortId[p]
             /\ RootBridge(Elected(b).rootPrio) = RootBridge(prio[p].portPrio)
             /\ Elected(b).rootTimes = AgeOneHop(prio[p].portTimes)
  <2>1. p \in Ports[b] \ NonStp /\ prio[p].infoIs = "Received"
    BY DEF RootCandidates
  <2>2. BridgePort(RootPathPrio(p)) = PortId[p]
    BY <1>1, <2>1 DEF NewsRight, RootPathPrio, AddCost, BridgePort
  <2>3. RootBridge(RootPathPrio(p)) = RootBridge(prio[p].portPrio)
    BY DEF RootPathPrio, AddCost, RootBridge
  <2> QED BY <1>1, <2>1, <2>2, <2>3 DEF ElectedThrough
<1> QED BY <1>1, ElectedCases DEF TypeOK, NetOK

\* Role selection makes it so.
LEMMA RoleSelTimes ==
  ASSUME TypeOK, NEW b \in Bridge, UpdtRolesBridge(b), NEW q \in Port,
         \A p \in Port : NewsRight(p), TimesStand(q)
  PROVE  TimesStand(q)'
<1> DEFINE e == Elected(b)
<1>1. Owner[q] \in Bridge /\ br \in [Bridge -> RootKnown] /\ prio[q] \in Information
  BY PortAssumption DEF TypeOK, StateOK
<1>2. CASE Owner[q] # b
  <2>1. prio'[q] = prio[q] /\ sel'[q] = sel[q] /\ br'[Owner[q]] = br[Owner[q]]
    BY <1>1, <1>2 DEF UpdtRolesBridge
  <2> QED BY <2>1 DEF TimesStand
<1>3. CASE Owner[q] = b /\ q \notin NonStp
  <2>1. /\ br'[b] = e
        /\ sel'[q] = [selectedRole |-> RoleFor(q, e), selected |-> TRUE,
                      reselect |-> FALSE, updtInfo |-> UpdtInfoFor(q, e)]
        /\ prio'[q] = [prio[q] EXCEPT !.designPrio = DesignPrioFor(q, e.rootPrio),
                                      !.designTimes = e.rootTimes]
    BY <1>1, <1>3 DEF UpdtRolesBridge
  <2>2. e.rootPortId = PortId[q] => e.rootTimes = AgeOneHop(prio[q].portTimes)
    <3>1. PortId[q] # 0
      BY PortAssumption
    <3>2. CASE e = [rootPrio |-> OwnPrio(b), rootTimes |-> BrTimes[b], rootPortId |-> 0]
      BY <3>1, <3>2
    <3>3. ASSUME NEW p \in Ports[b] \ NonStp, e.rootPortId = PortId[p],
                 e.rootTimes = AgeOneHop(prio[p].portTimes), e.rootPortId = PortId[q]
          PROVE  e.rootTimes = AgeOneHop(prio[q].portTimes)
      <4>1. p \in Port /\ Owner[p] = Owner[q] /\ PortId[p] = PortId[q]
        BY <1>3, <3>3, BridgePorts
      <4>2. p = q
        BY <4>1, PortAssumption
      <4> QED BY <3>3, <4>2
    <3> HIDE DEF e
    <3>4. \/ e = [rootPrio |-> OwnPrio(b), rootTimes |-> BrTimes[b], rootPortId |-> 0]
          \/ \E p \in Ports[b] \ NonStp : e.rootPortId = PortId[p]
                                          /\ e.rootTimes = AgeOneHop(prio[p].portTimes)
      BY ElectedOne DEF e
    <3> QED BY <3>2, <3>3, <3>4
  <2> HIDE DEF e
  <2>3. /\ prio'[q].infoIs = prio[q].infoIs /\ prio'[q].portTimes = prio[q].portTimes
        /\ prio'[q].designTimes = e.rootTimes
    BY <1>1, <2>1 DEF Information
  <2>4. prio[q].infoIs = "Mine" /\ ~ UpdtInfoFor(q, e) => prio[q].portTimes = e.rootTimes
    BY <1>3 DEF UpdtInfoFor
  <2> QED BY <1>3, <2>1, <2>2, <2>3, <2>4 DEF TimesStand
<1> QED BY <1>2, <1>3 DEF TimesStand

\* Port information keeps it, state by state.
LEMMA InfoTimes ==
  ASSUME TypeOK, NEW p \in Port, NewsRight(p), StandsRight(p), TimesStand(p),
         InfoNext(p) # Stay, InfoEnter(p, InfoNext(p)),
         prio'[p].designTimes = prio[p].designTimes
  PROVE  TimesStand(p)'
<1> DEFINE s == InfoNext(p)
<1>1. InfoEnter(p, s) /\ br' = br
  BY DEF InfoEnter, InfoAged
<1>2. /\ s = "ENABLED" => prio[p].infoIs = "Disabled"
      /\ s = "UPDATE" => sel[p].updtInfo
      /\ s \in {"DISABLED", "ENABLED", "AGED", "UPDATE", "RECEIVE", "SUPERIOR",
                "REPEAT", "AGREEMENT", "CURRENT"}
  BY InfoGoes DEF NewsRight
<1> HIDE DEF s
<1>3. CASE s \in {"DISABLED", "AGED", "SUPERIOR"}
  <2>1. sel'[p].reselect
    BY <1>1, <1>3, InfoWrites
  <2> QED BY <1>1, <2>1 DEF TimesStand
<1>4. CASE s \in {"ENABLED", "UPDATE"}
  <2>1. /\ prio'[p].infoIs = (IF s = "UPDATE" THEN "Mine" ELSE prio[p].infoIs)
        /\ prio'[p].portTimes = prio[p].designTimes
        /\ sel'[p].reselect = sel[p].reselect
    BY <1>1, <1>4, InfoWrites
  <2>2. p \notin NonStp /\ ~ sel[p].reselect => br[Owner[p]].rootPortId # PortId[p]
    BY <1>2, <1>4 DEF StandsRight
  <2> QED BY <1>1, <1>4, <2>1, <2>2 DEF TimesStand
<1>5. CASE s \in {"CURRENT", "RECEIVE", "REPEAT", "AGREEMENT"}
  <2>1. /\ prio'[p].infoIs = prio[p].infoIs
        /\ prio'[p].portTimes = prio[p].portTimes
        /\ sel'[p].reselect = sel[p].reselect /\ sel'[p].updtInfo = sel[p].updtInfo
    BY <1>1, <1>5, InfoWrites
  <2> QED BY <1>1, <2>1 DEF TimesStand
<1> QED BY <1>2, <1>3, <1>4, <1>5

\* What port information does to the times of its port.
LEMMA InfoClocks ==
  ASSUME TypeOK, NEW p \in Port, NEW s, InfoEnter(p, s)
  PROVE  /\ prio'[p].designTimes = prio[p].designTimes
         /\ timer'[p].rcvdInfoWhile =
              CASE s = "DISABLED" -> 0
                [] s = "SUPERIOR" -> InfoLifetime(rcv[p].msg.times)
                [] s = "REPEAT"   -> InfoLifetime(prio[p].portTimes)
                [] OTHER          -> timer[p].rcvdInfoWhile
<1>1. /\ prio \in [Port -> Information] /\ prio[p] \in Information
      /\ timer \in [Port -> Timers] /\ timer[p] \in Timers
  BY DEF TypeOK, StateOK
<1>2. prio'[p].designTimes = prio[p].designTimes
  <2>1. \/ prio' = prio
        \/ prio' = [prio EXCEPT ![p].infoIs = "Disabled"]
        \/ prio' = [prio EXCEPT ![p].infoIs = "Aged"]
        \/ prio' = [prio EXCEPT ![p].portPrio = prio[p].designPrio,
                                ![p].portTimes = prio[p].designTimes]
        \/ prio' = [prio EXCEPT ![p].portPrio = prio[p].designPrio,
                                ![p].portTimes = prio[p].designTimes,
                                ![p].infoIs = "Mine"]
        \/ prio' = [prio EXCEPT ![p].portPrio = rcv[p].msg.vec,
                                ![p].portTimes = rcv[p].msg.times,
                                ![p].infoIs = "Received"]
    BY DEF InfoEnter, InfoAged, InfoDisabled, InfoSuperior, InfoUpdate, InfoReceive
  <2> QED BY <1>1, <2>1 DEF Information
<1>3. ASSUME NEW n, timer' = [timer EXCEPT ![p].rcvdInfoWhile = n]
      PROVE  timer'[p].rcvdInfoWhile = n
  BY <1>1, <1>3 DEF Timers
<1>4. CASE s = "DISABLED"
  <2>1. timer' = [timer EXCEPT ![p].rcvdInfoWhile = 0]
    BY <1>4 DEF InfoEnter, InfoAged, InfoDisabled
  <2> QED BY <1>2, <1>3, <1>4, <2>1
<1>5. CASE s = "SUPERIOR"
  <2>1. timer' = [timer EXCEPT ![p].rcvdInfoWhile = InfoLifetime(rcv[p].msg.times)]
    BY <1>5 DEF InfoEnter, InfoAged, InfoSuperior
  <2> QED BY <1>2, <1>3, <1>5, <2>1
<1>6. CASE s = "REPEAT"
  <2>1. timer' = [timer EXCEPT ![p].rcvdInfoWhile = InfoLifetime(prio[p].portTimes)]
    BY <1>6 DEF InfoEnter, InfoAged
  <2> QED BY <1>2, <1>3, <1>6, <2>1
<1>7. CASE s \notin {"DISABLED", "SUPERIOR", "REPEAT"}
  <2>1. timer' = timer
    BY <1>7 DEF InfoEnter, InfoAged, InfoUpdate, InfoReceive
  <2> QED BY <1>2, <1>7, <2>1
<1> QED BY <1>4, <1>5, <1>6, <1>7

\* Every machine keeps the times that go with a decision.
LEMMA MoveKeepsTimes ==
  ASSUME TypeOK, RunsHome, NEW m, Moves(m), NEW q \in Port, StandsRight(q),
         \A p \in Port : NewsRight(p), TimesStand(q)
  PROVE  TimesStand(q)'
<1> DEFINE s == NextState(m)
<1>1. m \in Machine /\ s # Stay /\ RunMachine(m, s)
  BY MoveFacts
<1>2. CASE m[1] = "rolesel"
  <2>1. UpdtRolesBridge(m[2]) /\ m[2] \in Bridge
    BY <1>1, <1>2, MachineCases, Kinds DEF RunMachine, RoleSelEnter
  <2> QED BY <2>1, RoleSelTimes
<1>3. CASE m[1] = "info" /\ m[2] = q
  <2>1. s = InfoNext(q) /\ InfoEnter(q, s)
    BY <1>1, <1>3 DEF NextState, RunMachine
  <2> QED BY <1>1, <2>1, InfoTimes, InfoClocks
<1>4. CASE m[1] # "rolesel" /\ ~ (m[1] = "info" /\ m[2] = q)
  <2>1. prio'[q] = prio[q] /\ br' = br
    BY <1>1, <1>4, PrioWriter, SelectionWriters
  <2>2. sel'[q] = sel[q] \/ sel'[q].reselect
    <3>1. CASE m[1] = "roletrns" /\ m[2] = q
      <4>1. RoletrnsEnter(q, s) /\ sel \in [Port -> Selection] /\ sel[q] \in Selection
        BY <1>1, <3>1 DEF RunMachine, TypeOK, StateOK
      <4> HIDE DEF s
      <4>2. \/ sel' = sel
            \/ sel' = [sel EXCEPT ![q].selectedRole = "Disabled", ![q].reselect = TRUE]
        BY <4>1 DEF RoletrnsEnter
      <4> QED BY <4>1, <4>2 DEF Selection
    <3> QED BY <1>1, <1>4, <3>1, SelectionWriters
  <2> QED BY <2>1, <2>2 DEF TimesStand
<1> QED BY <1>2, <1>3, <1>4

\* What role selection gives the bridges.
LEMMA MoveElects ==
  ASSUME TypeOK, RunsHome, NEW m, Moves(m), NEW b \in Bridge
  PROVE  br'[b] = br[b] \/ (m[1] = "rolesel" /\ br'[b] = Elected(b))
<1>1. m \in Machine /\ RunMachine(m, NextState(m)) /\ br \in [Bridge -> RootKnown]
  BY MoveFacts DEF TypeOK, StateOK
<1>2. CASE m[1] = "rolesel"
  <2>1. UpdtRolesBridge(m[2]) /\ m[2] \in Bridge
    BY <1>1, <1>2, MachineCases, Kinds DEF RunMachine, RoleSelEnter
  <2>2. br' = [br EXCEPT ![m[2]] = Elected(m[2])]
    BY <2>1 DEF UpdtRolesBridge
  <2> QED BY <1>1, <1>2, <2>2
<1>3. CASE m[1] # "rolesel"
  <2>1. ASSUME Port # {}
        PROVE  br' = br
    BY <1>1, <1>3, <2>1, SelectionWriters
  <2>2. Port # {}
    BY <1>1, <1>3, MachineCases
  <2> QED BY <2>1, <2>2
<1> QED BY <1>2, <1>3

LEMMA MoveKeepsRootThere ==
  ASSUME TypeOK, RunsHome, NEW m, Moves(m), \A p \in Port : NewsRight(p),
         NEW b \in Bridge, RootThere(b)
  PROVE  RootThere(b)'
<1>1. CASE br'[b] = br[b]
  BY <1>1 DEF RootThere
<1>2. CASE br'[b] = Elected(b)
  <2>1. \/ Elected(b).rootPortId = 0
        \/ \E p \in Ports[b] : Elected(b).rootPortId = PortId[p]
    BY ElectedOne
  <2> QED BY <1>2, <2>1 DEF RootThere
<1> QED BY <1>1, <1>2, MoveElects

\* Information that repeats what the port has.
RepeatRight(p) ==
  At("info", p) = "RECEIVE" /\ rcv[p].rcvdMsg = "Repeated"
    => rcv[p].msg.vec = prio[p].portPrio /\ rcv[p].msg.times = prio[p].portTimes

LEMMA MoveKeepsRepeat ==
  ASSUME TypeOK, RunsHome, NEW m, Moves(m), NEW q \in Port, RepeatRight(q)
  PROVE  RepeatRight(q)'
<1> DEFINE s == NextState(m)
<1>1. /\ m \in Machine /\ s # Stay /\ RunMachine(m, s)
      /\ At("info", q)' = IF m[1] = "info" /\ m[2] = q THEN s ELSE At("info", q)
  BY MoveFacts, Kinds
<1>2. CASE m[1] = "info" /\ m[2] = q
  <2>1. InfoEnter(q, s)
    BY <1>1, <1>2 DEF RunMachine
  <2>2. SUFFICES ASSUME s = "RECEIVE", rcv'[q].rcvdMsg = "Repeated"
                 PROVE  /\ rcv'[q].msg.vec = prio'[q].portPrio
                        /\ rcv'[q].msg.times = prio'[q].portTimes
    BY <1>1, <1>2 DEF RepeatRight
  <2>3. /\ RcvBpdu(q) = "Repeated" /\ rcv'[q].msg = rcv[q].msg
        /\ prio'[q].portPrio = prio[q].portPrio /\ prio'[q].portTimes = prio[q].portTimes
    BY <2>1, <2>2, InfoWrites
  <2>4. rcv[q].msg.vec = prio[q].portPrio /\ rcv[q].msg.times = prio[q].portTimes
    BY <2>3 DEF RcvBpdu
  <2> QED BY <2>3, <2>4
<1>3. CASE ~ (m[1] = "info" /\ m[2] = q)
  BY <1>1, <1>3, NewsWriter DEF NewsKept, RepeatRight
<1> QED BY <1>2, <1>3

-----------------------------------------------------------------------------
(***************************************************************************)
(* No hello time and no maximum age beyond the limits is ever in use.      *)
(***************************************************************************)
PortInLimits(p) ==
  /\ InLimits(prio[p].portTimes) /\ InLimits(prio[p].designTimes)
  /\ InLimits(rcv[p].msg.times)
  /\ \A i \in 1 .. Len(wire[p]) :
       wire[p][i].type # "TCN" => InLimits(wire[p][i].times)

BridgeInLimits(b) == InLimits(br[b].rootTimes)

LEMMA AgesInLimits ==
  ASSUME NEW t \in Times
  PROVE  /\ AgeOneHop(t).HelloTime = t.HelloTime /\ AgeOneHop(t).MaxAge = t.MaxAge
         /\ AgeOneHop(t).MessageAge \in Nat
         /\ t.MessageAge + 1 <= AgeOneHop(t).MessageAge
<1>1. t.MaxAge \in Nat /\ t.MessageAge \in Nat
  BY DEF Times
<1>2. AtLeast1((8 + t.MaxAge) \div 16) \in Nat /\ AtLeast1((8 + t.MaxAge) \div 16) >= 1
  BY <1>1 DEF AtLeast1
<1> HIDE DEF AtLeast1
<1> QED BY <1>1, <1>2 DEF AgeOneHop, Times

LEMMA ElectedInLimits ==
  ASSUME TypeOK, NEW b \in Bridge, \A p \in Port : NewsRight(p) /\ PortInLimits(p)
  PROVE  InLimits(Elected(b).rootTimes)
<1>1. InLimits(BrTimes[b])
  BY ClockAssumption
<1>2. ASSUME NEW p \in Ports[b]
      PROVE  InLimits(AgeOneHop(prio[p].portTimes))
  <2>1. p \in Port /\ prio[p].portTimes \in Times
    BY BridgePorts DEF TypeOK, StateOK, Information
  <2> QED BY <2>1, AgesInLimits DEF PortInLimits, InLimits
<1> DEFINE e == Elected(b)
<1>3. \/ e.rootTimes = BrTimes[b]
      \/ \E p \in Ports[b] : e.rootTimes = AgeOneHop(prio[p].portTimes)
  BY ElectedOne
<1> QED BY <1>1, <1>2, <1>3

LEMMA MoveKeepsBridgeLimits ==
  ASSUME TypeOK, RunsHome, NEW m, Moves(m),
         \A p \in Port : NewsRight(p) /\ PortInLimits(p),
         NEW b \in Bridge, BridgeInLimits(b)
  PROVE  BridgeInLimits(b)'
BY MoveElects, ElectedInLimits DEF BridgeInLimits, InLimits

LEMMA MoveKeepsPortLimits ==
  ASSUME TypeOK, RunsHome, NEW m, Moves(m),
         \A p \in Port : NewsRight(p) /\ PortInLimits(p), NEW q \in Port
  PROVE  PortInLimits(q)'
<1> DEFINE s == NextState(m)
<1>1. m \in Machine /\ s # Stay /\ RunMachine(m, s) /\ prio[q] \in Information
  BY MoveFacts DEF TypeOK, StateOK
<1>2. /\ InLimits(prio'[q].portTimes) /\ InLimits(prio'[q].designTimes)
      /\ rcv'[q].msg = rcv[q].msg
  <2>1. CASE m[1] = "rolesel"
    <3>1. UpdtRolesBridge(m[2]) /\ m[2] \in Bridge /\ rcv' = rcv
      BY <1>1, <2>1, MachineCases, Kinds DEF RunMachine, RoleSelEnter
    <3> DEFINE e == Elected(m[2])
    <3>2. InLimits(e.rootTimes)
      BY <3>1, ElectedInLimits
    <3>3. \/ prio'[q] = prio[q]
          \/ prio'[q] = [prio[q] EXCEPT !.designPrio = DesignPrioFor(q, e.rootPrio),
                                        !.designTimes = e.rootTimes]
      BY <3>1 DEF UpdtRolesBridge
    <3> HIDE DEF e
    <3>4. /\ prio'[q].portTimes = prio[q].portTimes
          /\ prio'[q].designTimes \in {prio[q].designTimes, e.rootTimes}
      BY <1>1, <3>3 DEF Information
    <3> QED BY <3>1, <3>2, <3>4 DEF PortInLimits
  <2>2. CASE m[1] = "info" /\ m[2] = q
    <3>1. InfoEnter(q, s)
      BY <1>1, <2>2 DEF RunMachine
    <3>2. prio'[q].portTimes \in {prio[q].portTimes, prio[q].designTimes, rcv[q].msg.times}
      BY <3>1, InfoWrites
    <3> QED BY <3>1, <3>2, InfoClocks, InfoWrites DEF PortInLimits
  <2>3. CASE m[1] # "rolesel" /\ ~ (m[1] = "info" /\ m[2] = q)
    <3>1. prio'[q] = prio[q] /\ rcv'[q].msg = rcv[q].msg
      BY <1>1, <2>3, PrioWriter, NewsWriter DEF NewsKept
    <3> QED BY <3>1 DEF PortInLimits
  <2> QED BY <2>1, <2>2, <2>3
<1>3. ASSUME NEW i \in 1 .. Len(wire'[q]), wire'[q][i].type # "TCN"
      PROVE  InLimits(wire'[q][i].times)
  <2>1. CASE \E j \in 1 .. Len(wire[q]) : wire'[q][i] = wire[q][j]
    BY <1>3, <2>1 DEF PortInLimits
  <2>2. ASSUME NEW p \in Port, NEW type, wire'[q][i] = BpduOf(p, type)
        PROVE  InLimits(wire'[q][i].times)
    <3>1. wire'[q][i].times = prio[p].portTimes
      BY <2>2 DEF BpduOf
    <3> QED BY <3>1 DEF PortInLimits
  <2>3. TcnBpdu.type = "TCN"
    BY DEF TcnBpdu, NoBpdu
  <2> QED BY <1>1, <1>3, <2>1, <2>2, <2>3, MachineSends
<1> QED BY <1>2, <1>3 DEF PortInLimits, InLimits

-----------------------------------------------------------------------------
(***************************************************************************)
(* What a received frame brings.                                           *)
(***************************************************************************)
LEMMA RxTakes ==
  ASSUME TypeOK, NEW p \in Port, RxBpdu(p), NEW q \in Port
  PROVE  LET m == wire[p][1]
         IN  /\ Len(wire[p]) >= 1 /\ m \in Bpdu
             /\ \/ rcv'[q] = rcv[q]
                \/ /\ q = p /\ rcv'[q].msg.times = rcv[q].msg.times
                   /\ ~ FromDesignated(rcv'[q].msg)
                \/ /\ q = p /\ m.type # "TCN" /\ rcv'[q].msg.times = m.times
                   /\ RootBridge(rcv'[q].msg.vec) = RootBridge(m.vec)
                   /\ FromDesignated(rcv'[q].msg) <=> FromDesignated(m)
<1>1. /\ rcv \in [Port -> Reception] /\ rcv[p] \in Reception /\ rcv[p].msg \in Bpdu
      /\ wire[p] \in Seq(Bpdu)
  BY DEF TypeOK, StateOK, Reception
<1> DEFINE m == Head(wire[p])
           notice == [rcv[p].msg EXCEPT !.type = "TCN"]
           taken == [m EXCEPT !.vec = ReceivedBy(m.vec, PortId[p])]
           kept == IF m.type = "TCN" THEN notice ELSE taken
<1>2. \/ rcv' = rcv
      \/ rcv' = [rcv EXCEPT ![p].rcvdBpdu = TRUE, ![p].msg = kept]
  BY DEF RxBpdu, KeepBpdu
<1>3. /\ Len(wire[p]) >= 1 /\ wire[p][1] = m /\ m \in Bpdu
  BY <1>1, HeadTailProperties, LenProperties, ElementOfSeq, EmptySeq DEF RxBpdu
<1>4. CASE rcv' = rcv
  BY <1>3, <1>4
<1>5. CASE rcv' = [rcv EXCEPT ![p].rcvdBpdu = TRUE, ![p].msg = kept] /\ q = p
  <2>1. rcv'[p].msg = kept
    BY <1>1, <1>5 DEF Reception
  <2>2. CASE m.type = "TCN"
    <3>1. notice.type = "TCN" /\ notice.times = rcv[p].msg.times
      BY <1>1 DEF Bpdu
    <3> HIDE DEF notice
    <3>2. ~ FromDesignated(rcv'[p].msg) /\ rcv'[p].msg.times = rcv[p].msg.times
      BY <2>1, <2>2, <3>1 DEF FromDesignated
    <3> QED BY <1>3, <1>5, <3>2
  <2>3. CASE m.type # "TCN"
    <3> HIDE DEF m
    <3>1. /\ taken.vec = ReceivedBy(m.vec, PortId[p]) /\ taken.type = m.type
          /\ taken.role = m.role /\ taken.times = m.times
      BY <1>3 DEF Bpdu
    <3>2. RootBridge(taken.vec) = RootBridge(m.vec)
      BY <3>1 DEF ReceivedBy, RootBridge
    <3> HIDE DEF taken
    <3> QED BY <1>3, <1>5, <2>1, <2>3, <3>1, <3>2 DEF FromDesignated
  <2> QED BY <2>2, <2>3
<1>6. CASE rcv' = [rcv EXCEPT ![p].rcvdBpdu = TRUE, ![p].msg = kept] /\ q # p
  <2>1. rcv'[q] = rcv[q]
    BY <1>1, <1>6
  <2> QED BY <1>3, <2>1
<1> QED BY <1>2, <1>4, <1>5, <1>6

-----------------------------------------------------------------------------
(***************************************************************************)
(* Together, and at every step.                                            *)
(***************************************************************************)
LinksPaired == \A p \in phys : Peer[p] \in phys

NewsInv ==
  /\ TellInv /\ TimeInv
  /\ LinksPaired
  /\ \A p \in Port : TimesStand(p) /\ RepeatRight(p) /\ PortInLimits(p)
  /\ \A b \in Bridge : RootThere(b) /\ BridgeInLimits(b)

LEMMA NewsFacts ==
  ASSUME NewsInv
  PROVE  /\ LoopInv /\ TypeOK /\ RunsHome /\ SettledInv
         /\ \A p \in Port : /\ NewsRight(p) /\ StandsRight(p) /\ SelectionRight(p)
                            /\ StateTells(p) /\ LinkRight(p) /\ TellsRoot(p)
                            /\ VerdictRight(p) /\ KeptInTime(p)
BY LoopFacts DEF NewsInv, TellInv, TellRight, TimeInv

LEMMA InitNews == Init => NewsInv
<1> SUFFICES ASSUME Init
             PROVE  NewsInv
  OBVIOUS
<1>1. InitState(phys) /\ phys \in UpAtStart /\ wire = [p \in Port |-> <<>>]
  BY DEF Init
<1>2. InLimits(NoBpdu.times) /\ \A b \in Bridge : InLimits(BrTimes[b])
  BY ClockAssumption DEF NoBpdu, InLimits
<1>3. LinksPaired
  BY <1>1, EnvironmentAssumption DEF LinksPaired
<1>4. ASSUME NEW b \in Bridge
      PROVE  RootThere(b) /\ BridgeInLimits(b)
  <2>1. br[b] = [rootPrio |-> OwnPrio(b), rootTimes |-> BrTimes[b], rootPortId |-> 0]
    BY <1>1 DEF InitState
  <2> QED BY <1>2, <2>1 DEF RootThere, BridgeInLimits
<1>5. ASSUME NEW p \in Port
      PROVE  TimesStand(p) /\ RepeatRight(p) /\ PortInLimits(p)
  <2>1. Owner[p] \in Bridge
    BY PortAssumption
  <2>2. /\ sel[p].reselect
        /\ prio[p].designTimes = BrTimes[Owner[p]]
        /\ prio[p].portTimes = NoBpdu.times
        /\ br[Owner[p]].rootTimes = BrTimes[Owner[p]]
        /\ rcv[p].msg = NoBpdu /\ rcv[p].rcvdMsg = "Other"
    BY <1>1, <2>1 DEF InitState
  <2>3. Len(wire[p]) = 0
    BY <1>1
  <2>4. TimesStand(p) /\ RepeatRight(p)
    BY <2>2 DEF TimesStand, RepeatRight
  <2>5. PortInLimits(p)
    BY <1>2, <2>1, <2>2, <2>3 DEF PortInLimits
  <2> QED BY <2>4, <2>5
<1> QED BY <1>3, <1>4, <1>5, InitTell, InitTime DEF NewsInv

LEMMA EventKeepsNews ==
  ASSUME NewsInv, Event, NEW q \in Port
  PROVE  TimesStand(q)' /\ RepeatRight(q)' /\ PortInLimits(q)'
<1>1. TypeOK /\ Idle
  BY NewsFacts, EventFindsRest
<1>2. /\ st' = st /\ prio' = prio /\ br' = br
      /\ sel'[q] = sel[q] \/ sel'[q].reselect
  BY <1>1, EventSpares
<1>3. TimesStand(q)'
  BY <1>2 DEF NewsInv, TimesStand
<1>4. RepeatRight(q)'
  <2>1. At("info", q) # "RECEIVE"
    BY <1>1, AtRest DEF NewsInv, InfoPass
  <2> QED BY <1>2, <2>1 DEF RepeatRight, At
<1>5. InLimits(rcv'[q].msg.times)
  <2>1. CASE rcv' = rcv
    BY <2>1 DEF NewsInv, PortInLimits
  <2>2. ASSUME NEW p \in Port, RxBpdu(p)
        PROVE  InLimits(rcv'[q].msg.times)
    <3>1. /\ Len(wire[p]) >= 1
          /\ \/ rcv'[q].msg.times = rcv[q].msg.times
             \/ wire[p][1].type # "TCN" /\ rcv'[q].msg.times = wire[p][1].times
      BY <1>1, <2>2, RxTakes
    <3>2. wire[p][1].type # "TCN" => InLimits(wire[p][1].times)
      <4>1. wire[p] \in Seq(Bpdu)
        BY <1>1 DEF TypeOK
      <4>2. 1 \in 1 .. Len(wire[p])
        BY <3>1, <4>1, LenProperties
      <4> QED BY <4>2 DEF NewsInv, PortInLimits
    <3> QED BY <3>1, <3>2 DEF NewsInv, PortInLimits
  <2>3. (\E p \in Port : PollLink(p)) \/ (\E b \in Bridge : Tick(b)) => rcv' = rcv
    BY DEF PollLink, Tick
  <2> QED BY <2>1, <2>2, <2>3 DEF Event
<1>6. ASSUME NEW i \in 1 .. Len(wire'[q]), wire'[q][i].type # "TCN"
      PROVE  InLimits(wire'[q][i].times)
  <2>1. \/ \E j \in 1 .. Len(wire[q]) : wire'[q][i] = wire[q][j]
        \/ wire'[q][i] \in Foreign
    BY <1>1, OthersSendNothing
  <2> QED BY <1>6, <2>1, ClockAssumption DEF NewsInv, PortInLimits
<1>7. PortInLimits(q)'
  BY <1>2, <1>5, <1>6 DEF NewsInv, PortInLimits, InLimits
<1> QED BY <1>3, <1>4, <1>7

LEMMA EnvironmentKeepsNews ==
  ASSUME NewsInv, Environment, NEW q \in Port
  PROVE  TimesStand(q)' /\ RepeatRight(q)' /\ PortInLimits(q)'
<1>1. TypeOK
  BY NewsFacts
<1>2. UNCHANGED stateVars
  <2>1. ASSUME NEW p, LinkChange(p)
        PROVE  UNCHANGED stateVars
    BY <2>1 DEF LinkChange
  <2>2. ASSUME NEW p, NEW m, ForeignFrame(p, m)
        PROVE  UNCHANGED stateVars
    BY <2>2 DEF ForeignFrame
  <2> QED BY <2>1, <2>2 DEF Environment
<1>3. TimesStand(q)' /\ RepeatRight(q)'
  BY <1>2 DEF NewsInv, TimesStand, RepeatRight, At, stateVars
<1>4. ASSUME NEW i \in 1 .. Len(wire'[q]), wire'[q][i].type # "TCN"
      PROVE  InLimits(wire'[q][i].times)
  <2>1. \/ \E j \in 1 .. Len(wire[q]) : wire'[q][i] = wire[q][j]
        \/ wire'[q][i] \in Foreign
    BY <1>1, OthersSendNothing
  <2> QED BY <1>4, <2>1, ClockAssumption DEF NewsInv, PortInLimits
<1>5. PortInLimits(q)'
  BY <1>2, <1>4 DEF NewsInv, PortInLimits, InLimits, stateVars
<1> QED BY <1>3, <1>5

\* Links come and go with both their ends.
LEMMA NextKeepsPaired ==
  ASSUME TypeOK, RunsHome, LinksPaired, [Next]_vars
  PROVE  LinksPaired'
<1>1. CASE phys' = phys
  BY <1>1 DEF LinksPaired
<1>2. ASSUME NEW p \in Port, LinkChange(p)
      PROVE  LinksPaired'
  <2>1. \/ phys' = phys \ {p, Peer[p]}
        \/ phys' = phys \cup {p, Peer[p]}
    BY <1>2 DEF LinkChange
  <2>2. phys \subseteq Port /\ \A q \in Port : Peer[Peer[q]] = q
    BY PeerAssumption DEF TypeOK
  <2> QED BY <2>1, <2>2 DEF LinksPaired
<1>3. MachineStep => phys' = phys
  <2>1. ASSUME MachineStep
        PROVE  phys' = phys
    <3>1. PICK m : Moves(m)
      BY <2>1, OneMoves
    <3>2. m \in Machine /\ RunMachine(m, NextState(m))
      BY <3>1, MoveFacts
    <3> QED BY <3>2 DEF RunMachine, RoleSelEnter, TransmitEnter, SttransEnter,
                        RoletrnsEnter, InfoEnter, InfoAged, PcostEnter, EdgeEnter, P2pEnter,
                        MigrateEnter, TopochEnter
  <2> QED BY <2>1
<1>4. Event => phys' = phys
  <2>1. ASSUME NEW q \in Port
        PROVE  Event => phys' = phys
    BY EventSpares
  <2>2. ASSUME NEW b \in Bridge, Tick(b)
        PROVE  phys' = phys
    BY <2>2 DEF Tick
  <2> QED BY <2>1, <2>2 DEF Event
<1>5. UpdateDone \/ UNCHANGED vars => phys' = phys
  BY DEF UpdateDone, vars
<1>6. ASSUME NEW p, NEW m, ForeignFrame(p, m)
      PROVE  phys' = phys
  BY <1>6 DEF ForeignFrame
<1> QED BY <1>1, <1>2, <1>3, <1>4, <1>5, <1>6 DEF Next, System, Environment

LEMMA NextKeepsNews == NewsInv /\ [Next]_vars => NewsInv'
<1> SUFFICES ASSUME NewsInv, [Next]_vars
             PROVE  NewsInv'
  OBVIOUS
<1>1. TypeOK /\ RunsHome /\ \A p \in Port : NewsRight(p) /\ StandsRight(p)
  BY NewsFacts
<1>2. TellInv' /\ TimeInv' /\ LinksPaired'
  BY <1>1, NextKeepsTell, NextKeepsTime, NextKeepsPaired DEF NewsInv
<1>3. CASE MachineStep
  <2>1. PICK m : Moves(m)
    BY <1>3, OneMoves
  <2>2. \A p \in Port : TimesStand(p)' /\ RepeatRight(p)' /\ PortInLimits(p)'
    BY <1>1, <2>1, MoveKeepsTimes, MoveKeepsRepeat, MoveKeepsPortLimits DEF NewsInv
  <2>3. \A b \in Bridge : RootThere(b)' /\ BridgeInLimits(b)'
    BY <1>1, <2>1, MoveKeepsRootThere, MoveKeepsBridgeLimits DEF NewsInv
  <2> QED BY <1>2, <2>2, <2>3 DEF NewsInv
<1>4. ASSUME br' = br
      PROVE  \A b \in Bridge : RootThere(b)' /\ BridgeInLimits(b)'
  BY <1>4 DEF NewsInv, RootThere, BridgeInLimits, InLimits
<1>5. CASE Event
  <2>1. br' = br
    <3>1. ASSUME NEW p \in Port, PollLink(p) \/ RxBpdu(p)
          PROVE  br' = br
      BY <3>1 DEF PollLink, RxBpdu
    <3>2. ASSUME NEW b \in Bridge, Tick(b)
          PROVE  br' = br
      BY <3>2 DEF Tick
    <3> QED BY <1>5, <3>1, <3>2 DEF Event
  <2> QED BY <1>2, <1>4, <1>5, <2>1, EventKeepsNews DEF NewsInv
<1>6. CASE Environment
  <2>1. br' = br
    <3>1. ASSUME NEW p, LinkChange(p)
          PROVE  br' = br
      BY <3>1 DEF LinkChange, stateVars
    <3>2. ASSUME NEW p, NEW m, ForeignFrame(p, m)
          PROVE  br' = br
      BY <3>2 DEF ForeignFrame, stateVars
    <3> QED BY <1>6, <3>1, <3>2 DEF Environment
  <2> QED BY <1>2, <1>4, <1>6, <2>1, EnvironmentKeepsNews DEF NewsInv
<1>7. CASE UpdateDone \/ UNCHANGED vars
  <2>1. UNCHANGED stateVars /\ wire' = wire
    BY <1>7 DEF UpdateDone, vars, stateVars
  <2>2. \A p \in Port : TimesStand(p)' /\ RepeatRight(p)' /\ PortInLimits(p)'
    BY <2>1 DEF NewsInv, TimesStand, RepeatRight, At, PortInLimits, InLimits, stateVars
  <2>3. br' = br
    BY <2>1 DEF stateVars
  <2> QED BY <1>2, <1>4, <2>2, <2>3 DEF NewsInv
<1> QED BY <1>3, <1>5, <1>6, <1>7 DEF Next, System

-----------------------------------------------------------------------------
(***************************************************************************)
(* Since a part of the network was cut off, news of a root outside it has  *)
(* grown older by a second at least for every Hop seconds.                 *)
(***************************************************************************)
\* The seconds bridge b of part C has seen go by since then.
Now(C, b) == alone[C] + (IF b \in ticked THEN 1 ELSE 0)

\* News v of age t can be about in C after n seconds.
MayBeAbout(C, v, t, n) == RootBridge(v) \in C \/ n <= Life(t.MessageAge) + 1

MineMortal(C, p) ==
  prio[p].infoIs = "Mine"
    => MayBeAbout(C, prio[p].portPrio, prio[p].portTimes, Now(C, Owner[p]))

\* What a port keeps it keeps for less than a hop.
KeptMortal(C, p) ==
  prio[p].infoIs = "Received"
    => \/ RootBridge(prio[p].portPrio) \in C
       \/ Now(C, Owner[p]) + timer[p].rcvdInfoWhile
            <= Life(prio[p].portTimes.MessageAge) + Hop + 1

MsgMortal(C, p) ==
  FromDesignated(rcv[p].msg) /\ (rcv[p].rcvdBpdu \/ At("info", p) = "RECEIVE")
    => MayBeAbout(C, rcv[p].msg.vec, rcv[p].msg.times, alone[C])

WireMortal(C, p) ==
  \A i \in 1 .. Len(wire[p]) :
    FromDesignated(wire[p][i])
      => MayBeAbout(C, wire[p][i].vec, wire[p][i].times, alone[C])

PortMortal(C, p) ==
  p \notin NonStp /\ Owner[p] \in C =>
    MineMortal(C, p) /\ KeptMortal(C, p) /\ MsgMortal(C, p) /\ WireMortal(C, p)

BridgeMortal(C, b) ==
  b \in C => MayBeAbout(C, br[b].rootPrio, br[b].rootTimes, Now(C, b))

ClockOK == alone \in [Part -> Nat]

LEMMA NowType ==
  ASSUME ClockOK, NEW C \in Part, NEW b
  PROVE  /\ alone[C] \in Nat /\ Now(C, b) \in Nat
         /\ alone[C] <= Now(C, b) /\ Now(C, b) <= alone[C] + 1
BY DEF ClockOK, Now

LEMMA LifetimeInHop ==
  ASSUME NEW t \in Times, InLimits(t)
  PROVE  InfoLifetime(t) \in Nat /\ InfoLifetime(t) + 1 <= Hop
<1>1. InfoLifetime(t) \in Nat /\ InfoLifetime(t) <= 3 * t.HelloTime
  BY LifetimeBounds
<1>2. t.HelloTime \in Nat /\ t.HelloTime <= LongestHello /\ LongestHello \in Nat
  BY ClockAssumption DEF Times, InLimits
<1> QED BY <1>1, <1>2, HopType

\* Time stands still in an update.
Steady(C) == ticked' = ticked /\ alone'[C] = alone[C]

\* What a bridge elects it was told not long ago.
LEMMA ElectedMortal ==
  ASSUME NewsInv, ClockOK, NEW C \in Part, NEW b \in C, b \in Bridge,
         \A p \in Port : PortMortal(C, p)
  PROVE  MayBeAbout(C, Elected(b).rootPrio, Elected(b).rootTimes, Now(C, b))
<1> DEFINE e == Elected(b)
<1>1. TypeOK /\ \A p \in Port : NewsRight(p)
  BY NewsFacts
<1>2. CASE e = [rootPrio |-> OwnPrio(b), rootTimes |-> BrTimes[b], rootPortId |-> 0]
  BY <1>2 DEF MayBeAbout, OwnPrio, MakeVector, RootBridge
<1>3. ASSUME NEW p \in Ports[b] \ NonStp, prio[p].infoIs = "Received",
             RootBridge(e.rootPrio) = RootBridge(prio[p].portPrio),
             e.rootTimes = AgeOneHop(prio[p].portTimes)
      PROVE  MayBeAbout(C, e.rootPrio, e.rootTimes, Now(C, b))
  <2> HIDE DEF e
  <2> DEFINE t == prio[p].portTimes
  <2>1. /\ p \in Port /\ Owner[p] = b /\ t \in Times
        /\ timer[p].rcvdInfoWhile \in Nat /\ t.MessageAge \in Nat
    BY <1>1, BridgePorts DEF TypeOK, StateOK, Timers, Information, Times
  <2>2. /\ e.rootTimes.MessageAge \in Nat
        /\ Life(t.MessageAge) \in Nat /\ Life(e.rootTimes.MessageAge) \in Nat
        /\ Life(t.MessageAge) + Hop <= Life(e.rootTimes.MessageAge)
    BY <1>3, <2>1, AgesInLimits, LifeGrows
  <2>3. \/ RootBridge(prio[p].portPrio) \in C
        \/ Now(C, b) + timer[p].rcvdInfoWhile <= Life(t.MessageAge) + Hop + 1
    BY <1>3, <2>1 DEF PortMortal, KeptMortal
  <2> HIDE DEF t
  <2> QED BY <1>3, <2>1, <2>2, <2>3, HopType, NowType DEF MayBeAbout
<1> HIDE DEF e
<1>4. \/ e = [rootPrio |-> OwnPrio(b), rootTimes |-> BrTimes[b], rootPortId |-> 0]
      \/ \E p \in Ports[b] \ NonStp :
           /\ prio[p].infoIs = "Received"
           /\ RootBridge(e.rootPrio) = RootBridge(prio[p].portPrio)
           /\ e.rootTimes = AgeOneHop(prio[p].portTimes)
  BY <1>1, ElectedOne DEF e
<1> QED BY <1>2, <1>3, <1>4 DEF e

LEMMA MoveKeepsBridgeMortal ==
  ASSUME NewsInv, ClockOK, NEW m, Moves(m), NEW C \in Part, Steady(C),
         \A p \in Port : PortMortal(C, p), NEW b \in Bridge, BridgeMortal(C, b)
  PROVE  BridgeMortal(C, b)'
<1>1. TypeOK /\ RunsHome
  BY NewsFacts
<1>2. Now(C, b)' = Now(C, b)
  BY DEF Now, Steady
<1>3. CASE br'[b] = br[b]
  BY <1>2, <1>3 DEF BridgeMortal, MayBeAbout
<1>4. CASE br'[b] = Elected(b)
  BY <1>2, <1>4, ElectedMortal DEF BridgeMortal, MayBeAbout
<1> QED BY <1>1, <1>3, <1>4, MoveElects

\* A frame sent into a part that is cut off comes from the part.
LEMMA MoveKeepsWireMortal ==
  ASSUME NewsInv, ClockOK, NEW m, Moves(m), NEW C \in Part, Steady(C), ~ Reached(C),
         \A p \in Port : PortMortal(C, p), NEW q \in Port, q \notin NonStp, Owner[q] \in C
  PROVE  WireMortal(C, q)'
<1>1. /\ TypeOK /\ RunsHome /\ LinksPaired
      /\ \A p \in Port : LinkRight(p) /\ TellsRoot(p)
  BY NewsFacts DEF NewsInv
<1> SUFFICES ASSUME NEW i \in 1 .. Len(wire'[q]), FromDesignated(wire'[q][i])
             PROVE  MayBeAbout(C, wire'[q][i].vec, wire'[q][i].times, alone[C])
  BY DEF WireMortal, FromDesignated, MayBeAbout, Steady
<1>2. CASE \E j \in 1 .. Len(wire[q]) : wire'[q][i] = wire[q][j]
  BY <1>2 DEF PortMortal, WireMortal
<1>3. ASSUME NEW p \in Port, p \in phys \ NonStp, q = Peer[p], p # q, NEW type,
             \/ type = "Config" /\ TransmitNext(p) = "TRANSMIT_CONFIG"
             \/ type = "RSTP" /\ TransmitNext(p) = "TRANSMIT_RSTP",
             wire'[q][i] = BpduOf(p, type)
      PROVE  MayBeAbout(C, wire'[q][i].vec, wire'[q][i].times, alone[C])
  <2>1. prio[p].infoIs = "Mine"
    BY <1>1, <1>3, SendsOwn
  <2>2. wire'[q][i].vec = prio[p].portPrio /\ wire'[q][i].times = prio[p].portTimes
    BY <1>3 DEF BpduOf
  <2>3. Peer[q] = p /\ q \in phys
    BY <1>1, <1>3, PeerAssumption DEF LinksPaired
  <2>4. Owner[p] \in C
    BY <1>3, <2>3 DEF Reached
  <2>5. MayBeAbout(C, prio[p].portPrio, prio[p].portTimes, Now(C, Owner[p]))
    BY <1>3, <2>1, <2>4 DEF PortMortal, MineMortal
  <2>6. prio[p].portTimes.MessageAge \in Nat
    BY <1>1 DEF TypeOK, StateOK, Information, Times
  <2>7. Life(prio[p].portTimes.MessageAge) \in Nat
    BY <2>6, LifeGrows
  <2> QED BY <2>2, <2>5, <2>7, NowType DEF MayBeAbout
<1>4. ~ FromDesignated(TcnBpdu)
  BY DEF FromDesignated, TcnBpdu, NoBpdu
<1>5. m \in Machine /\ NextState(m) # Stay /\ RunMachine(m, NextState(m))
  BY <1>1, MoveFacts
<1> QED BY <1>1, <1>2, <1>3, <1>4, <1>5, MachineSends

\* Port information takes over nothing that is too old.
LEMMA InfoKeepsMortal ==
  ASSUME NewsInv, ClockOK, NEW q \in Port, q \notin NonStp, NEW C \in Part, Owner[q] \in C,
         Steady(C), PortMortal(C, q), BridgeMortal(C, Owner[q]),
         InfoNext(q) # Stay, InfoEnter(q, InfoNext(q)), At("info", q)' = InfoNext(q)
  PROVE  MineMortal(C, q)' /\ KeptMortal(C, q)'
<1> DEFINE s == InfoNext(q)
           n == Now(C, Owner[q])
           w == timer[q].rcvdInfoWhile
<1>1. /\ TypeOK /\ NewsRight(q) /\ StandsRight(q) /\ VerdictRight(q)
      /\ TimesStand(q) /\ RepeatRight(q) /\ PortInLimits(q)
  BY NewsFacts DEF NewsInv
<1>2. /\ prio[q].portTimes \in Times /\ rcv[q].msg.times \in Times /\ w \in Nat
      /\ Owner[q] \in Bridge
  BY <1>1, PortAssumption DEF TypeOK, StateOK, Timers, Information, Reception, Bpdu
<1>3. n' = n /\ n \in Nat /\ alone[C] \in Nat /\ n <= alone[C] + 1
  BY NowType DEF Now, Steady
<1>4. /\ prio[q].portTimes.MessageAge \in Nat /\ rcv[q].msg.times.MessageAge \in Nat
      /\ Life(prio[q].portTimes.MessageAge) \in Nat
      /\ Life(rcv[q].msg.times.MessageAge) \in Nat
  BY <1>2, LifeGrows DEF Times
<1>5. /\ s \in {"DISABLED", "ENABLED", "AGED", "UPDATE", "RECEIVE", "SUPERIOR",
                "REPEAT", "AGREEMENT", "CURRENT"}
      /\ s = "ENABLED" => prio[q].infoIs = "Disabled"
      /\ s \in {"SUPERIOR", "REPEAT"} =>
           /\ At("info", q) = "RECEIVE"
           /\ rcv[q].rcvdMsg = IF s = "SUPERIOR" THEN "Superior" ELSE "Repeated"
  BY <1>1, InfoGoes DEF NewsRight
<1>6. /\ MineMortal(C, q) /\ KeptMortal(C, q) /\ MsgMortal(C, q)
      /\ MayBeAbout(C, br[Owner[q]].rootPrio, br[Owner[q]].rootTimes, n)
  BY DEF PortMortal, BridgeMortal
<1> HIDE DEF s
<1>7. InfoEnter(q, s) /\ s = InfoNext(q)
  BY DEF s
<1>8. CASE s \in {"DISABLED", "AGED", "ENABLED"}
  <2>1. prio'[q].infoIs \notin {"Mine", "Received"}
    BY <1>1, <1>5, <1>7, <1>8, InfoWrites
  <2> QED BY <2>1 DEF MineMortal, KeptMortal
<1>9. CASE s = "UPDATE"
  <2>1. /\ prio'[q].infoIs = "Mine" /\ prio'[q].portPrio = prio[q].designPrio
        /\ prio'[q].portTimes = prio[q].designTimes
    BY <1>1, <1>7, <1>9, InfoWrites
  <2>2. /\ prio[q].designTimes = br[Owner[q]].rootTimes
        /\ RootBridge(prio[q].designPrio) = RootBridge(br[Owner[q]].rootPrio)
    BY <1>1 DEF TimesStand, StandsRight, DesignPrioFor, MakeVector, RootBridge
  <2>3. MayBeAbout(C, prio[q].designPrio, prio[q].designTimes, n)
    BY <1>6, <2>2 DEF MayBeAbout
  <2> QED BY <1>3, <2>1, <2>3 DEF MineMortal, KeptMortal, MayBeAbout
<1>10. CASE s \in {"SUPERIOR", "REPEAT"}
  <2> DEFINE v == rcv[q].msg.vec
             t == rcv[q].msg.times
  <2>1. FromDesignated(rcv[q].msg) /\ MayBeAbout(C, v, t, alone[C])
    BY <1>1, <1>5, <1>6, <1>10 DEF VerdictRight, MsgMortal
  <2>2. /\ prio'[q].portPrio = v /\ prio'[q].portTimes = t
        /\ timer'[q].rcvdInfoWhile = InfoLifetime(t)
        /\ s = "SUPERIOR" => prio'[q].infoIs = "Received"
        /\ s = "REPEAT" => prio'[q].infoIs = prio[q].infoIs
    <3>1. CASE s = "SUPERIOR"
      BY <1>1, <1>7, <3>1, InfoWrites, InfoClocks
    <3>2. CASE s = "REPEAT"
      <4>1. v = prio[q].portPrio /\ t = prio[q].portTimes
        BY <1>1, <1>5, <3>2 DEF RepeatRight
      <4>2. /\ prio'[q].portPrio = prio[q].portPrio /\ prio'[q].infoIs = prio[q].infoIs
            /\ prio'[q].portTimes = prio[q].portTimes
        BY <1>1, <1>7, <3>2, InfoWrites
      <4>3. timer'[q].rcvdInfoWhile = InfoLifetime(prio[q].portTimes)
        BY <1>1, <1>7, <3>2, InfoClocks
      <4> QED BY <3>2, <4>1, <4>2, <4>3
    <3> QED BY <1>10, <3>1, <3>2
  <2>3. InfoLifetime(t) \in Nat /\ InfoLifetime(t) + 1 <= Hop
    BY <1>1, <1>2, LifetimeInHop DEF PortInLimits
  <2>4. RootBridge(v) \in C \/ n + InfoLifetime(t) <= Life(t.MessageAge) + Hop + 1
    BY <1>3, <1>4, <2>1, <2>3, HopType DEF MayBeAbout
  <2>5. KeptMortal(C, q)'
    BY <1>3, <2>2, <2>4 DEF KeptMortal
  <2>6. MineMortal(C, q)'
    <3>1. CASE s = "SUPERIOR"
      BY <2>2, <3>1 DEF MineMortal
    <3>2. CASE s = "REPEAT"
      <4>1. prio'[q].portPrio = prio[q].portPrio /\ prio'[q].portTimes = prio[q].portTimes
        BY <1>1, <1>7, <3>2, InfoWrites
      <4> QED BY <1>3, <1>6, <2>2, <3>2, <4>1 DEF MineMortal, MayBeAbout
    <3> QED BY <1>10, <3>1, <3>2
  <2> QED BY <2>5, <2>6
<1>11. CASE s \in {"RECEIVE", "AGREEMENT", "CURRENT"}
  <2>1. /\ prio'[q].infoIs = prio[q].infoIs /\ prio'[q].portPrio = prio[q].portPrio
        /\ prio'[q].portTimes = prio[q].portTimes
    BY <1>1, <1>7, <1>11, InfoWrites
  <2>2. timer'[q].rcvdInfoWhile = w
    BY <1>1, <1>7, <1>11, InfoClocks
  <2> QED BY <1>3, <1>6, <2>1, <2>2 DEF MineMortal, KeptMortal, MayBeAbout
<1> QED BY <1>5, <1>8, <1>9, <1>10, <1>11

LEMMA MoveKeepsPortMortal ==
  ASSUME NewsInv, ClockOK, NEW m, Moves(m), NEW C \in Part, Steady(C), ~ Reached(C),
         \A p \in Port : PortMortal(C, p), NEW q \in Port, BridgeMortal(C, Owner[q])
  PROVE  PortMortal(C, q)'
<1> SUFFICES ASSUME q \notin NonStp, Owner[q] \in C
             PROVE  /\ MineMortal(C, q)' /\ KeptMortal(C, q)'
                    /\ MsgMortal(C, q)' /\ WireMortal(C, q)'
  BY DEF PortMortal
<1> DEFINE s == NextState(m)
<1>1. TypeOK /\ RunsHome
  BY NewsFacts
<1>2. /\ m \in Machine /\ s # Stay /\ RunMachine(m, s)
      /\ At("info", q)' = IF m[1] = "info" /\ m[2] = q THEN s ELSE At("info", q)
  BY <1>1, MoveFacts, Kinds
<1>3. WireMortal(C, q)'
  BY MoveKeepsWireMortal
<1>4. /\ PortMortal(C, q) /\ MineMortal(C, q) /\ KeptMortal(C, q) /\ MsgMortal(C, q)
      /\ Now(C, Owner[q])' = Now(C, Owner[q])
  BY DEF PortMortal, Now, Steady
<1>5. CASE m[1] = "info" /\ m[2] = q
  <2>1. s = InfoNext(q) /\ InfoEnter(q, s)
    BY <1>2, <1>5 DEF NextState, RunMachine
  <2>2. MineMortal(C, q)' /\ KeptMortal(C, q)'
    BY <1>2, <1>4, <1>5, <2>1, InfoKeepsMortal
  <2>3. s = "RECEIVE" => rcv[q].rcvdBpdu
    BY <1>2, <2>1, InfoGoes
  <2>4. rcv'[q].msg = rcv[q].msg /\ (rcv'[q].rcvdBpdu => rcv[q].rcvdBpdu)
    BY <1>1, <1>2, <2>1, InfoWrites, ReadWriter
  <2>5. MsgMortal(C, q)'
    BY <1>2, <1>4, <1>5, <2>3, <2>4 DEF MsgMortal, FromDesignated, MayBeAbout, Steady
  <2> QED BY <1>3, <2>2, <2>5
<1>6. CASE ~ (m[1] = "info" /\ m[2] = q)
  <2>1. NewsKept(q) /\ (rcv'[q].rcvdBpdu => rcv[q].rcvdBpdu)
    BY <1>1, <1>2, <1>6, NewsWriter, ReadWriter
  <2>2. timer'[q].rcvdInfoWhile = timer[q].rcvdInfoWhile
    BY <1>1, <1>2, <1>6, TimerWriters
  <2>3. MineMortal(C, q)' /\ KeptMortal(C, q)'
    BY <1>4, <2>1, <2>2 DEF MineMortal, KeptMortal, MayBeAbout, NewsKept
  <2>4. MsgMortal(C, q)'
    BY <1>2, <1>4, <1>6, <2>1 DEF MsgMortal, FromDesignated, MayBeAbout, Steady, NewsKept
  <2> QED BY <1>3, <2>3, <2>4
<1> QED BY <1>5, <1>6

-----------------------------------------------------------------------------
(***************************************************************************)
(* Between updates.                                                        *)
(***************************************************************************)
\* While a part has been cut off for a second at most, anything may be about.
LEMMA EarlyMortal ==
  ASSUME TypeOK', ClockOK', \A p \in Port : KeptInTime(p)' /\ PortInLimits(p)',
         NEW C \in Part, (alone[C] = 0 \/ (alone[C] = 1 /\ ticked = {}))'
  PROVE  /\ \A p \in Port : PortMortal(C, p)'
         /\ \A b \in Bridge : BridgeMortal(C, b)'
<1>1. \A b : Now(C, b)' \in Nat /\ Now(C, b)' <= 1 /\ alone'[C] \in Nat /\ alone'[C] <= 1
  BY DEF Now
<1>2. ASSUME NEW t \in Times
      PROVE  Life(t.MessageAge) \in Nat
  BY LifeGrows DEF Times
<1>3. ASSUME NEW v, NEW t \in Times, NEW n \in Nat, n <= 1
      PROVE  MayBeAbout(C, v, t, n)
  BY <1>2, <1>3 DEF MayBeAbout
<1>4. ASSUME NEW p \in Port
      PROVE  PortMortal(C, p)'
  <2>1. /\ prio'[p].portTimes \in Times /\ timer'[p].rcvdInfoWhile \in Nat
        /\ rcv'[p].msg.times \in Times /\ wire'[p] \in Seq(Bpdu)
    BY DEF TypeOK, StateOK, Information, Timers, Reception, Bpdu
  <2>2. MineMortal(C, p)'
    BY <1>1, <1>2, <2>1 DEF MineMortal, MayBeAbout
  <2>3. MsgMortal(C, p)'
    BY <1>1, <1>2, <2>1 DEF MsgMortal, MayBeAbout
  <2>4. WireMortal(C, p)'
    <3>1. ASSUME NEW i \in 1 .. Len(wire'[p])
          PROVE  wire'[p][i].times \in Times
      <4>1. wire'[p][i] \in Bpdu
        BY <2>1, ElementOfSeq
      <4> QED BY <4>1 DEF Bpdu
    <3> QED BY <1>1, <1>2, <3>1 DEF WireMortal, MayBeAbout
  <2>5. KeptMortal(C, p)'
    <3> SUFFICES ASSUME prio'[p].infoIs = "Received"
                 PROVE  Now(C, Owner[p])' + timer'[p].rcvdInfoWhile
                          <= Life(prio'[p].portTimes.MessageAge) + Hop + 1
      BY DEF KeptMortal
    <3> DEFINE t == prio'[p].portTimes
    <3>1. timer'[p].rcvdInfoWhile <= InfoLifetime(t)
      BY DEF KeptInTime
    <3>2. InLimits(t)
      BY DEF PortInLimits, InLimits
    <3> HIDE DEF t
    <3>3. InfoLifetime(t) \in Nat /\ InfoLifetime(t) + 1 <= Hop
      BY <2>1, <3>2, LifetimeInHop DEF t
    <3>4. Now(C, Owner[p])' \in Nat /\ Now(C, Owner[p])' <= 1 /\ Life(t.MessageAge) \in Nat
      BY <1>1, <1>2, <2>1 DEF t
    <3>5. Now(C, Owner[p])' + timer'[p].rcvdInfoWhile <= Life(t.MessageAge) + Hop + 1
      BY <2>1, <3>1, <3>3, <3>4, HopType
    <3> QED BY <3>5 DEF t
  <2> QED BY <2>2, <2>3, <2>4, <2>5 DEF PortMortal
<1>5. ASSUME NEW b \in Bridge
      PROVE  BridgeMortal(C, b)'
  <2>1. br'[b].rootTimes \in Times
    BY DEF TypeOK, StateOK, RootKnown
  <2> QED BY <1>1, <1>2, <2>1 DEF BridgeMortal, MayBeAbout
<1> QED BY <1>4, <1>5

\* A bridge that is not the root has a root port that hears of the root.
LEMMA RootHeard ==
  ASSUME NewsInv, Idle, NEW b \in Bridge, RootBridge(br[b].rootPrio) # b
  PROVE  \E p \in Ports[b] \ NonStp :
           /\ prio[p].infoIs = "Received" /\ timer[p].rcvdInfoWhile >= 1
           /\ RootBridge(prio[p].portPrio) = RootBridge(br[b].rootPrio)
           /\ br[b].rootTimes = AgeOneHop(prio[p].portTimes)
<1>1. LoopInv /\ SettledInv /\ TypeOK
  BY NewsFacts
<1>2. br[b].rootPortId # 0
  BY <1>1 DEF LoopInv, RootInv, BridgeTold
<1>3. PICK p \in Ports[b] : PortId[p] = br[b].rootPortId
  BY <1>2 DEF NewsInv, RootThere
<1>4. p \in Port /\ Owner[p] = b
  BY BridgePorts
<1>5. ~ sel[p].reselect /\ StandsRight(p) /\ TimesStand(p) /\ SelectionRight(p)
  BY <1>1, <1>4, SelectionSettles, NewsFacts DEF NewsInv
<1>6. p \notin NonStp
  <2>1. sel[p].selectedRole = "Root"
    BY <1>3, <1>4, <1>5 DEF SelectionRight
  <2>2. RoleRight(p)
    BY <1>1, <1>4, LoopFacts
  <2> QED BY <2>1, <2>2 DEF RoleRight
<1>7. /\ prio[p].infoIs = "Received"
      /\ br[b].rootPrio = AddCost(prio[p].portPrio, CableCost[p])
      /\ br[b].rootTimes = AgeOneHop(prio[p].portTimes)
  BY <1>3, <1>4, <1>5, <1>6 DEF StandsRight, TimesStand
<1>8. RootBridge(prio[p].portPrio) = RootBridge(br[b].rootPrio)
  BY <1>7 DEF AddCost, RootBridge
<1>9. timer[p].rcvdInfoWhile > 0 /\ timer[p].rcvdInfoWhile \in Nat
  BY <1>1, <1>4, <1>7, NewsSettles DEF TypeOK, StateOK, Timers
<1> QED BY <1>6, <1>7, <1>8, <1>9

\* It has a second left at least; so have its ports when they tell of the root.
LEMMA RootHasTime ==
  ASSUME NewsInv, ClockOK, Idle, NEW C \in Part, NEW b \in C, b \in Bridge,
         \A p \in Port : PortMortal(C, p)
  PROVE  \/ RootBridge(br[b].rootPrio) \in C
         \/ Now(C, b) <= Life(br[b].rootTimes.MessageAge)
<1> SUFFICES ASSUME RootBridge(br[b].rootPrio) \notin C
             PROVE  Now(C, b) <= Life(br[b].rootTimes.MessageAge)
  OBVIOUS
<1>1. PICK p \in Ports[b] \ NonStp :
        /\ prio[p].infoIs = "Received" /\ timer[p].rcvdInfoWhile >= 1
        /\ RootBridge(prio[p].portPrio) = RootBridge(br[b].rootPrio)
        /\ br[b].rootTimes = AgeOneHop(prio[p].portTimes)
  BY RootHeard
<1>2. p \in Port /\ Owner[p] = b
  BY BridgePorts
<1> DEFINE t == prio[p].portTimes
<1>3. t \in Times /\ timer[p].rcvdInfoWhile \in Nat /\ t.MessageAge \in Nat
  BY <1>2, NewsFacts DEF TypeOK, StateOK, Timers, Information, Times
<1>4. Now(C, b) + timer[p].rcvdInfoWhile <= Life(t.MessageAge) + Hop + 1
  BY <1>1, <1>2 DEF PortMortal, KeptMortal
<1>5. /\ br[b].rootTimes.MessageAge \in Nat
      /\ Life(t.MessageAge) \in Nat /\ Life(br[b].rootTimes.MessageAge) \in Nat
      /\ Life(t.MessageAge) + Hop <= Life(br[b].rootTimes.MessageAge)
  BY <1>1, <1>3, AgesInLimits, LifeGrows
<1> HIDE DEF t
<1> QED BY <1>1, <1>3, <1>4, <1>5, HopType, NowType

LEMMA MineHasTime ==
  ASSUME NewsInv, ClockOK, Idle, NEW C \in Part, NEW p \in Port, p \notin NonStp,
         Owner[p] \in C, \A r \in Port : PortMortal(C, r), prio[p].infoIs = "Mine"
  PROVE  \/ RootBridge(prio[p].portPrio) \in C
         \/ Now(C, Owner[p]) <= Life(prio[p].portTimes.MessageAge)
<1>1. /\ Owner[p] \in Bridge /\ ~ sel[p].reselect /\ ~ sel[p].updtInfo
      /\ StandsRight(p) /\ TimesStand(p)
  BY NewsFacts, SelectionSettles, PortAssumption DEF NewsInv
<1>2. /\ prio[p].portPrio = DesignPrioFor(p, br[Owner[p]].rootPrio)
      /\ prio[p].portTimes = br[Owner[p]].rootTimes
  BY <1>1 DEF StandsRight, TimesStand
<1>3. RootBridge(prio[p].portPrio) = RootBridge(br[Owner[p]].rootPrio)
  BY <1>2 DEF DesignPrioFor, MakeVector, RootBridge
<1> QED BY <1>1, <1>2, <1>3, RootHasTime

-----------------------------------------------------------------------------
(***************************************************************************)
(* What happens to a part that stays cut off.                              *)
(***************************************************************************)
\* A tick makes it a second later for the bridge that ticks.
LEMMA TickMovesClock ==
  ASSUME TypeOK, ClockOK, NEW b \in Bridge, Tick(b), NEW C \in Part,
         alone'[C] = IF ticked' = {} /\ alone[C] < Horizon THEN alone[C] + 1 ELSE alone[C],
         NEW c \in Bridge
  PROVE  /\ Now(C, c)' \in Nat
         /\ Now(C, c)' <= Now(C, c) + (IF c = b THEN 1 ELSE 0)
<1>1. /\ alone[C] \in Nat /\ Horizon \in Nat /\ b \notin ticked
      /\ ticked' = IF ticked \cup {b} = Bridge THEN {} ELSE ticked \cup {b}
  BY ClockAssumption DEF ClockOK, Tick
<1>2. CASE ticked' = {}
  <2>1. c # b => c \in ticked
    BY <1>1, <1>2
  <2>2. alone'[C] \in Nat /\ alone'[C] <= alone[C] + 1
    BY <1>1
  <2> QED BY <1>1, <1>2, <2>1, <2>2 DEF Now
<1>3. CASE ticked' # {}
  <2>1. alone'[C] = alone[C] /\ ticked' = ticked \cup {b}
    BY <1>1, <1>3
  <2> QED BY <1>1, <2>1 DEF Now
<1> QED BY <1>2, <1>3

\* Nothing has outlived its time when the tick comes, so it may take a second.
LEMMA TickKeepsMortal ==
  ASSUME NewsInv, ClockOK, NEW b \in Bridge, Tick(b), NEW C \in Part,
         alone'[C] = IF ticked' = {} /\ alone[C] < Horizon THEN alone[C] + 1 ELSE alone[C],
         \A p \in Port : PortMortal(C, p), \A c \in Bridge : BridgeMortal(C, c)
  PROVE  /\ \A p \in Port : PortMortal(C, p)'
         /\ \A c \in Bridge : BridgeMortal(C, c)'
<1>1. /\ TypeOK /\ SettledInv /\ TellInv /\ Idle
      /\ st' = st /\ prio' = prio /\ rcv' = rcv /\ br' = br /\ wire' = wire
      /\ \A p \in Port : wire[p] = <<>>
  BY NewsFacts DEF NewsInv, Tick
<1>2. ASSUME NEW c \in Bridge
      PROVE  /\ Now(C, c)' \in Nat /\ Now(C, c) \in Nat
             /\ Now(C, c)' <= Now(C, c) + 1
             /\ c # b => Now(C, c)' <= Now(C, c)
  BY <1>1, TickMovesClock, NowType
<1>3. ASSUME NEW c \in Bridge
      PROVE  BridgeMortal(C, c)'
  <2> SUFFICES ASSUME c \in C, RootBridge(br[c].rootPrio) \notin C
               PROVE  Now(C, c)' <= Life(br[c].rootTimes.MessageAge) + 1
    BY <1>1 DEF BridgeMortal, MayBeAbout
  <2>1. Life(br[c].rootTimes.MessageAge) \in Nat
    BY <1>1, LifeGrows DEF TypeOK, StateOK, RootKnown, Times
  <2>2. Now(C, c) <= Life(br[c].rootTimes.MessageAge)
    BY <1>1, RootHasTime
  <2> QED BY <1>2, <2>1, <2>2
<1>4. ASSUME NEW p \in Port, p \notin NonStp, Owner[p] \in C
      PROVE  MineMortal(C, p)'
  <2> SUFFICES ASSUME prio[p].infoIs = "Mine", RootBridge(prio[p].portPrio) \notin C
               PROVE  Now(C, Owner[p])' <= Life(prio[p].portTimes.MessageAge) + 1
    BY <1>1 DEF MineMortal, MayBeAbout
  <2>1. Life(prio[p].portTimes.MessageAge) \in Nat /\ Owner[p] \in Bridge
    BY <1>1, LifeGrows, PortAssumption DEF TypeOK, StateOK, Information, Times
  <2>2. Now(C, Owner[p]) <= Life(prio[p].portTimes.MessageAge)
    BY <1>1, <1>4, MineHasTime
  <2> QED BY <1>2, <2>1, <2>2
<1>5. ASSUME NEW p \in Port, p \notin NonStp, Owner[p] \in C
      PROVE  KeptMortal(C, p)'
  <2> DEFINE w == timer[p].rcvdInfoWhile
  <2> SUFFICES ASSUME prio[p].infoIs = "Received", RootBridge(prio[p].portPrio) \notin C
               PROVE  Now(C, Owner[p])' + w'
                        <= Life(prio[p].portTimes.MessageAge) + Hop + 1
    BY <1>1 DEF KeptMortal
  <2>1. Life(prio[p].portTimes.MessageAge) \in Nat /\ Owner[p] \in Bridge /\ w \in Nat
    BY <1>1, LifeGrows, PortAssumption DEF TypeOK, StateOK, Information, Times, Timers
  <2>2. Now(C, Owner[p]) + w <= Life(prio[p].portTimes.MessageAge) + Hop + 1
    BY <1>5 DEF PortMortal, KeptMortal
  <2>3. w > 0
    BY <1>1, NewsSettles
  <2>4. w' = IF Owner[p] = b THEN w - 1 ELSE w
    BY <2>1, <2>3 DEF Tick, Countdown
  <2> HIDE DEF w
  <2> QED BY <1>2, <2>1, <2>2, <2>3, <2>4, HopType
<1>6. ASSUME NEW p \in Port
      PROVE  MsgMortal(C, p)' /\ WireMortal(C, p)'
  <2>1. ~ rcv'[p].rcvdBpdu /\ At("info", p)' # "RECEIVE" /\ Len(wire'[p]) = 0
    BY <1>1, AtRest DEF InfoPass, At
  <2> QED BY <2>1 DEF MsgMortal, WireMortal
<1>7. \A p \in Port : PortMortal(C, p)'
  BY <1>4, <1>5, <1>6 DEF PortMortal
<1> QED BY <1>3, <1>7

\* A frame that arrives is one that was under way; the poll shortens timers.
LEMMA ArrivalKeepsMortal ==
  ASSUME NewsInv, ClockOK, NEW p \in Port, PollLink(p) \/ RxBpdu(p), NEW C \in Part,
         Steady(C),
         \A q \in Port : PortMortal(C, q), \A c \in Bridge : BridgeMortal(C, c)
  PROVE  /\ \A q \in Port : PortMortal(C, q)'
         /\ \A c \in Bridge : BridgeMortal(C, c)'
<1>1. /\ TypeOK /\ TellInv /\ Idle
      /\ st' = st /\ prio' = prio /\ br' = br
      /\ \A c : Now(C, c)' = Now(C, c)
  BY NewsFacts DEF NewsInv, PollLink, RxBpdu, Now, Steady
<1>2. \A c \in Bridge : BridgeMortal(C, c)'
  BY <1>1 DEF BridgeMortal, MayBeAbout
<1>3. ASSUME NEW q \in Port
      PROVE  timer'[q].rcvdInfoWhile \in Nat /\ timer[q].rcvdInfoWhile \in Nat
             /\ timer'[q].rcvdInfoWhile <= timer[q].rcvdInfoWhile
  <2>1. timer \in [Port -> Timers] /\ timer[q].rcvdInfoWhile \in Nat
    BY <1>1 DEF TypeOK, StateOK, Timers
  <2>2. ASSUME NEW enable, NEW a, EnablePort(p, enable, a)
        PROVE  timer'[q].rcvdInfoWhile \in Nat
               /\ timer'[q].rcvdInfoWhile <= timer[q].rcvdInfoWhile
    <3>1. CASE timer' = timer
      BY <2>1, <3>1
    <3>2. CASE timer' = [timer EXCEPT ![p] = ResetTimers(timer[p])]
      BY <2>1, <3>2 DEF ResetTimers
    <3> QED BY <2>2, <3>1, <3>2 DEF EnablePort
  <2> QED BY <2>1, <2>2 DEF PollLink, RxBpdu
<1>4. ASSUME NEW q \in Port, q \notin NonStp, Owner[q] \in C
      PROVE  PortMortal(C, q)'
  <2>1. MineMortal(C, q)'
    BY <1>1, <1>4 DEF PortMortal, MineMortal, MayBeAbout
  <2>2. KeptMortal(C, q)'
    <3>1. /\ Life(prio[q].portTimes.MessageAge) \in Nat /\ Owner[q] \in Bridge
          /\ Now(C, Owner[q]) \in Nat
      BY <1>1, LifeGrows, NowType, PortAssumption
         DEF TypeOK, StateOK, Information, Times
    <3>2. KeptMortal(C, q)
      BY <1>4 DEF PortMortal
    <3> QED BY <1>1, <1>3, <3>1, <3>2, HopType DEF KeptMortal
  <2>3. WireMortal(C, q)'
    <3> SUFFICES ASSUME NEW i \in 1 .. Len(wire'[q]), FromDesignated(wire'[q][i])
                 PROVE  MayBeAbout(C, wire'[q][i].vec, wire'[q][i].times, alone[C])
      BY DEF WireMortal, FromDesignated, MayBeAbout, Steady
    <3>1. CASE wire' = wire
      BY <1>4, <3>1 DEF PortMortal, WireMortal
    <3>2. CASE RxBpdu(p)
      <4>1. /\ wire \in [Port -> Seq(Bpdu)] /\ wire[p] # <<>>
            /\ wire' = [wire EXCEPT ![p] = Tail(@)]
        BY <1>1, <3>2 DEF TypeOK, RxBpdu
      <4>2. \E j \in 1 .. Len(wire[q]) : wire'[q][i] = wire[q][j]
        <5>1. CASE q # p
          BY <4>1, <5>1
        <5>2. CASE q = p
          <6>1. wire'[q] = Tail(wire[q]) /\ wire[q] \in Seq(Bpdu) /\ wire[q] # <<>>
            BY <4>1, <5>2
          <6>2. i \in 1 .. Len(wire[q]) - 1 /\ wire'[q][i] = wire[q][i + 1]
            BY <6>1, HeadTailProperties
          <6>3. i + 1 \in 1 .. Len(wire[q])
            BY <6>1, <6>2, LenProperties
          <6> QED BY <6>2, <6>3
        <5> QED BY <5>1, <5>2
      <4> QED BY <1>4, <4>2 DEF PortMortal, WireMortal
    <3> QED BY <3>1, <3>2 DEF PollLink
  <2>4. MsgMortal(C, q)'
    <3> SUFFICES ASSUME FromDesignated(rcv'[q].msg),
                        rcv'[q].rcvdBpdu \/ At("info", q)' = "RECEIVE"
                 PROVE  MayBeAbout(C, rcv'[q].msg.vec, rcv'[q].msg.times, alone[C])
      BY DEF MsgMortal, FromDesignated, MayBeAbout, Steady
    <3>1. CASE rcv'[q] = rcv[q]
      <4>1. MsgMortal(C, q)
        BY <1>4 DEF PortMortal
      <4> QED BY <1>1, <3>1, <4>1 DEF MsgMortal, At
    <3>2. ASSUME RxBpdu(p), q = p, Len(wire[p]) >= 1,
                 rcv'[q].msg.times = wire[p][1].times,
                 RootBridge(rcv'[q].msg.vec) = RootBridge(wire[p][1].vec),
                 FromDesignated(wire[p][1])
          PROVE  MayBeAbout(C, rcv'[q].msg.vec, rcv'[q].msg.times, alone[C])
      <4>1. wire[p] \in Seq(Bpdu)
        BY <1>1 DEF TypeOK
      <4>2. 1 \in 1 .. Len(wire[p])
        BY <3>2, <4>1, LenProperties
      <4>3. MayBeAbout(C, wire[p][1].vec, wire[p][1].times, alone[C])
        BY <1>4, <3>2, <4>2 DEF PortMortal, WireMortal
      <4> QED BY <3>2, <4>3 DEF MayBeAbout
    <3>3. CASE RxBpdu(p)
      BY <1>1, <3>1, <3>2, <3>3, RxTakes
    <3>4. PollLink(p) => rcv' = rcv
      BY DEF PollLink
    <3> QED BY <3>1, <3>3, <3>4
  <2> QED BY <2>1, <2>2, <2>3, <2>4 DEF PortMortal
<1>5. \A q \in Port : PortMortal(C, q)'
  BY <1>4 DEF PortMortal
<1> QED BY <1>2, <1>5

\* Links and devices outside bring nothing new in.
LEMMA EnvironmentKeepsMortal ==
  ASSUME NewsInv, ClockOK, Environment \/ UpdateDone \/ UNCHANGED vars, NEW C \in Part,
         Steady(C), ~ Reached(C)',
         \A q \in Port : PortMortal(C, q), \A c \in Bridge : BridgeMortal(C, c)
  PROVE  /\ \A q \in Port : PortMortal(C, q)'
         /\ \A c \in Bridge : BridgeMortal(C, c)'
<1>1. TypeOK /\ UNCHANGED stateVars /\ \A c : Now(C, c)' = Now(C, c)
  <2>1. ASSUME NEW p, LinkChange(p)
        PROVE  UNCHANGED stateVars
    BY <2>1 DEF LinkChange
  <2>2. ASSUME NEW p, NEW m, ForeignFrame(p, m)
        PROVE  UNCHANGED stateVars
    BY <2>2 DEF ForeignFrame
  <2>3. UpdateDone \/ UNCHANGED vars => UNCHANGED stateVars
    BY DEF UpdateDone, vars, stateVars
  <2> QED BY <2>1, <2>2, <2>3, NewsFacts DEF Environment, Now, Steady
<1>2. \A c \in Bridge : BridgeMortal(C, c)'
  BY <1>1 DEF BridgeMortal, MayBeAbout, stateVars
<1>3. ASSUME NEW q \in Port, Owner[q] \in C, NEW i \in 1 .. Len(wire'[q])
      PROVE  \E j \in 1 .. Len(wire[q]) : wire'[q][i] = wire[q][j]
  <2>1. CASE wire'[q] = wire[q]
    BY <2>1
  <2>2. CASE Peer[q] # q /\ Environment
    BY <1>1, <2>2, OthersSendNothing
  <2>3. ASSUME NEW p \in Port, LinkChange(p)
        PROVE  \E j \in 1 .. Len(wire[q]) : wire'[q][i] = wire[q][j]
    <3>1. CASE wire' = wire
      BY <3>1
    <3>2. ASSUME NEW k \in 0 .. Len(wire[q]), wire'[q] = SubSeq(wire[q], 1, k)
          PROVE  \E j \in 1 .. Len(wire[q]) : wire'[q][i] = wire[q][j]
      <4>1. wire[q] \in Seq(Bpdu) /\ Len(wire[q]) \in Nat
        BY <1>1, LenProperties DEF TypeOK
      <4>2. Len(wire'[q]) = k /\ wire'[q][i] = wire[q][i] /\ i \in 1 .. Len(wire[q])
        BY <3>2, <4>1, SubSeqProperties
      <4> QED BY <4>2
    <3>3. \/ wire'[q] = wire[q]
          \/ \E k \in 0 .. Len(wire[q]) : wire'[q] = SubSeq(wire[q], 1, k)
      <4>1. Len(wire[q]) \in Nat
        BY <1>1, LenProperties DEF TypeOK
      <4>2. CASE UNCHANGED wire
        BY <4>2
      <4>3. ASSUME NEW kept \in [{p, Peer[p]} -> 0 .. TxHoldCount],
                   \A r \in {p, Peer[p]} : kept[r] <= Len(wire[r]),
                   wire' = [r \in Port |-> IF r \in {p, Peer[p]}
                                           THEN SubSeq(wire[r], 1, kept[r]) ELSE wire[r]]
            PROVE  \/ wire'[q] = wire[q]
                   \/ \E k \in 0 .. Len(wire[q]) : wire'[q] = SubSeq(wire[q], 1, k)
        <5>1. CASE q \notin {p, Peer[p]}
          BY <4>3, <5>1
        <5>2. CASE q \in {p, Peer[p]}
          <6>1. wire'[q] = SubSeq(wire[q], 1, kept[q]) /\ kept[q] <= Len(wire[q])
            BY <4>3, <5>2
          <6>2. kept[q] \in 0 .. TxHoldCount
            BY <4>3, <5>2
          <6>3. kept[q] \in 0 .. Len(wire[q])
            BY <4>1, <6>1, <6>2
          <6> QED BY <6>1, <6>3
        <5> QED BY <5>1, <5>2
      <4> QED BY <2>3, <4>2, <4>3 DEF LinkChange
    <3> QED BY <2>1, <3>2, <3>3
  <2>4. ASSUME NEW p \in Port, NEW m \in Foreign, ForeignFrame(p, m)
        PROVE  wire'[q] = wire[q]
    <3>1. /\ Peer[p] = p /\ p \in phys' /\ wire' = [wire EXCEPT ![p] = <<m>>]
          /\ wire \in [Port -> Seq(Bpdu)]
      BY <1>1, <2>4 DEF ForeignFrame, TypeOK
    <3>2. wire'[p] # <<>>
      BY <3>1
    <3>3. Owner[p] \notin C
      BY <3>1, <3>2 DEF Reached
    <3> QED BY <1>3, <3>1, <3>3
  <2>5. UpdateDone \/ UNCHANGED vars => wire' = wire
    BY DEF UpdateDone, vars
  <2> QED BY <2>1, <2>3, <2>4, <2>5 DEF Environment
<1>4. ASSUME NEW q \in Port, q \notin NonStp, Owner[q] \in C
      PROVE  PortMortal(C, q)'
  <2>1. WireMortal(C, q)'
    <3> SUFFICES ASSUME NEW i \in 1 .. Len(wire'[q]), FromDesignated(wire'[q][i])
                 PROVE  MayBeAbout(C, wire'[q][i].vec, wire'[q][i].times, alone[C])
      BY DEF WireMortal, FromDesignated, MayBeAbout, Steady
    <3> QED BY <1>3, <1>4 DEF PortMortal, WireMortal
  <2>2. MineMortal(C, q)' /\ KeptMortal(C, q)'
    BY <1>1, <1>4 DEF PortMortal, MineMortal, KeptMortal, MayBeAbout, stateVars
  <2>3. MsgMortal(C, q)'
    BY <1>1, <1>4 DEF PortMortal, MsgMortal, FromDesignated, MayBeAbout, Steady, At, stateVars
  <2> QED BY <2>1, <2>2, <2>3 DEF PortMortal
<1>5. \A q \in Port : PortMortal(C, q)'
  BY <1>4 DEF PortMortal
<1> QED BY <1>2, <1>5

-----------------------------------------------------------------------------
(***************************************************************************)
(* The theorems.                                                           *)
(***************************************************************************)
PartRight(C) ==
  /\ alone[C] > 0 => ~ Reached(C)
  /\ \A p \in Port : PortMortal(C, p)
  /\ \A b \in Bridge : BridgeMortal(C, b)

ClockInv == NewsInv /\ ClockOK /\ \A C \in Part : PartRight(C)

\* Every bridge starts as its own root, and nothing is under way.
LEMMA InitClock == ClockInit => ClockInv
<1> SUFFICES ASSUME ClockInit
             PROVE  ClockInv
  OBVIOUS
<1>1. /\ Init /\ alone = [C \in Part |-> 0] /\ InitState(phys)
      /\ wire = [p \in Port |-> <<>>]
  BY DEF ClockInit, Init
<1>2. NewsInv /\ ClockOK
  BY <1>1, InitNews DEF ClockOK
<1>3. ASSUME NEW C \in Part, NEW p \in Port
      PROVE  PortMortal(C, p)
  <2>1. Len(wire[p]) = 0
    BY <1>1
  <2>2. /\ prio[p].infoIs = "Disabled" /\ ~ rcv[p].rcvdBpdu
        /\ At("info", p) # "RECEIVE"
    <3>1. TellInv /\ PortMachine("info", p) \in Machine
      BY <1>2, Kinds DEF NewsInv, Machine, PortMachine
    <3> QED BY <1>1, <3>1 DEF InitState, At, BEGIN
  <2> QED BY <2>1, <2>2 DEF PortMortal, MineMortal, KeptMortal, MsgMortal, WireMortal
<1>4. ASSUME NEW C \in Part, NEW b \in Bridge
      PROVE  BridgeMortal(C, b)
  <2>1. br[b].rootPrio = OwnPrio(b)
    BY <1>1 DEF InitState
  <2> QED BY <2>1 DEF BridgeMortal, MayBeAbout, OwnPrio, MakeVector, RootBridge
<1>5. \A C \in Part : ~ (alone[C] > 0)
  BY <1>1
<1> QED BY <1>2, <1>3, <1>4, <1>5 DEF ClockInv, PartRight

LEMMA NextKeepsClock == ClockInv /\ [ClockNext]_<<vars, alone>> => ClockInv'
<1> SUFFICES ASSUME ClockInv, [ClockNext]_<<vars, alone>>
             PROVE  ClockInv'
  OBVIOUS
<1>1. [Next]_vars
  BY DEF ClockNext, Next, System, Event
<1>2. /\ NewsInv /\ ClockOK /\ NewsInv'
  BY <1>1, NextKeepsNews DEF ClockInv
<1>3. /\ TypeOK' /\ RunsHome /\ TypeOK
      /\ \A p \in Port : KeptInTime(p)' /\ PortInLimits(p)'
  BY <1>2, NewsFacts DEF NewsInv, TimeInv, SettledInv
\* How the clocks go.
<1>4. ASSUME NEW C \in Part
      PROVE  /\ alone[C] \in Nat /\ alone'[C] \in Nat /\ Horizon \in Nat
             /\ \/ UNCHANGED <<vars, alone>>
                \/ alone'[C] = 0
                \/ /\ ~ Reached(C)'
                   /\ \/ /\ \E b \in Bridge : Tick(b)
                         /\ alone'[C] = IF ticked' = {} /\ alone[C] < Horizon
                                        THEN alone[C] + 1 ELSE alone[C]
                      \/ /\ \/ MachineStep \/ UpdateDone \/ Environment
                            \/ \E p \in Port : PollLink(p) \/ RxBpdu(p)
                         /\ alone'[C] = alone[C]
             /\ alone'[C] > 0 => ~ Reached(C)'
  <2>1. alone[C] \in Nat /\ Horizon \in Nat /\ PartRight(C)
    BY <1>2, ClockAssumption DEF ClockOK, ClockInv
  <2>3. CASE UNCHANGED <<vars, alone>>
    <3>1. Reached(C)' <=> Reached(C)
      BY <2>3 DEF Reached, vars
    <3> QED BY <2>1, <2>3, <3>1 DEF PartRight
  <2>4. CASE (\E b \in Bridge : Tick(b)) /\ Count(ticked' = {})
    <3>1. alone'[C] = IF Reached(C)' THEN 0
                      ELSE IF ticked' = {} /\ alone[C] < Horizon THEN alone[C] + 1
                      ELSE alone[C]
      BY <2>4 DEF Count
    <3>2. alone'[C] \in Nat
      BY <2>1, <3>1
    <3>3. Reached(C)' => alone'[C] = 0
      BY <3>1
    <3>4. ~ Reached(C)' => alone'[C] = IF ticked' = {} /\ alone[C] < Horizon
                                       THEN alone[C] + 1 ELSE alone[C]
      BY <3>1
    <3>5. alone'[C] > 0 => ~ Reached(C)'
      BY <3>3
    <3> QED BY <2>1, <2>4, <3>2, <3>3, <3>4, <3>5, Zenon
  <2>5. CASE /\ \/ MachineStep \/ UpdateDone \/ Environment
                \/ \E p \in Port : PollLink(p) \/ RxBpdu(p)
             /\ Count(FALSE)
    <3>1. alone'[C] = IF Reached(C)' THEN 0 ELSE alone[C]
      BY <2>5 DEF Count
    <3>2. alone'[C] \in Nat
      BY <2>1, <3>1
    <3>3. Reached(C)' => alone'[C] = 0
      BY <3>1
    <3>4. ~ Reached(C)' => alone'[C] = alone[C]
      BY <3>1
    <3>5. alone'[C] > 0 => ~ Reached(C)'
      BY <3>3
    <3> QED BY <2>1, <2>5, <3>2, <3>3, <3>4, <3>5, Zenon
  <2> QED BY <2>3, <2>4, <2>5 DEF ClockNext
<1>5. ClockOK'
  <2>1. alone' = alone \/ \E second : Count(second)
    BY DEF ClockNext
  <2>2. alone' = [C \in Part |-> alone'[C]]
    BY <1>2, <2>1 DEF Count, ClockOK
  <2> QED BY <1>4, <2>2 DEF ClockOK
<1>6. ASSUME NEW C \in Part
      PROVE  PartRight(C)'
  <2>1. /\ alone[C] > 0 => ~ Reached(C)
        /\ \A p \in Port : PortMortal(C, p)
        /\ \A b \in Bridge : BridgeMortal(C, b)
    BY DEF ClockInv, PartRight
  <2>2. CASE (alone[C] = 0 \/ (alone[C] = 1 /\ ticked = {}))'
    BY <1>3, <1>4, <1>5, <2>2, EarlyMortal DEF PartRight
  <2>3. CASE UNCHANGED <<vars, alone>>
    <3>1. Reached(C)' <=> Reached(C)
      BY <2>3 DEF Reached, vars
    <3>2. \A p \in Port : PortMortal(C, p)'
      BY <2>1, <2>3 DEF PortMortal, MineMortal, KeptMortal, MsgMortal, WireMortal, MayBeAbout,
                        FromDesignated, Now, At, vars
    <3>3. \A b \in Bridge : BridgeMortal(C, b)'
      BY <2>1, <2>3 DEF BridgeMortal, MayBeAbout, Now, vars
    <3> QED BY <1>4, <3>2, <3>3 DEF PartRight
  <2>4. ASSUME ~ Reached(C)', NEW b \in Bridge, Tick(b), alone[C] > 0,
               alone'[C] = IF ticked' = {} /\ alone[C] < Horizon THEN alone[C] + 1
                           ELSE alone[C]
        PROVE  PartRight(C)'
    BY <1>2, <1>4, <2>1, <2>4, TickKeepsMortal DEF PartRight
  <2>5. ASSUME ~ Reached(C)', alone'[C] = alone[C], alone[C] > 0,
               \/ MachineStep \/ UpdateDone \/ Environment
               \/ \E p \in Port : PollLink(p) \/ RxBpdu(p)
        PROVE  PartRight(C)'
    <3>1. Steady(C)
      <4>1. MachineStep => ticked' = ticked
        BY DEF MachineStep
      <4>2. UpdateDone => ticked' = ticked
        BY DEF UpdateDone
      <4>3. \A p : PollLink(p) \/ RxBpdu(p) => ticked' = ticked
        BY DEF PollLink, RxBpdu
      <4>4. Environment => ticked' = ticked
        BY DEF Environment, LinkChange, ForeignFrame
      <4> QED BY <2>5, <4>1, <4>2, <4>3, <4>4 DEF Steady
    <3>2. CASE MachineStep
      <4>1. PICK m : Moves(m)
        BY <3>2, OneMoves
      <4>2. \A b \in Bridge : BridgeMortal(C, b)'
        BY <1>2, <2>1, <3>1, <4>1, MoveKeepsBridgeMortal
      <4>3. \A p \in Port : PortMortal(C, p)'
        <5>1. \A p \in Port : Owner[p] \in Bridge
          BY PortAssumption
        <5> QED BY <1>2, <2>1, <2>5, <3>1, <4>1, <5>1, MoveKeepsPortMortal
      <4> QED BY <1>4, <4>2, <4>3 DEF PartRight
    <3>3. CASE \E p \in Port : PollLink(p) \/ RxBpdu(p)
      BY <1>2, <1>4, <2>1, <3>1, <3>3, ArrivalKeepsMortal DEF PartRight
    <3>4. CASE UpdateDone \/ Environment
      BY <1>2, <1>4, <2>1, <2>5, <3>1, <3>4, EnvironmentKeepsMortal DEF PartRight
    <3> QED BY <2>5, <3>2, <3>3, <3>4
  <2>6. ASSUME alone[C] = 0, alone'[C] # 0, NEW b \in Bridge, Tick(b),
               alone'[C] = IF ticked' = {} /\ alone[C] < Horizon THEN alone[C] + 1
                           ELSE alone[C]
        PROVE  PartRight(C)'
    <3>1. alone'[C] = 1 /\ ticked' = {}
      BY <2>6
    <3> QED BY <2>2, <3>1
  <2> QED BY <1>4, <2>2, <2>3, <2>4, <2>5, <2>6
<1> QED BY <1>2, <1>5, <1>6 DEF ClockInv

\* Whatever is cut off, news of the roots outside ages with every hop it
\* makes and keeps no port for longer than its lifetime.
THEOREM ClockInvariant == ClockSpec => []ClockInv
BY InitClock, NextKeepsClock, PTL DEF ClockSpec

\* A part of the network that has been cut off for longer than LongestAge - 1
\* hops take has given up every root outside it: what updtRootPrio of rolesel.c
\* adds to the age of news and what updtRcvdInfoWhile of portinfo.c makes of it
\* end every claim that no one renews.
THEOREM DeadRootsDie == ClockSpec => []DeadRootsForgotten
<1>1. ClockInv => DeadRootsForgotten
  <2> SUFFICES ASSUME ClockInv, Idle, NEW C \in Part, alone[C] > (LongestAge - 1) * Hop,
                      NEW b \in C, RootBridge(br[b].rootPrio) \notin C
               PROVE  FALSE
    BY DEF DeadRootsForgotten
  <2>1. NewsInv /\ ClockOK /\ b \in Bridge /\ \A p \in Port : PortMortal(C, p)
    BY ClockAssumption DEF ClockInv, PartRight
  <2>2. PICK p \in Ports[b] \ NonStp :
          /\ prio[p].infoIs = "Received" /\ timer[p].rcvdInfoWhile >= 1
          /\ RootBridge(prio[p].portPrio) = RootBridge(br[b].rootPrio)
          /\ br[b].rootTimes = AgeOneHop(prio[p].portTimes)
    BY <2>1, RootHeard
  <2>3. p \in Port /\ Owner[p] = b
    BY <2>1, BridgePorts
  <2> DEFINE t == prio[p].portTimes
             w == timer[p].rcvdInfoWhile
             a == t.MessageAge
  <2>4. t \in Times /\ w \in Nat /\ a \in Nat /\ t.MaxAge \in Nat
    BY <2>1, <2>3, NewsFacts DEF TypeOK, StateOK, Timers, Information, Times
  <2>5. Now(C, b) + w <= Life(a) + Hop + 1
    BY <2>1, <2>2, <2>3 DEF PortMortal, KeptMortal
  <2>6. w <= InfoLifetime(t) /\ t.MaxAge <= LongestAge
    BY <2>1, <2>2, <2>3, NewsFacts DEF NewsInv, KeptInTime, PortInLimits, InLimits
  <2>7. InfoLifetime(t) \in Nat /\ (InfoLifetime(t) > 0 => a + InfoLifetime(t) < t.MaxAge)
    BY <2>4, LifetimeBounds
  <2>8. w >= 1
    BY <2>2
  <2> HIDE DEF t, w, a
  <2>9. LongestAge \in Nat /\ LongestAge - 1 \in Nat /\ a + 1 <= LongestAge - 1
    BY <2>4, <2>6, <2>7, <2>8, ClockAssumption
  <2>10. Life(a) \in Nat /\ Life(a) + Hop <= Life(LongestAge - 1)
    BY <2>4, <2>9, LifeGrows
  <2>11. alone[C] > Life(LongestAge - 1) /\ Life(LongestAge - 1) \in Nat
    BY <2>9, LifeGrows DEF Life
  <2> QED BY <2>1, <2>4, <2>5, <2>8, <2>10, <2>11, HopType, NowType
<1> QED BY <1>1, ClockInvariant, PTL

=============================================================================
