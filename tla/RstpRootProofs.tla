--------------------------- MODULE RstpRootProofs ---------------------------
(***************************************************************************)
(* What bridges tell each other, for every topology and every loss, delay  *)
(* and link change: the root a bridge believes in is there, and is no      *)
(* nearer than the cables lead, neither in cost nor in age.                *)
(*                                                                         *)
(* The argument follows a claim about the root on its way.  A bridge makes *)
(* a claim (Held) that the ends of a cable may hear (OnLink); what is on   *)
(* the wire, in the last frame of a port and in the vector it keeps is     *)
(* always OnLink, and role selection, which adds the length of the cable,  *)
(* makes it a claim of its own bridge again.  A port that never had a      *)
(* vector (Fresh) has no role to send one in, nor one to elect.  That the  *)
(* length is added takes the order of the machines: no port is enabled     *)
(* before its path cost is computed (CostSet).                             *)
(*                                                                         *)
(* Costs are compared by a difference that an int must hold.  They do not  *)
(* grow past it, because news grows older on every link and news that has  *)
(* reached its maximum age is never a candidate: port information ages it  *)
(* in the same breath, before another machine runs (AgedAtOnce).           *)
(*                                                                         *)
(* Then no loop: as long as what the ends of the open links rely on still  *)
(* holds at the other ends, the open links form no loop.  A port that      *)
(* relies on its neighbour and carries traffic is the root port of its     *)
(* bridge, so its bridge is a cable further from the root than the         *)
(* neighbour's (Heard, StandsRight).  Of the bridges of a loop, one is     *)
(* furthest: both its ports in the loop would be its root port, and it has *)
(* one.                                                                    *)
(***************************************************************************)
EXTENDS RstpSettledProofs, FiniteSetTheorems

-----------------------------------------------------------------------------
(***************************************************************************)
(* Which machine runs.                                                     *)
(***************************************************************************)
\* The machine that runs belongs to the bridge that updates.
RunsHome == cur # NoMachine => updating # {} /\ cur \in MachinesOf[Active]

\* The machine chosen belongs to the bridge that updates.  It is the one that
\* ran last, or all machines before it in the list are at rest.
LEMMA ChosenFirst ==
  ASSUME TypeOK, RunsHome, updating # {}, NEW m \in Chosen(Active)
  PROVE  /\ Active \in Bridge /\ m \in MachinesOf[Active] /\ NextState(m) # Stay
         /\ cur # NoMachine /\ NextState(cur) # Stay => m = cur
         /\ \/ m = cur
            \/ \A n \in MachinesOf[Active] \ {m} :
                 ~ Precedes(m, n) => NextState(n) = Stay
<1>1. Active \in Bridge
  BY ActiveType DEF TypeOK
<1>2. CASE cur # NoMachine /\ NextState(cur) # Stay
  <2>1. m = cur
    BY <1>2 DEF Chosen
  <2> QED BY <1>1, <1>2, <2>1 DEF RunsHome
<1>3. CASE ~ (cur # NoMachine /\ NextState(cur) # Stay)
  <2>1. /\ m \in Movable(Active)
        /\ \A n \in MachinesOf[Active] \ {m} : Precedes(m, n) \/ NextState(n) = Stay
    BY <1>3 DEF Chosen
  <2> QED BY <1>1, <1>3, <2>1 DEF Movable
<1> QED BY <1>2, <1>3

\* A machine step leaves a machine of the updating bridge running.
LEMMA MachineKeepsHome ==
  ASSUME TypeOK, RunsHome, MachineStep
  PROVE  RunsHome'
<1>1. PICK m \in Chosen(Active) : RunMachine(m, NextState(m))
  BY DEF MachineStep
<1>2. updating # {} /\ updating' = updating
  BY DEF MachineStep
<1>3. m \in MachinesOf[Active]
  BY <1>2, ChosenFirst
<1> QED BY <1>1, <1>2, <1>3 DEF RunMachine, RunsHome, Active

\* An event finds all machines at rest and no bridge updating.
LEMMA EventFindsRest ==
  ASSUME Event
  PROVE  Idle /\ cur' = NoMachine
<1>1. ASSUME NEW p \in Port, PollLink(p)
      PROVE  Idle /\ cur' = NoMachine
  BY <1>1 DEF PollLink, Update
<1>2. ASSUME NEW b \in Bridge, Tick(b)
      PROVE  Idle /\ cur' = NoMachine
  BY <1>2 DEF Tick, Update
<1>3. ASSUME NEW p \in Port, RxBpdu(p)
      PROVE  Idle /\ cur' = NoMachine
  BY <1>3 DEF RxBpdu, Update
<1> QED BY <1>1, <1>2, <1>3 DEF Event

\* So does every other step.
LEMMA NextKeepsHome ==
  ASSUME TypeOK, RunsHome, [Next]_vars
  PROVE  RunsHome'
<1>1. CASE MachineStep
  BY <1>1, MachineKeepsHome
<1>2. CASE UpdateDone \/ Event
  BY <1>2, EventFindsRest DEF UpdateDone, RunsHome
<1>3. CASE Environment \/ UNCHANGED vars
  <2>1. cur' = cur /\ updating' = updating
    BY <1>3 DEF Environment, LinkChange, ForeignFrame, vars
  <2> QED BY <2>1 DEF RunsHome, Active
<1> QED BY <1>1, <1>2, <1>3 DEF Next, System

-----------------------------------------------------------------------------
(***************************************************************************)
(* How long what a port was told is kept.                                  *)
(***************************************************************************)
KeptInTime(p) ==
  prio[p].infoIs = "Received" =>
    timer[p].rcvdInfoWhile <= InfoLifetime(prio[p].portTimes)

\* Information is kept for three hello times at most, and not past MaxAge.
LEMMA LifetimeBounds ==
  ASSUME NEW t \in Times
  PROVE  /\ InfoLifetime(t) \in Nat /\ InfoLifetime(t) <= 3 * t.HelloTime
         /\ InfoLifetime(t) > 0 => t.MessageAge + InfoLifetime(t) < t.MaxAge
<1>1. t.MaxAge \in Nat /\ t.MessageAge \in Nat /\ t.HelloTime \in Nat
  BY DEF Times
<1>2. AtLeast1(t.MaxAge \div 16) \in Nat /\ AtLeast1(t.MaxAge \div 16) >= 1
  BY <1>1 DEF AtLeast1
<1> HIDE DEF AtLeast1
<1> QED BY <1>1, <1>2 DEF InfoLifetime

\* Port information starts the time of what it is told anew when it is told.
LEMMA InfoKeepsTime ==
  ASSUME TypeOK, NEW p \in Port, KeptInTime(p), NewsRight(p), InfoNext(p) # Stay,
         InfoEnter(p, InfoNext(p))
  PROVE  KeptInTime(p)'
<1> DEFINE s == InfoNext(p)
<1>1. /\ prio \in [Port -> Information] /\ prio[p] \in Information
      /\ rcv \in [Port -> Reception] /\ timer \in [Port -> Timers]
  BY DEF TypeOK, StateOK
<1>2. s = "ENABLED" => At("info", p) = "DISABLED"
  BY DEF InfoNext, Stay
<1>3. InfoEnter(p, s)
  OBVIOUS
<1> HIDE DEF s
<1>4. CASE s = "DISABLED"
  <2>1. prio' = [prio EXCEPT ![p].infoIs = "Disabled"]
    BY <1>3, <1>4 DEF InfoEnter, InfoAged, InfoDisabled
  <2> QED BY <1>1, <2>1 DEF KeptInTime, Information
<1>5. CASE s = "ENABLED"
  <2>1. prio' = [prio EXCEPT ![p].portPrio = prio[p].designPrio,
                             ![p].portTimes = prio[p].designTimes]
    BY <1>3, <1>5 DEF InfoEnter, InfoAged
  <2>2. prio'[p].infoIs = "Disabled"
    BY <1>1, <1>2, <1>5, <2>1 DEF Information, NewsRight
  <2> QED BY <2>2 DEF KeptInTime
<1>6. CASE s = "AGED"
  <2>1. prio' = [prio EXCEPT ![p].infoIs = "Aged"]
    BY <1>3, <1>6 DEF InfoEnter, InfoAged
  <2> QED BY <1>1, <2>1 DEF KeptInTime, Information
<1>7. CASE s = "UPDATE"
  <2>1. prio' = [prio EXCEPT ![p].portPrio = prio[p].designPrio,
                             ![p].portTimes = prio[p].designTimes,
                             ![p].infoIs = "Mine"]
    BY <1>3, <1>7 DEF InfoEnter, InfoAged, InfoUpdate
  <2> QED BY <1>1, <2>1 DEF KeptInTime, Information
<1>8. CASE s \in {"SUPERIOR", "REPEAT"}
  <2> DEFINE t == prio'[p].portTimes
  <2>1. t \in Times
    <3>1. t \in {rcv[p].msg.times, prio[p].portTimes}
      <4>1. CASE s = "SUPERIOR"
        <5>1. prio' = [prio EXCEPT ![p].portPrio = rcv[p].msg.vec,
                                   ![p].portTimes = rcv[p].msg.times,
                                   ![p].infoIs = "Received"]
          BY <1>3, <4>1 DEF InfoEnter, InfoAged, InfoSuperior
        <5> QED BY <1>1, <5>1 DEF Information
      <4>2. CASE s = "REPEAT"
        BY <1>3, <4>2 DEF InfoEnter, InfoAged
      <4> QED BY <1>8, <4>1, <4>2
    <3> QED BY <1>1, <3>1 DEF Information, Reception, Bpdu
  <2>2. timer'[p].rcvdInfoWhile = InfoLifetime(t)
    <3>1. CASE s = "SUPERIOR"
      <4>1. /\ prio' = [prio EXCEPT ![p].portPrio = rcv[p].msg.vec,
                                    ![p].portTimes = rcv[p].msg.times,
                                    ![p].infoIs = "Received"]
            /\ timer' = [timer EXCEPT ![p].rcvdInfoWhile = InfoLifetime(rcv[p].msg.times)]
        BY <1>3, <3>1 DEF InfoEnter, InfoAged, InfoSuperior
      <4>2. t = rcv[p].msg.times
        BY <1>1, <4>1 DEF Information
      <4> HIDE DEF t
      <4> QED BY <1>1, <4>1, <4>2 DEF Timers
    <3>2. CASE s = "REPEAT"
      <4>1. /\ prio' = prio
            /\ timer' = [timer EXCEPT ![p].rcvdInfoWhile = InfoLifetime(prio[p].portTimes)]
        BY <1>3, <3>2 DEF InfoEnter, InfoAged
      <4> QED BY <1>1, <4>1 DEF Timers
    <3> QED BY <1>8, <3>1, <3>2
  <2> QED BY <2>1, <2>2, LifetimeBounds DEF KeptInTime
<1>9. CASE s \in {"CURRENT", "RECEIVE", "AGREEMENT"}
  <2>1. prio' = prio /\ timer' = timer
    BY <1>3, <1>9 DEF InfoEnter, InfoAged, InfoReceive
  <2> QED BY <2>1 DEF KeptInTime
<1> QED BY <1>3, <1>4, <1>5, <1>6, <1>7, <1>8, <1>9 DEF InfoEnter, InfoAged

\* Every machine keeps it in time.
LEMMA MachineKeepsTime ==
  ASSUME TypeOK, NEW m \in Machine, NextState(m) # Stay,
         RunMachine(m, NextState(m)), NEW q \in Port, KeptInTime(q), NewsRight(q)
  PROVE  KeptInTime(q)'
<1>1. CASE m[1] = "info" /\ m[2] = q
  <2>1. NextState(m) = InfoNext(q) /\ InfoEnter(q, InfoNext(q))
    BY <1>1 DEF NextState, RunMachine
  <2> QED BY <2>1, InfoKeepsTime
<1>2. CASE ~ (m[1] = "info" /\ m[2] = q)
  BY <1>2, NewsWriter, TimerWriters DEF NewsKept, KeptInTime
<1> QED BY <1>1, <1>2

\* So does every event: time only runs out.
LEMMA EventKeepsTime ==
  ASSUME TypeOK, Event, NEW q \in Port, KeptInTime(q)
  PROVE  KeptInTime(q)'
<1>1. /\ timer \in [Port -> Timers] /\ timer[q].rcvdInfoWhile \in Nat
      /\ prio[q].portTimes \in Times
  BY PortTypes DEF TypeOK, NetOK, StateOK, Timers, Information
<1>2. timer'[q].rcvdInfoWhile <= timer[q].rcvdInfoWhile
  <2>1. ASSUME NEW p \in Port, NEW enable, NEW a, EnablePort(p, enable, a)
        PROVE  timer'[q].rcvdInfoWhile <= timer[q].rcvdInfoWhile
    <3>1. CASE timer' = timer
      BY <1>1, <3>1
    <3>2. CASE timer' = [timer EXCEPT ![p] = ResetTimers(timer[p])]
      BY <1>1, <3>2 DEF ResetTimers
    <3> QED BY <2>1, <3>1, <3>2 DEF EnablePort
  <2>2. CASE \E p \in Port : PollLink(p) \/ RxBpdu(p)
    BY <2>1, <2>2 DEF PollLink, RxBpdu
  <2>3. ASSUME NEW b \in Bridge, Tick(b)
        PROVE  timer'[q].rcvdInfoWhile <= timer[q].rcvdInfoWhile
    BY <1>1, <2>3 DEF Tick, Countdown
  <2> QED BY <2>2, <2>3 DEF Event
<1>3. prio' = prio
  BY DEF Event, PollLink, Tick, RxBpdu
<1>4. timer'[q].rcvdInfoWhile \in Nat
  BY NextKeepsTypes DEF Next, System, TypeOK, StateOK, Timers
<1>5. InfoLifetime(prio[q].portTimes) \in Nat
  BY <1>1, LifetimeBounds
<1> QED BY <1>1, <1>2, <1>3, <1>4, <1>5 DEF KeptInTime

-----------------------------------------------------------------------------
(***************************************************************************)
(* What is told too late is not used: it is aged before another machine    *)
(* than port information can run.                                          *)
(***************************************************************************)
\* What the port was told had lived as long as it may when it was told.
TooOld(p) ==
  prio[p].infoIs = "Received" /\ ~ (prio[p].portTimes.MessageAge < prio[p].portTimes.MaxAge)

\* From reading a frame to aging what it said, port information runs on.
AgedAtOnce(p) ==
  /\ At("info", p) = "RECEIVE" \/ TooOld(p)
       => /\ cur = PortMachine("info", p)
          /\ ~ sel[p].updtInfo /\ ~ rcv[p].rcvdBpdu
  /\ TooOld(p) => At("info", p) \in {"SUPERIOR", "CURRENT"}

\* Port information has not come to rest when it must age what it has.
LEMMA AgingMoves ==
  ASSUME TypeOK, NEW p \in Port, KeptInTime(p), AgedAtOnce(p),
         At("info", p) = "RECEIVE" \/ TooOld(p)
  PROVE  /\ InfoNext(p) # Stay
         /\ At("info", p) = "CURRENT" => InfoNext(p) \in {"DISABLED", "AGED"}
<1>1. At("info", p) \in {"RECEIVE", "SUPERIOR", "CURRENT"}
  BY DEF AgedAtOnce
<1>2. CASE At("info", p) # "CURRENT"
  BY <1>1, <1>2 DEF InfoNext, Stay, BEGIN
<1>3. CASE At("info", p) = "CURRENT"
  <2>1. TooOld(p) /\ ~ sel[p].updtInfo /\ ~ rcv[p].rcvdBpdu
    BY <1>3 DEF AgedAtOnce
  <2>2. prio[p].portTimes \in Times /\ timer[p].rcvdInfoWhile \in Nat
    BY PortTypes DEF TypeOK, NetOK, Information, Timers
  <2>3. timer[p].rcvdInfoWhile = 0
    <3>1. /\ InfoLifetime(prio[p].portTimes) \in Nat
          /\ InfoLifetime(prio[p].portTimes) > 0
               => prio[p].portTimes.MessageAge < prio[p].portTimes.MaxAge
      BY <2>2, LifetimeBounds DEF Times
    <3> QED BY <2>1, <2>2, <3>1 DEF KeptInTime, TooOld
  <2>4. InfoExpired(p)
    BY <2>1, <2>3 DEF InfoExpired, TooOld
  <2> QED BY <1>3, <2>1, <2>4 DEF InfoNext, Stay, BEGIN
<1> QED BY <1>2, <1>3

\* So no other machine is chosen before it has.
LEMMA AgingFirst ==
  ASSUME TypeOK, NEW p \in Port, KeptInTime(p), AgedAtOnce(p), NEW m \in Chosen(Active),
         m # PortMachine("info", p)
  PROVE  At("info", p) # "RECEIVE" /\ ~ TooOld(p)
<1> SUFFICES ASSUME At("info", p) = "RECEIVE" \/ TooOld(p)
             PROVE  FALSE
  OBVIOUS
<1>1. cur = PortMachine("info", p) /\ cur # NoMachine
  BY DEF AgedAtOnce, PortMachine, NoMachine
<1>2. NextState(cur) = InfoNext(p)
  BY <1>1 DEF NextState, PortMachine
<1> QED BY <1>1, <1>2, AgingMoves DEF Chosen

\* Port information keeps it so.
LEMMA InfoAges ==
  ASSUME TypeOK, NEW p \in Port, KeptInTime(p), NewsRight(p), AgedAtOnce(p),
         InfoNext(p) # Stay, InfoEnter(p, InfoNext(p)), At("info", p)' = InfoNext(p),
         cur' = PortMachine("info", p)
  PROVE  AgedAtOnce(p)'
<1> DEFINE s == InfoNext(p)
<1>1. /\ prio \in [Port -> Information] /\ prio[p] \in Information
      /\ rcv \in [Port -> Reception] /\ sel \in [Port -> Selection]
  BY DEF TypeOK, StateOK
<1>2. s = "ENABLED" => At("info", p) = "DISABLED"
  BY DEF InfoNext, Stay
<1>3. s = "SUPERIOR" => At("info", p) = "RECEIVE"
  BY DEF InfoNext, Stay
<1>4. s \in {"REPEAT", "AGREEMENT"} => At("info", p) = "RECEIVE"
  BY DEF InfoNext, Stay
<1>5. s = "RECEIVE" => At("info", p) = "CURRENT" /\ ~ sel[p].updtInfo
  BY DEF InfoNext, Stay
<1>6. At("info", p) = "CURRENT" => ~ TooOld(p) \/ s \in {"DISABLED", "AGED"}
  BY AgingMoves
<1>7. InfoEnter(p, s) /\ At("info", p)' = s
  OBVIOUS
<1> HIDE DEF s
<1>8. CASE s \in {"DISABLED", "ENABLED", "AGED", "UPDATE"}
  <2>1. prio'[p].infoIs # "Received"
    <3>1. CASE s = "DISABLED"
      <4>1. prio' = [prio EXCEPT ![p].infoIs = "Disabled"]
        BY <1>7, <3>1 DEF InfoEnter, InfoAged, InfoDisabled
      <4> QED BY <1>1, <4>1 DEF Information
    <3>2. CASE s = "ENABLED"
      <4>1. prio' = [prio EXCEPT ![p].portPrio = prio[p].designPrio,
                                 ![p].portTimes = prio[p].designTimes]
        BY <1>7, <3>2 DEF InfoEnter, InfoAged
      <4> QED BY <1>1, <1>2, <3>2, <4>1 DEF Information, NewsRight
    <3>3. CASE s = "AGED"
      <4>1. prio' = [prio EXCEPT ![p].infoIs = "Aged"]
        BY <1>7, <3>3 DEF InfoEnter, InfoAged
      <4> QED BY <1>1, <4>1 DEF Information
    <3>4. CASE s = "UPDATE"
      <4>1. prio' = [prio EXCEPT ![p].portPrio = prio[p].designPrio,
                                 ![p].portTimes = prio[p].designTimes,
                                 ![p].infoIs = "Mine"]
        BY <1>7, <3>4 DEF InfoEnter, InfoAged, InfoUpdate
      <4> QED BY <1>1, <4>1 DEF Information
    <3> QED BY <1>8, <3>1, <3>2, <3>3, <3>4
  <2> QED BY <1>7, <1>8, <2>1 DEF AgedAtOnce, TooOld
<1>9. CASE s = "RECEIVE"
  <2>1. /\ prio' = prio /\ sel' = sel
        /\ rcv' = [rcv EXCEPT ![p].rcvdMsg = RcvBpdu(p), ![p].rcvdBpdu = FALSE,
                              ![p].rcvdSTP = @ \/ rcv[p].msg.type \in {"TCN", "Config"},
                              ![p].rcvdRSTP = @ \/ rcv[p].msg.type = "RSTP"]
    BY <1>7, <1>9 DEF InfoEnter, InfoAged, InfoReceive
  <2>2. ~ rcv'[p].rcvdBpdu
    BY <1>1, <2>1 DEF Reception
  <2>3. ~ TooOld(p)'
    BY <1>5, <1>6, <1>9, <2>1 DEF TooOld
  <2> QED BY <1>5, <1>9, <2>1, <2>2, <2>3 DEF AgedAtOnce
<1>10. CASE s = "SUPERIOR"
  <2>1. ~ sel[p].updtInfo /\ ~ rcv[p].rcvdBpdu
    BY <1>3, <1>10 DEF AgedAtOnce
  <2>2. sel' = [sel EXCEPT ![p].reselect = TRUE, ![p].selected = FALSE] /\ rcv' = rcv
    BY <1>7, <1>10 DEF InfoEnter, InfoAged, InfoSuperior
  <2>3. ~ sel'[p].updtInfo /\ ~ rcv'[p].rcvdBpdu
    BY <1>1, <2>1, <2>2 DEF Selection
  <2> QED BY <1>7, <1>10, <2>3 DEF AgedAtOnce
<1>11. CASE s \in {"REPEAT", "AGREEMENT"}
  <2>1. prio' = prio
    BY <1>7, <1>11 DEF InfoEnter, InfoAged
  <2>2. ~ TooOld(p)'
    BY <1>4, <1>11, <2>1 DEF AgedAtOnce, TooOld
  <2> QED BY <1>7, <1>11, <2>2 DEF AgedAtOnce
<1>12. CASE s = "CURRENT"
  <2>1. prio' = prio /\ sel' = sel /\ rcv' = rcv
    BY <1>7, <1>12 DEF InfoEnter, InfoAged
  <2> QED BY <1>7, <1>12, <2>1 DEF AgedAtOnce, TooOld
<1> QED BY <1>7, <1>8, <1>9, <1>10, <1>11, <1>12 DEF InfoEnter, InfoAged

\* So does every other machine.
LEMMA MachineAges ==
  ASSUME TypeOK, NEW m \in Chosen(Active), m \in Machine, NextState(m) # Stay,
         RunMachine(m, NextState(m)),
         NEW q \in Port, KeptInTime(q), NewsRight(q), AgedAtOnce(q)
  PROVE  AgedAtOnce(q)'
<1>1. cur' = m
  BY DEF RunMachine
<1>2. At("info", q)' = IF m[1] = "info" /\ m[2] = q THEN NextState(m) ELSE At("info", q)
  BY Hops, Kinds
<1>3. CASE m[1] = "info" /\ m[2] = q
  <2>1. NextState(m) = InfoNext(q) /\ InfoEnter(q, InfoNext(q))
    BY <1>3 DEF NextState, RunMachine
  <2>2. m = PortMachine("info", q)
    BY <1>3, MachineCases, Kinds
  <2> QED BY <1>1, <1>2, <1>3, <2>1, <2>2, InfoAges
<1>4. CASE ~ (m[1] = "info" /\ m[2] = q)
  <2>1. At("info", q) # "RECEIVE" /\ ~ TooOld(q)
    BY <1>4, AgingFirst DEF PortMachine
  <2>2. /\ prio'[q].infoIs = prio[q].infoIs /\ prio'[q].portTimes = prio[q].portTimes
    BY <1>4, NewsWriter DEF NewsKept
  <2> QED BY <1>2, <1>4, <2>1, <2>2 DEF AgedAtOnce, TooOld
<1> QED BY <1>3, <1>4

\* Between updates, and at the end of one, there is nothing to be aged.
LEMMA NothingToAge ==
  ASSUME TypeOK, RunsHome, Idle \/ UpdateDone, NEW p \in Port, KeptInTime(p), AgedAtOnce(p)
  PROVE  At("info", p) # "RECEIVE" /\ ~ TooOld(p)
<1> SUFFICES ASSUME At("info", p) = "RECEIVE" \/ TooOld(p)
             PROVE  FALSE
  OBVIOUS
<1>1. cur = PortMachine("info", p) /\ cur # NoMachine
  BY DEF AgedAtOnce, PortMachine, NoMachine
<1>2. NextState(cur) = InfoNext(p)
  BY <1>1 DEF NextState, PortMachine
<1>3. UpdateDone /\ cur \in MachinesOf[Active]
  BY <1>1 DEF RunsHome, Idle
<1> QED BY <1>2, <1>3, AgingMoves DEF UpdateDone

TimeInv ==
  SettledInv /\ RunsHome /\ \A p \in Port : KeptInTime(p) /\ AgedAtOnce(p)

\* Nothing was told at start-up, and every step keeps it in time.
LEMMA InitTime == Init => TimeInv
<1> SUFFICES ASSUME Init
             PROVE  TimeInv
  OBVIOUS
<1>1. InitState(phys) /\ cur = NoMachine
  BY DEF Init
<1>2. ASSUME NEW p \in Port
      PROVE  KeptInTime(p) /\ AgedAtOnce(p)
  <2>1. prio[p].infoIs = "Disabled"
    BY <1>1 DEF InitState
  <2>2. At("info", p) = BEGIN
    <3>1. PortMachine("info", p) \in Machine
      BY Kinds DEF PortMachine, Machine
    <3> QED BY <1>1, <3>1 DEF InitState, At
  <2> QED BY <2>1, <2>2 DEF KeptInTime, AgedAtOnce, TooOld, BEGIN
<1> QED BY <1>1, <1>2, InitSettled DEF TimeInv, RunsHome

LEMMA NextKeepsTime == TimeInv /\ [Next]_vars => TimeInv'
<1> SUFFICES ASSUME TimeInv, [Next]_vars
             PROVE  TimeInv'
  OBVIOUS
<1>1. SettledInv' /\ RunsHome'
  BY NextKeepsSettled, NextKeepsHome DEF TimeInv, SettledInv
<1>2. ASSUME NEW q \in Port
      PROVE  KeptInTime(q)' /\ AgedAtOnce(q)'
  <2>1. TypeOK /\ RunsHome /\ NewsRight(q) /\ KeptInTime(q) /\ AgedAtOnce(q)
    BY DEF TimeInv, SettledInv, PortRight
  <2>2. CASE MachineStep
    <3>1. PICK m \in Chosen(Active) : RunMachine(m, NextState(m))
      BY <2>2 DEF MachineStep
    <3>2. m \in Machine /\ NextState(m) # Stay
      BY <2>1, <2>2, ChosenType DEF MachineStep, TypeOK
    <3> QED BY <2>1, <3>1, <3>2, MachineKeepsTime, MachineAges
  <2>3. CASE Event
    <3>1. Idle /\ st' = st /\ prio' = prio
      BY <2>3, EventFindsRest DEF Event, PollLink, Tick, RxBpdu
    <3>2. At("info", q) # "RECEIVE" /\ ~ TooOld(q)
      BY <2>1, <3>1, NothingToAge
    <3> QED BY <2>1, <2>3, <3>1, <3>2, EventKeepsTime DEF AgedAtOnce, TooOld, At
  <2>4. CASE UpdateDone
    <3>1. UNCHANGED stateVars
      BY <2>4 DEF UpdateDone
    <3>2. At("info", q) # "RECEIVE" /\ ~ TooOld(q)
      BY <2>1, <2>4, NothingToAge
    <3> QED BY <2>1, <3>1, <3>2 DEF stateVars, KeptInTime, AgedAtOnce, TooOld, At
  <2>5. CASE Environment \/ UNCHANGED vars
    <3>1. UNCHANGED <<stateVars, cur>>
      BY <2>5 DEF Environment, LinkChange, ForeignFrame, vars, stateVars
    <3> QED BY <2>1, <3>1 DEF stateVars, KeptInTime, AgedAtOnce, TooOld, At
  <2> QED BY <2>2, <2>3, <2>4, <2>5 DEF Next, System
<1> QED BY <1>1, <1>2 DEF TimeInv

\* When a machine other than port information runs, no port has news that is
\* too old; neither has one between updates.
LEMMA NoneTooOld ==
  ASSUME TimeInv
  PROVE  /\ \A m \in Chosen(Active) : m[1] # "info" => \A p \in Port : ~ TooOld(p)
         /\ Idle => \A p \in Port : ~ TooOld(p)
<1>1. TypeOK /\ RunsHome /\ \A p \in Port : KeptInTime(p) /\ AgedAtOnce(p)
  BY DEF TimeInv, SettledInv
<1>2. ASSUME NEW m \in Chosen(Active), m[1] # "info", NEW p \in Port
      PROVE  ~ TooOld(p)
  <2>1. m # PortMachine("info", p)
    BY <1>2 DEF PortMachine
  <2> QED BY <1>1, <2>1, AgingFirst
<1> QED BY <1>1, <1>2, NothingToAge

-----------------------------------------------------------------------------
(***************************************************************************)
(* Claims about the root.                                                  *)
(***************************************************************************)
\* What the slowest link costs, and how old a bridge's news of the root can be:
\* MaxMaxAge, one second to go, and what a bridge adds.
MaxCableCost == 20000000
MaxHeldAge   == 42

\* Bridge b may claim that root r is this far: no bound of the distance, in
\* all the naturals, says it is further; and it is no further than links of the
\* slowest kind lead in that time, beyond what a device outside may have said.
MayClaim(b, r, cost, age) ==
  /\ r \in KnownRoots
  /\ cost <= MaxClaim + MaxCableCost * age
  /\ \A D \in [Bridge -> Nat] : IsDistance(D, r, CableCost, ClaimedCost) => D[b] <= cost
  /\ \A D \in [Bridge -> Nat] : IsDistance(D, r, CableHop, ClaimedAge) => D[b] <= age

\* Vector v, of age t, is a claim of bridge b.
Held(b, v, t) ==
  /\ MayClaim(b, RootBridge(v), RootPathCost(v), t.MessageAge)
  /\ t.MaxAge <= MaxMaxAge /\ t.MessageAge <= MaxHeldAge

\* It becomes a claim of p's bridge when the length of p's link is added.
Arrives(p, v, t) ==
  /\ MayClaim(Owner[p], RootBridge(v), RootPathCost(v) + CableCost[p], t.MessageAge + 1)
  /\ t.MaxAge <= MaxMaxAge

\* It may be heard at both ends of the link of p.
OnLink(p, v, t) == Arrives(p, v, t) /\ Arrives(Peer[p], v, t)

\* No cable is free of cost, and none costs more than the slowest.
LEMMA CableCostType ==
  \A p \in Port : CableCost[p] \in Nat /\ CableCost[p] >= 1 /\ CableCost[p] <= MaxCableCost
<1> SUFFICES ASSUME NEW p \in Port
             PROVE  CableCost[p] \in Nat /\ CableCost[p] >= 1 /\ CableCost[p] <= MaxCableCost
  OBVIOUS
<1>1. Speed[p] \in Nat
  BY TimesAssumption
<1>2. /\ AutoPCost(Speed[p]) \in Nat /\ AutoPCost(Speed[p]) >= 1
      /\ AutoPCost(Speed[p]) <= MaxCableCost
  BY <1>1, SMT DEF AutoPCost, MaxCableCost
<1> QED BY <1>2 DEF CableCost

\* A bridge may claim to be the root itself.
LEMMA OwnClaim ==
  ASSUME NEW b \in Bridge
  PROVE  MayClaim(b, b, 0, 0)
BY DEF MayClaim, IsDistance, KnownRoots, MaxClaim, MaxCableCost

\* A claim stays true when the root is said to be further away.
LEMMA FurtherClaim ==
  ASSUME NEW b \in Bridge, NEW r, NEW cost \in Nat, NEW age \in Nat,
         MayClaim(b, r, cost, age),
         NEW c \in Nat, NEW a \in Nat, cost <= c, age <= a,
         c <= MaxClaim + MaxCableCost * a
  PROVE  MayClaim(b, r, c, a)
BY DEF MayClaim

\* A claim of a bridge may be heard at both ends of its links.
LEMMA HeldOnLink ==
  ASSUME NEW p \in Port, NEW v \in Vector, NEW t \in Times, Held(Owner[p], v, t)
  PROVE  OnLink(p, v, t)
<1> DEFINE r == RootBridge(v)
           cost == RootPathCost(v)
           age == t.MessageAge
           q == Peer[p]
<1>1. cost \in Nat /\ age \in Nat
  BY DEF RootPathCost, Vector, Times
<1>2. /\ q \in Port /\ Peer[q] = p /\ Owner[p] \in Bridge /\ Owner[q] \in Bridge
      /\ CableCost[p] \in Nat /\ CableCost[q] \in Nat
      /\ CableHop[p] = 1 /\ CableHop[q] = 1
  BY PeerAssumption, PortAssumption, CableCostType DEF CableHop
<1>3. MayClaim(Owner[p], r, cost, age) /\ t.MaxAge <= MaxMaxAge
  BY DEF Held
<1> HIDE DEF r, cost, age, q
<1>4. ASSUME NEW k \in {p, q}
      PROVE  cost + CableCost[k] <= MaxClaim + MaxCableCost * (age + 1)
  <2>1. CableCost[k] \in Nat /\ CableCost[k] <= MaxCableCost
    BY <1>2, CableCostType
  <2> QED BY <1>1, <1>3, <2>1 DEF MayClaim, MaxClaim, MaxCableCost
<1>5. MayClaim(Owner[p], r, cost + CableCost[p], age + 1)
  <2>1. cost + CableCost[p] <= MaxClaim + MaxCableCost * (age + 1)
    BY <1>4
  <2> QED BY <1>1, <1>2, <1>3, <2>1, FurtherClaim
<1>6. MayClaim(Owner[q], r, cost + CableCost[q], age + 1)
  <2>1. ASSUME NEW D \in [Bridge -> Nat], IsDistance(D, r, CableCost, ClaimedCost)
        PROVE  D[Owner[q]] <= cost + CableCost[q]
    <3>1. D[Owner[q]] <= D[Owner[p]] + CableCost[q]
      BY <1>2, <2>1 DEF IsDistance
    <3>2. D[Owner[p]] <= cost
      BY <1>3, <2>1 DEF MayClaim
    <3> QED BY <1>1, <1>2, <3>1, <3>2
  <2>2. ASSUME NEW D \in [Bridge -> Nat], IsDistance(D, r, CableHop, ClaimedAge)
        PROVE  D[Owner[q]] <= age + 1
    <3>1. D[Owner[q]] <= D[Owner[p]] + 1
      BY <1>2, <2>2 DEF IsDistance
    <3>2. D[Owner[p]] <= age
      BY <1>3, <2>2 DEF MayClaim
    <3> QED BY <1>1, <1>2, <3>1, <3>2
  <2>3. cost + CableCost[q] <= MaxClaim + MaxCableCost * (age + 1)
    BY <1>4
  <2> QED BY <1>3, <2>1, <2>2, <2>3 DEF MayClaim
<1> QED BY <1>3, <1>5, <1>6 DEF OnLink, Arrives, r, cost, age, q

\* What may be heard at one end of a link may be heard at the other.
LEMMA OnLinkBothEnds ==
  ASSUME NEW p \in Port, NEW v, NEW t, OnLink(p, v, t)
  PROVE  OnLink(Peer[p], v, t)
BY PeerAssumption DEF OnLink

\* A frame from outside may be heard where it comes in.
LEMMA ForeignOnLink ==
  ASSUME NEW p \in Port, Peer[p] = p, NEW m \in Foreign, m.type # "TCN"
  PROVE  OnLink(p, m.vec, m.times)
<1> DEFINE r == RootBridge(m.vec)
<1>1. r \in KnownRoots
  BY DEF KnownRoots
<1>2. CableHop[p] = 1 /\ ClaimedCost[m] = RootPathCost(m.vec)
      /\ ClaimedAge[m] = m.times.MessageAge
  BY DEF CableHop, ClaimedCost, ClaimedAge
<1>3. ASSUME NEW D \in [Bridge -> Nat], IsDistance(D, r, CableCost, ClaimedCost)
      PROVE  D[Owner[p]] <= RootPathCost(m.vec) + CableCost[p]
  BY <1>2, <1>3 DEF IsDistance
<1>4. ASSUME NEW D \in [Bridge -> Nat], IsDistance(D, r, CableHop, ClaimedAge)
      PROVE  D[Owner[p]] <= m.times.MessageAge + 1
  BY <1>2, <1>4 DEF IsDistance
<1>5. /\ RootPathCost(m.vec) + CableCost[p] <= MaxClaim + MaxCableCost * (m.times.MessageAge + 1)
      /\ m.times.MaxAge <= MaxMaxAge
  <2>1. RootPathCost(m.vec) <= MaxClaim /\ m.times.MaxAge <= MaxMaxAge
    BY CostAssumption
  <2>2. RootPathCost(m.vec) \in Nat /\ m.times.MessageAge \in Nat
    BY EnvironmentAssumption DEF Bpdu, Vector, Times, RootPathCost
  <2>3. CableCost[p] \in Nat /\ CableCost[p] <= MaxCableCost
    BY CableCostType
  <2> QED BY <2>1, <2>2, <2>3 DEF MaxClaim, MaxCableCost
<1>6. Arrives(p, m.vec, m.times)
  BY <1>1, <1>3, <1>4, <1>5 DEF Arrives, MayClaim
<1> QED BY <1>6 DEF OnLink

\* The port a frame is received on leaves its claim alone.
LEMMA ReceivedOnLink ==
  ASSUME NEW p, NEW v \in Vector, NEW t, NEW n, OnLink(p, v, t)
  PROVE  OnLink(p, ReceivedBy(v, n), t)
<1>1. RootBridge(ReceivedBy(v, n)) = RootBridge(v)
      /\ RootPathCost(ReceivedBy(v, n)) = RootPathCost(v)
  BY DEF ReceivedBy, RootBridge, RootPathCost
<1> QED BY <1>1 DEF OnLink, Arrives

\* The vector a port would advertise makes the same claim as the root vector.
LEMMA DesignHeld ==
  ASSUME NEW b, NEW p, NEW v, NEW t, Held(b, v, t)
  PROVE  Held(b, DesignPrioFor(p, v), t)
<1>1. RootBridge(DesignPrioFor(p, v)) = RootBridge(v)
      /\ RootPathCost(DesignPrioFor(p, v)) = RootPathCost(v)
  BY DEF DesignPrioFor, MakeVector, RootBridge, RootPathCost
<1> QED BY <1>1 DEF Held

\* So does the bridge's own.
LEMMA OwnHeld ==
  ASSUME NEW b \in Bridge
  PROVE  Held(b, OwnPrio(b), BrTimes[b])
<1>1. RootBridge(OwnPrio(b)) = b /\ RootPathCost(OwnPrio(b)) = 0
  BY DEF OwnPrio, MakeVector, RootBridge, RootPathCost
<1>2. BrTimes[b].MessageAge = 0 /\ BrTimes[b].MaxAge <= MaxMaxAge
  BY TimesAssumption, CostAssumption
<1> QED BY <1>1, <1>2, OwnClaim DEF Held, MaxHeldAge

\* What a bridge holds is near the root.
LEMMA HeldNear ==
  ASSUME NEW b, NEW v \in Vector, NEW t \in Times, Held(b, v, t)
  PROVE  Near(v)
<1>1. RootPathCost(v) \in Nat /\ t.MessageAge \in Nat
  BY DEF RootPathCost, Vector, Times
<1> QED BY <1>1 DEF Held, MayClaim, Near, MaxClaim, MaxCableCost, MaxHeldAge, MaxInt

\* So is what a port was told in time, the length of the link included.
LEMMA ArrivesNear ==
  ASSUME NEW p \in Port, NEW v \in Vector, NEW t \in Times, Arrives(p, v, t),
         t.MessageAge < t.MaxAge
  PROVE  /\ Near(AddCost(v, CableCost[p])) /\ Near(v)
         /\ AgeOneHop(t).MessageAge <= MaxHeldAge
<1>1. RootPathCost(v) \in Nat /\ t.MessageAge \in Nat /\ t.MaxAge \in Nat
  BY DEF RootPathCost, Vector, Times
<1>2. CableCost[p] \in Nat
  BY CableCostType
<1>3. RootPathCost(AddCost(v, CableCost[p])) = RootPathCost(v) + CableCost[p]
  BY DEF AddCost, RootPathCost
<1>4. t.MessageAge <= 39 /\ t.MaxAge <= 40
  BY <1>1 DEF Arrives, MaxMaxAge
<1>5. RootPathCost(v) + CableCost[p] <= MaxInt
  BY <1>1, <1>2, <1>4 DEF Arrives, MayClaim, MaxClaim, MaxCableCost, MaxInt
<1>6. AgeOneHop(t).MessageAge <= MaxHeldAge
  <2>1. (8 + t.MaxAge) \div 16 <= 3 /\ (8 + t.MaxAge) \div 16 \in Nat
    BY <1>1, <1>4
  <2>2. AtLeast1((8 + t.MaxAge) \div 16) <= 3
    BY <2>1 DEF AtLeast1
  <2>3. AtLeast1((8 + t.MaxAge) \div 16) \in Nat
    BY <2>1 DEF AtLeast1
  <2>4. AgeOneHop(t).MessageAge = t.MessageAge + AtLeast1((8 + t.MaxAge) \div 16)
    BY DEF AgeOneHop, Times
  <2> QED BY <1>1, <1>4, <2>2, <2>3, <2>4 DEF MaxHeldAge
<1> QED BY <1>1, <1>2, <1>3, <1>5, <1>6 DEF Near, MaxInt

-----------------------------------------------------------------------------
(***************************************************************************)
(* The path cost of a port is computed before its link can be used.        *)
(***************************************************************************)
\* Port information has seen the port enabled.
InUse(p) == At("info", p) \notin {BEGIN, "DISABLED"} \/ prio[p].infoIs # "Disabled"

CostSet(p) ==
  /\ At("edge", p) # BEGIN => At("pcost", p) # BEGIN
  /\ At("pcost", p) # BEGIN => adapt[p].operPCost = CableCost[p]
  /\ adapt[p].portEnabled \/ InUse(p) => At("edge", p) # BEGIN

\* A machine that keeps running has left the state it was created in.
HasBegun == cur \in Machine => st[cur] # BEGIN

\* The path cost machine of a port stands before its edge machine.
LEMMA PcostFirst ==
  ASSUME NEW p \in Port
  PROVE  ~ Precedes(PortMachine("edge", p), PortMachine("pcost", p))
<1>1. KindRank["edge"] = 6 /\ KindRank["pcost"] = 5
  <2>1. \A i \in 1 .. 9 : PortMachines[i] = "edge" <=> i = 6
    BY SMT DEF PortMachines
  <2>2. \A i \in 1 .. 9 : PortMachines[i] = "pcost" <=> i = 5
    BY SMT DEF PortMachines
  <2>3. /\ KindRank["edge"] = CHOOSE i \in 1 .. 9 : PortMachines[i] = "edge"
        /\ KindRank["pcost"] = CHOOSE i \in 1 .. 9 : PortMachines[i] = "pcost"
    BY Kinds DEF KindRank
  <2> QED BY <2>1, <2>2, <2>3
<1>2. PortId[p] \in Nat
  BY PortAssumption
<1> QED BY <1>1, <1>2 DEF Precedes, PortMachine

\* So the edge machine does not begin before the path cost is computed.
LEMMA EdgeBeginsLate ==
  ASSUME TypeOK, HasBegun, updating # {}, NEW p \in Port,
         PortMachine("edge", p) \in Chosen(Active), At("edge", p) = BEGIN
  PROVE  At("pcost", p) # BEGIN
<1> DEFINE m == PortMachine("edge", p)
           n == PortMachine("pcost", p)
<1>1. Active \in Bridge
  BY ActiveType DEF TypeOK
<1>2. cur # m
  BY Kinds DEF HasBegun, At, Machine, PortMachine
<1>3. m \in Movable(Active) /\ \A k \in Movable(Active) \ {m} : Precedes(m, k)
  BY <1>2 DEF Chosen, Movable
<1>4. n \in MachinesOf[Active]
  BY <1>1, <1>3, Kinds, BridgePorts DEF Movable, MachinesOf, PortMachine, RoleSelMachine
<1>5. SUFFICES ASSUME At("pcost", p) = BEGIN
               PROVE  FALSE
  OBVIOUS
<1>6. NextState(n) = "AUTO"
  BY <1>5 DEF NextState, PcostNext, PortMachine, BEGIN
<1>7. n \in Movable(Active) /\ n # m
  BY <1>4, <1>6 DEF Movable, Stay, PortMachine
<1> QED BY <1>3, <1>7, PcostFirst

\* Enabling is up to the edge machine, the cost to the path cost machine.
LEMMA AdaptWriters ==
  ASSUME TypeOK, NEW m \in Machine, NEW s, RunMachine(m, s), NEW q \in Port
  PROVE  /\ ~ (m[1] = "edge" /\ m[2] = q) => adapt'[q].portEnabled = adapt[q].portEnabled
         /\ IF m[1] = "pcost" /\ m[2] = q /\ s = "AUTO"
            THEN adapt'[q].operPCost = CableCost[q]
            ELSE adapt'[q].operPCost = adapt[q].operPCost
<1>1. adapt \in [Port -> Adaptation] /\ adapt[q] \in Adaptation
  BY DEF TypeOK, StateOK
<1>2. CASE m[1] = "pcost"
  <2>1. PcostEnter(m[2], s)
    BY <1>2 DEF RunMachine
  <2>2. CASE s = "AUTO" /\ m[2] = q
    <3>1. adapt'[q] = [adapt[q] EXCEPT !.operSpeed = Speed[q], !.usedSpeed = Speed[q],
                                       !.operPCost = CableCost[q]]
      BY <1>1, <2>1, <2>2 DEF PcostEnter, CableCost
    <3> QED BY <1>1, <1>2, <2>2, <3>1 DEF Adaptation
  <2>3. CASE ~ (s = "AUTO" /\ m[2] = q)
    <3>1. adapt'[q] = adapt[q]
      BY <1>1, <2>1, <2>3 DEF PcostEnter
    <3> QED BY <1>2, <2>3, <3>1
  <2> QED BY <2>2, <2>3
<1>3. CASE m[1] = "edge"
  <2>1. EdgeEnter(m[2], s)
    BY <1>3 DEF RunMachine
  <2>2. CASE m[2] # q
    <3>1. adapt'[q] = adapt[q]
      BY <1>1, <2>1, <2>2 DEF EdgeEnter
    <3> QED BY <1>3, <2>2, <3>1
  <2>3. CASE m[2] = q
    <3>1. adapt'[q].operPCost = adapt[q].operPCost
      BY <1>1, <2>1, <2>3 DEF EdgeEnter, Adaptation
    <3> QED BY <1>3, <2>3, <3>1
  <2> QED BY <2>2, <2>3
<1>4. CASE m[1] = "p2p"
  <2>1. P2pEnter(m[2], s)
    BY <1>4 DEF RunMachine
  <2>2. /\ adapt'[q].portEnabled = adapt[q].portEnabled
        /\ adapt'[q].operPCost = adapt[q].operPCost
    BY <1>1, <2>1 DEF P2pEnter, Adaptation
  <2> QED BY <1>4, <2>2
<1>5. CASE m[1] = "migrate"
  <2> DEFINE rstp == s = "SEND_RSTP"
  <2>1. \/ adapt' = adapt
        \/ adapt' = [adapt EXCEPT ![m[2]].initPm = TRUE]
        \/ adapt' = [adapt EXCEPT ![m[2]].initPm = FALSE, ![m[2]].sendRSTP = rstp]
    BY <1>5 DEF RunMachine, MigrateEnter
  <2> HIDE DEF rstp
  <2>2. /\ adapt'[q].portEnabled = adapt[q].portEnabled
        /\ adapt'[q].operPCost = adapt[q].operPCost
    BY <1>1, <2>1 DEF Adaptation
  <2> QED BY <1>5, <2>2
<1>6. CASE m[1] \notin {"pcost", "edge", "p2p", "migrate"}
  BY <1>6 DEF RunMachine, RoleSelEnter, TransmitEnter, SttransEnter, RoletrnsEnter,
              InfoEnter, InfoAged, TopochEnter
<1> QED BY <1>2, <1>3, <1>4, <1>5, <1>6

\* Every machine keeps it so.
LEMMA MachineKeepsCost ==
  ASSUME TypeOK, HasBegun, updating # {}, NEW m \in Chosen(Active),
         RunMachine(m, NextState(m)), NEW q \in Port, CostSet(q)
  PROVE  CostSet(q)'
<1> DEFINE s == NextState(m)
<1>1. m \in Machine /\ s # Stay /\ s # BEGIN
  BY ChosenType, NextStateType DEF TypeOK
<1>2. \A k \in PortKind : At(k, q)' = IF m[1] = k /\ m[2] = q THEN s ELSE At(k, q)
  BY <1>1, Hops
<1>3. /\ At("edge", q)' = IF m[1] = "edge" /\ m[2] = q THEN s ELSE At("edge", q)
      /\ At("pcost", q)' = IF m[1] = "pcost" /\ m[2] = q THEN s ELSE At("pcost", q)
      /\ At("info", q)' = IF m[1] = "info" /\ m[2] = q THEN s ELSE At("info", q)
  BY <1>2, Kinds
<1>4. At("edge", q)' # BEGIN => At("pcost", q)' # BEGIN
  <2>1. CASE m[1] = "edge" /\ m[2] = q /\ At("edge", q) = BEGIN
    <3>1. m = PortMachine("edge", q)
      BY <1>1, <2>1, MachineCases, Kinds
    <3>2. At("pcost", q) # BEGIN
      BY <2>1, <3>1, EdgeBeginsLate
    <3> QED BY <1>1, <1>3, <3>2
  <2> QED BY <1>1, <1>3, <2>1 DEF CostSet
<1>5. At("pcost", q)' # BEGIN => adapt'[q].operPCost = CableCost[q]
  <2>1. CASE m[1] = "pcost" /\ m[2] = q
    <3>1. s = PcostNext(q)
      BY <2>1 DEF NextState
    <3>2. At("pcost", q) = BEGIN => s = "AUTO"
      BY <3>1 DEF PcostNext, BEGIN
    <3> QED BY <1>1, <2>1, <3>2, AdaptWriters DEF CostSet
  <2> QED BY <1>1, <1>3, <2>1, AdaptWriters DEF CostSet
<1>6. adapt'[q].portEnabled \/ InUse(q)' => At("edge", q)' # BEGIN
  <2>1. At("edge", q) # BEGIN => At("edge", q)' # BEGIN
    BY <1>1, <1>3
  <2>2. CASE m[1] = "edge" /\ m[2] = q
    BY <1>1, <1>3, <2>2
  <2>3. CASE m[1] = "info" /\ m[2] = q
    <3>1. s = InfoNext(q) /\ InfoEnter(q, s)
      BY <2>3 DEF NextState, RunMachine
    <3>2. CASE adapt[q].portEnabled \/ InUse(q)
      BY <2>1, <3>2 DEF CostSet
    <3>3. CASE ~ adapt[q].portEnabled /\ ~ InUse(q)
      <4>1. s = "DISABLED"
        BY <1>1, <3>1, <3>3 DEF InfoNext, InUse, Stay
      <4> HIDE DEF s
      <4>2. prio'[q].infoIs = "Disabled"
        BY <3>1, <4>1, PortTypes DEF InfoEnter, InfoAged, InfoDisabled, TypeOK, StateOK, Information
      <4>3. ~ InUse(q)'
        BY <1>3, <2>3, <4>1, <4>2 DEF InUse
      <4>4. ~ adapt'[q].portEnabled
        BY <3>1, <3>3 DEF InfoEnter, InfoAged
      <4> QED BY <4>3, <4>4
    <3> QED BY <3>2, <3>3
  <2>4. CASE ~ (m[1] = "edge" /\ m[2] = q) /\ ~ (m[1] = "info" /\ m[2] = q)
    <3>1. adapt'[q].portEnabled = adapt[q].portEnabled
      BY <1>1, <2>4, AdaptWriters
    <3>2. prio'[q].infoIs = prio[q].infoIs
      BY <1>1, <2>4, NewsWriter DEF NewsKept
    <3>3. At("info", q)' = At("info", q)
      BY <1>3, <2>4
    <3> QED BY <2>1, <3>1, <3>2, <3>3 DEF CostSet, InUse
  <2> QED BY <2>2, <2>3, <2>4
<1> QED BY <1>4, <1>5, <1>6 DEF CostSet

-----------------------------------------------------------------------------
(***************************************************************************)
(* What a port knows and sends, and what its bridge makes of it.           *)
(***************************************************************************)
\* The port has never had a vector to compare or to send.
Fresh(p) ==
  /\ prio[p].infoIs = "Disabled"
  /\ At("info", p) \in {BEGIN, "DISABLED"}
  /\ sel[p].selectedRole \in {"Disabled", "NonStp"}
  /\ ctl[p].role \in {"Disabled", "NonStp"}
  /\ At("roletrns", p) \in IdleStates

PrioTold(p) == Fresh(p) \/ OnLink(p, prio[p].portPrio, prio[p].portTimes)

MsgTold(p) ==
  rcv[p].msg.type \in {"Config", "RSTP"} \/ rcv[p].rcvdMsg = "Superior"
    => OnLink(p, rcv[p].msg.vec, rcv[p].msg.times)

DesignTold(p) == Held(Owner[p], prio[p].designPrio, prio[p].designTimes)

WireTold(p) ==
  \A i \in 1 .. Len(wire[p]) :
    wire[p][i].type # "TCN" => OnLink(p, wire[p][i].vec, wire[p][i].times)

\* What the port is told and tells of the root can be true.
PortTold(p) == PrioTold(p) /\ MsgTold(p) /\ DesignTold(p)

\* So can what its bridge takes for the root, and the root is no worse.
BridgeTold(b, e) ==
  /\ Held(b, e.rootPrio, e.rootTimes)
  /\ RootBridge(e.rootPrio) <= b
  /\ RootBridge(e.rootPrio) = b <=> e.rootPortId = 0

\* A candidate gives a bridge a root that is better than the bridge.
LEMMA CandidateTold ==
  ASSUME TypeOK, NEW p \in Port, PrioTold(p), CostSet(p), NewsRight(p), ~ TooOld(p),
         p \in RootCandidates(Owner[p])
  PROVE  BridgeTold(Owner[p], ElectedThrough(p)) /\ Near(RootPathPrio(p))
<1> DEFINE v == prio[p].portPrio
           t == prio[p].portTimes
           b == Owner[p]
<1>1. v \in Vector /\ t \in Times /\ b \in Bridge /\ b \in Nat
  BY PortTypes, TimesAssumption DEF TypeOK, NetOK, Information
<1>2. prio[p].infoIs = "Received" /\ VecLess(RootPathPrio(p), OwnPrio(b))
  BY DEF RootCandidates
<1>3. adapt[p].operPCost = CableCost[p]
  BY <1>2 DEF CostSet, InUse
<1>4. CableCost[p] \in Nat /\ CableCost[p] >= 1
  BY CableCostType
<1>5. Arrives(p, v, t) /\ t.MessageAge < t.MaxAge
  BY <1>2 DEF PrioTold, Fresh, OnLink, TooOld
<1>6. /\ Near(AddCost(v, CableCost[p])) /\ AgeOneHop(t).MessageAge <= MaxHeldAge
      /\ AgeOneHop(t).MaxAge = t.MaxAge /\ t.MaxAge <= MaxMaxAge
  <2>1. AgeOneHop(t).MaxAge = t.MaxAge
    BY <1>1 DEF AgeOneHop, Times
  <2> QED BY <1>1, <1>5, <2>1, ArrivesNear DEF Arrives
<1>7. RootPathPrio(p) = AddCost(v, CableCost[p])
  BY <1>3 DEF RootPathPrio
<1>8. BridgePort(v) = PortId[p] /\ PortId[p] # 0
  BY <1>2, PortAssumption DEF NewsRight
<1> HIDE DEF v, t, b
<1>9. /\ RootBridge(AddCost(v, CableCost[p])) = RootBridge(v)
      /\ RootPathCost(AddCost(v, CableCost[p])) = RootPathCost(v) + CableCost[p]
      /\ BridgePort(AddCost(v, CableCost[p])) = BridgePort(v)
  BY DEF AddCost, RootBridge, RootPathCost, BridgePort
<1>10. RootBridge(v) < b
  <2>1. VecLess(AddCost(v, CableCost[p]), <<b, 0, b, 0, 0>>)
    BY <1>2, <1>7 DEF OwnPrio, MakeVector
  <2>2. v[1] \in Nat /\ v[2] + CableCost[p] >= 1 /\ v[2] + CableCost[p] \in Nat
    BY <1>1, <1>4 DEF Vector
  <2>3. ~ CostLess(v[2] + CableCost[p], 0)
    <3>1. v[2] + CableCost[p] <= MaxInt
      BY <1>6 DEF Near, AddCost, RootPathCost
    <3> QED BY <2>2, <3>1 DEF CostLess, MaxInt
  <2> QED BY <1>1, <2>1, <2>2, <2>3 DEF VecLess, AddCost, RootBridge
<1>11. Held(b, AddCost(v, CableCost[p]), AgeOneHop(t))
  <2>1. /\ AgeOneHop(t).MessageAge \in Nat /\ t.MessageAge + 1 \in Nat
        /\ t.MessageAge + 1 <= AgeOneHop(t).MessageAge
    BY <1>1 DEF AgeOneHop, AtLeast1, Times
  <2>2. RootPathCost(v) + CableCost[p] \in Nat
    BY <1>1, <1>4 DEF RootPathCost, Vector
  <2>3. MayClaim(b, RootBridge(v), RootPathCost(v) + CableCost[p], t.MessageAge + 1)
    BY <1>5 DEF Arrives, b
  <2> HIDE DEF AgeOneHop
  <2>4. RootPathCost(v) + CableCost[p] <= MaxClaim + MaxCableCost * AgeOneHop(t).MessageAge
    BY <2>1, <2>2, <2>3 DEF MayClaim, MaxClaim, MaxCableCost
  <2>5. MayClaim(b, RootBridge(v), RootPathCost(v) + CableCost[p], AgeOneHop(t).MessageAge)
    BY <1>1, <2>1, <2>2, <2>3, <2>4, FurtherClaim
  <2> QED BY <1>6, <1>9, <2>5 DEF Held
<1>12. RootBridge(v) \in Nat
  BY <1>1 DEF RootBridge, Vector
<1> QED BY <1>1, <1>6, <1>7, <1>8, <1>9, <1>10, <1>11, <1>12
       DEF BridgeTold, ElectedThrough, b, t, v

\* So does the election.
LEMMA ElectedTold ==
  ASSUME TypeOK, NEW b \in Bridge,
         \A p \in Port : PrioTold(p) /\ CostSet(p) /\ NewsRight(p) /\ ~ TooOld(p)
  PROVE  BridgeTold(b, Elected(b))
<1>1. CASE Elected(b) = [rootPrio |-> OwnPrio(b), rootTimes |-> BrTimes[b],
                         rootPortId |-> 0]
  <2>1. RootBridge(OwnPrio(b)) = b /\ b \in Nat
    BY TimesAssumption DEF OwnPrio, MakeVector, RootBridge
  <2> QED BY <1>1, <2>1, OwnHeld DEF BridgeTold
<1>2. ASSUME NEW p \in RootCandidates(b), p \in Port, Owner[p] = b,
             Elected(b) = ElectedThrough(p)
      PROVE  BridgeTold(b, Elected(b))
  BY <1>2, CandidateTold
<1> QED BY <1>1, <1>2, ElectedCases DEF TypeOK, NetOK

\* Role selection passes on what it elected, and leaves a fresh port fresh.
LEMMA RoleSelKeepsTold ==
  ASSUME TypeOK, NEW b \in Bridge, UpdtRolesBridge(b), rcv' = rcv,
         \A p \in Port : PrioTold(p) /\ CostSet(p) /\ NewsRight(p) /\ ~ TooOld(p),
         NEW q \in Port, PortTold(q),
         At("info", q)' = At("info", q), At("roletrns", q)' = At("roletrns", q)
  PROVE  PortTold(q)'
<1> DEFINE e == Elected(b)
<1>1. BridgeTold(b, e) /\ e \in RootKnown
  BY ElectedTold, ElectedType DEF TypeOK, NetOK
<1>2. /\ prio[q] \in Information /\ ctl[q] \in Control
  BY PortTypes DEF TypeOK, NetOK
<1>3. CASE Owner[q] # b
  <2>1. prio'[q] = prio[q] /\ ctl'[q] = ctl[q] /\ sel'[q] = sel[q]
    BY <1>3 DEF UpdtRolesBridge
  <2> QED BY <2>1 DEF PortTold, PrioTold, Fresh, MsgTold, DesignTold
<1>4. CASE Owner[q] = b
  <2>1. /\ sel'[q].selectedRole = RoleFor(q, e)
        /\ IF q \in NonStp THEN prio'[q] = prio[q]
           ELSE prio'[q] = [prio[q] EXCEPT !.designPrio = DesignPrioFor(q, e.rootPrio),
                                           !.designTimes = e.rootTimes]
        /\ IF q \notin NonStp THEN ctl'[q] = ctl[q]
           ELSE ctl'[q] = [ctl[q] EXCEPT !.role = "NonStp", !.learn = TRUE,
                                         !.forward = TRUE]
    BY <1>4 DEF UpdtRolesBridge
  <2> HIDE DEF e
  <2>2. /\ prio'[q].infoIs = prio[q].infoIs /\ prio'[q].portPrio = prio[q].portPrio
        /\ prio'[q].portTimes = prio[q].portTimes
        /\ IF q \in NonStp
           THEN prio'[q].designPrio = prio[q].designPrio
                /\ prio'[q].designTimes = prio[q].designTimes
           ELSE prio'[q].designPrio = DesignPrioFor(q, e.rootPrio)
                /\ prio'[q].designTimes = e.rootTimes
    BY <1>2, <2>1 DEF Information
  <2>3. ctl'[q].role = ctl[q].role \/ ctl'[q].role = "NonStp"
    BY <1>2, <2>1 DEF Control
  <2>4. prio[q].infoIs = "Disabled" => RoleFor(q, e) \in {"Disabled", "NonStp"}
    BY DEF RoleFor
  <2>5. PrioTold(q)'
    BY <2>1, <2>2, <2>3, <2>4 DEF PortTold, PrioTold, Fresh
  <2>6. DesignTold(q)'
    <3>1. Held(b, DesignPrioFor(q, e.rootPrio), e.rootTimes)
      BY <1>1, DesignHeld DEF BridgeTold
    <3> QED BY <1>4, <2>2, <3>1 DEF PortTold, DesignTold
  <2> QED BY <2>5, <2>6 DEF PortTold, MsgTold
<1> QED BY <1>3, <1>4

\* Role transitions keeps a fresh port fresh.
LEMMA RoletrnsKeepsFresh ==
  ASSUME TypeOK, NEW p \in Port, Fresh(p), RoletrnsNext(p) # Stay,
         RoletrnsEnter(p, RoletrnsNext(p)), At("roletrns", p)' = RoletrnsNext(p),
         At("info", p)' = At("info", p)
  PROVE  Fresh(p)'
<1> DEFINE s == RoletrnsNext(p)
<1>1. s \in {"INIT_PORT"} \cup BlockState
  <2>1. RoleEntryState(sel[p].selectedRole) \in {"BLOCK_PORT", Stay}
    BY DEF Fresh, RoleEntryState, BlockedRole
  <2>2. BlockedPortNext(p) \in {"BLOCKED_PORT", "BACKUP_PORT", Stay}
    BY DEF BlockedPortNext
  <2> QED BY <2>1, <2>2
     DEF Fresh, RoletrnsNext, IdleStates, BlockState, RootPass, DesgPass, BEGIN, Stay
<1>2. RoletrnsEnter(p, s) /\ At("roletrns", p)' = s
  OBVIOUS
<1> HIDE DEF s
<1>3. /\ s = "INIT_PORT" => sel'[p].selectedRole = "Disabled" /\ ctl'[p].role = "Disabled"
      /\ s # "INIT_PORT" => sel' = sel
      /\ s = "BLOCK_PORT" => ctl'[p].role = sel[p].selectedRole
      /\ s \notin {"INIT_PORT", "BLOCK_PORT", "ROOT_PORT", "DESIGNATED_PORT"}
           => ctl'[p].role = ctl[p].role
  <2>1. ASSUME s = "INIT_PORT"
        PROVE  ctl'[p].role = "Disabled"
    <3>1. ctl' = [ctl EXCEPT ![p].role = "Disabled", ![p].synced = FALSE,
                             ![p].sync = TRUE, ![p].reRoot = TRUE]
      BY <1>2, <2>1 DEF RoletrnsEnter
    <3> QED BY <3>1 DEF TypeOK, StateOK, Control
  <2> QED BY <1>2, <2>1, RoletrnsRole
<1>4. prio' = prio
  BY <1>2 DEF RoletrnsEnter
<1> QED BY <1>1, <1>2, <1>3, <1>4 DEF Fresh, IdleStates, BlockState

\* Port information keeps what the port is told, state by state.
LEMMA InfoKeepsTold ==
  ASSUME TypeOK, NEW p \in Port, PortTold(p), InfoNext(p) # Stay,
         InfoEnter(p, InfoNext(p)), At("info", p)' = InfoNext(p),
         At("roletrns", p)' = At("roletrns", p)
  PROVE  PortTold(p)'
<1> DEFINE s == InfoNext(p)
<1>1. /\ prio \in [Port -> Information] /\ prio[p] \in Information
      /\ rcv \in [Port -> Reception] /\ rcv[p] \in Reception /\ rcv[p].msg \in Bpdu
      /\ prio[p].designPrio \in Vector /\ prio[p].designTimes \in Times
  BY DEF TypeOK, StateOK, Information, Reception
<1>2. s = "SUPERIOR" => rcv[p].rcvdMsg = "Superior"
  BY DEF InfoNext, Stay
<1>3. Fresh(p) => s \in {"DISABLED", "ENABLED"}
  BY DEF InfoNext, Fresh, Stay, BEGIN
<1>4. InfoEnter(p, s) /\ At("info", p)' = s
  OBVIOUS
<1> HIDE DEF s
<1>5. /\ ctl'[p].role = ctl[p].role
      /\ sel'[p].selectedRole = sel[p].selectedRole
  BY <1>4, InfoSelection, OthersKeepDuty DEF DutyKept
<1>6. OnLink(p, prio[p].designPrio, prio[p].designTimes)
  BY <1>1, HeldOnLink DEF PortTold, DesignTold
<1>7. CASE s = "DISABLED"
  <2>1. /\ prio' = [prio EXCEPT ![p].infoIs = "Disabled"]
        /\ rcv' = [rcv EXCEPT ![p].rcvdBpdu = FALSE, ![p].rcvdRSTP = FALSE,
                              ![p].rcvdSTP = FALSE]
    BY <1>4, <1>7 DEF InfoEnter, InfoAged, InfoDisabled
  <2>2. /\ prio'[p].infoIs = "Disabled" /\ prio'[p].portPrio = prio[p].portPrio
        /\ prio'[p].portTimes = prio[p].portTimes
        /\ prio'[p].designPrio = prio[p].designPrio
        /\ prio'[p].designTimes = prio[p].designTimes
        /\ rcv'[p].msg = rcv[p].msg /\ rcv'[p].rcvdMsg = rcv[p].rcvdMsg
    BY <1>1, <2>1 DEF Information, Reception
  <2> QED BY <1>4, <1>5, <1>7, <2>2 DEF PortTold, PrioTold, Fresh, MsgTold, DesignTold
<1>8. CASE s \in {"ENABLED", "UPDATE"}
  <2>1. /\ rcv' = rcv
        /\ \/ prio' = [prio EXCEPT ![p].portPrio = prio[p].designPrio,
                                   ![p].portTimes = prio[p].designTimes]
           \/ prio' = [prio EXCEPT ![p].portPrio = prio[p].designPrio,
                                   ![p].portTimes = prio[p].designTimes,
                                   ![p].infoIs = "Mine"]
    BY <1>4, <1>8 DEF InfoEnter, InfoAged, InfoUpdate
  <2>2. /\ prio'[p].portPrio = prio[p].designPrio
        /\ prio'[p].portTimes = prio[p].designTimes
        /\ prio'[p].designPrio = prio[p].designPrio
        /\ prio'[p].designTimes = prio[p].designTimes
    BY <1>1, <2>1 DEF Information
  <2> QED BY <1>6, <2>1, <2>2 DEF PortTold, PrioTold, MsgTold, DesignTold
<1>9. CASE s = "AGED"
  <2>1. prio' = [prio EXCEPT ![p].infoIs = "Aged"] /\ rcv' = rcv
    BY <1>4, <1>9 DEF InfoEnter, InfoAged
  <2>2. /\ prio'[p].portPrio = prio[p].portPrio /\ prio'[p].portTimes = prio[p].portTimes
        /\ prio'[p].designPrio = prio[p].designPrio
        /\ prio'[p].designTimes = prio[p].designTimes
    BY <1>1, <2>1 DEF Information
  <2> QED BY <1>3, <1>9, <2>1, <2>2 DEF PortTold, PrioTold, MsgTold, DesignTold
<1>10. CASE s = "RECEIVE"
  <2> DEFINE verdict == RcvBpdu(p)
             stp == rcv[p].rcvdSTP \/ rcv[p].msg.type \in {"TCN", "Config"}
             rstp == rcv[p].rcvdRSTP \/ rcv[p].msg.type = "RSTP"
  <2>1. /\ prio' = prio
        /\ rcv'[p] = [rcv[p] EXCEPT !.rcvdMsg = verdict, !.rcvdBpdu = FALSE,
                                    !.rcvdSTP = stp, !.rcvdRSTP = rstp]
    BY <1>1, <1>4, <1>10 DEF InfoEnter, InfoAged, InfoReceive
  <2>2. verdict = "Superior" => rcv[p].msg.type \in {"Config", "RSTP"}
    BY DEF RcvBpdu, FromDesignated
  <2> HIDE DEF verdict, stp, rstp
  <2>3. rcv'[p].msg = rcv[p].msg /\ rcv'[p].rcvdMsg = verdict
    BY <1>1, <2>1 DEF Reception
  <2> QED BY <1>3, <1>10, <2>1, <2>2, <2>3 DEF PortTold, PrioTold, MsgTold, DesignTold
<1>11. CASE s = "SUPERIOR"
  <2>1. /\ prio' = [prio EXCEPT ![p].portPrio = rcv[p].msg.vec,
                                ![p].portTimes = rcv[p].msg.times,
                                ![p].infoIs = "Received"]
        /\ rcv' = rcv
    BY <1>4, <1>11 DEF InfoEnter, InfoAged, InfoSuperior
  <2>2. /\ prio'[p].portPrio = rcv[p].msg.vec /\ prio'[p].portTimes = rcv[p].msg.times
        /\ prio'[p].designPrio = prio[p].designPrio
        /\ prio'[p].designTimes = prio[p].designTimes
    BY <1>1, <2>1 DEF Information
  <2> QED BY <1>2, <1>11, <2>1, <2>2 DEF PortTold, PrioTold, MsgTold, DesignTold
<1>12. CASE s \in {"CURRENT", "REPEAT", "AGREEMENT"}
  <2>1. prio' = prio /\ rcv' = rcv
    BY <1>4, <1>12 DEF InfoEnter, InfoAged
  <2> QED BY <1>3, <1>12, <2>1 DEF PortTold, PrioTold, MsgTold, DesignTold
<1> QED BY <1>4, <1>7, <1>8, <1>9, <1>10, <1>11, <1>12 DEF InfoEnter, InfoAged

\* Only port information and role selection write a port's vectors.
LEMMA PrioWriter ==
  ASSUME TypeOK, NEW m \in Machine, NEW s, RunMachine(m, s), NEW q \in Port,
         m[1] # "rolesel", ~ (m[1] = "info" /\ m[2] = q)
  PROVE  prio'[q] = prio[q]
<1>1. prio \in [Port -> Information]
  BY DEF TypeOK, StateOK
<1>2. CASE m[1] = "info"
  BY <1>1, <1>2 DEF RunMachine, InfoEnter, InfoAged, InfoDisabled, InfoUpdate, InfoReceive,
                    InfoSuperior
<1>3. CASE m[1] # "info"
  BY <1>3 DEF RunMachine, TransmitEnter, SttransEnter, RoletrnsEnter, PcostEnter,
              EdgeEnter, P2pEnter, MigrateEnter, TopochEnter
<1> QED BY <1>2, <1>3

\* Every machine keeps what a port is told.
LEMMA MachineKeepsTold ==
  ASSUME TypeOK, NEW m \in Machine, NextState(m) # Stay,
         RunMachine(m, NextState(m)), m[1] # "info" => \A p \in Port : ~ TooOld(p),
         \A p \in Port : PortTold(p) /\ CostSet(p) /\ NewsRight(p), NEW q \in Port
  PROVE  PortTold(q)'
<1>1. /\ At("info", q)' = IF m[1] = "info" /\ m[2] = q THEN NextState(m) ELSE At("info", q)
      /\ At("roletrns", q)' = IF m[1] = "roletrns" /\ m[2] = q
                              THEN NextState(m) ELSE At("roletrns", q)
  BY Hops, Kinds
<1>2. CASE m[1] = "rolesel"
  <2>1. m[2] \in Bridge /\ UpdtRolesBridge(m[2]) /\ rcv' = rcv
    BY <1>2, MachineCases, Kinds DEF RunMachine, RoleSelEnter
  <2> QED BY <1>1, <1>2, <2>1, RoleSelKeepsTold DEF PortTold
<1>3. CASE m[1] = "info" /\ m[2] = q
  <2>1. NextState(m) = InfoNext(q) /\ InfoEnter(q, InfoNext(q))
    BY <1>3 DEF NextState, RunMachine
  <2> QED BY <1>1, <1>3, <2>1, InfoKeepsTold
<1>4. CASE m[1] # "rolesel" /\ ~ (m[1] = "info" /\ m[2] = q)
  <2>1. prio'[q] = prio[q] /\ rcv'[q].msg = rcv[q].msg /\ rcv'[q].rcvdMsg = rcv[q].rcvdMsg
    BY <1>4, PrioWriter, NewsWriter DEF NewsKept
  <2>2. Fresh(q) => Fresh(q)'
    <3>1. CASE m[1] = "roletrns" /\ m[2] = q
      <4>1. NextState(m) = RoletrnsNext(q) /\ RoletrnsEnter(q, RoletrnsNext(q))
        BY <3>1 DEF NextState, RunMachine
      <4> QED BY <1>1, <3>1, <4>1, RoletrnsKeepsFresh
    <3>2. CASE ~ (m[1] = "roletrns" /\ m[2] = q)
      <4>1. ctl'[q].role = ctl[q].role /\ sel'[q] = sel[q]
        BY <1>4, <3>2, DutyWriter, SelectionWriters DEF DutyKept
      <4> QED BY <1>1, <1>4, <2>1, <3>2, <4>1 DEF Fresh
    <3> QED BY <3>1, <3>2
  <2> QED BY <2>1, <2>2 DEF PortTold, PrioTold, MsgTold, DesignTold
<1> QED BY <1>2, <1>3, <1>4

\* Every machine keeps what a bridge takes for the root.
LEMMA MachineKeepsBridge ==
  ASSUME TypeOK, NEW m \in Machine, NEW s, RunMachine(m, s),
         m[1] # "info" => \A p \in Port : ~ TooOld(p),
         \A p \in Port : PortTold(p) /\ CostSet(p) /\ NewsRight(p),
         NEW b \in Bridge, BridgeTold(b, br[b])
  PROVE  BridgeTold(b, br[b])'
<1>1. br \in [Bridge -> RootKnown]
  BY DEF TypeOK, StateOK
<1>2. CASE m[1] = "rolesel"
  <2>1. m[2] \in Bridge /\ br' = [br EXCEPT ![m[2]] = Elected(m[2])]
    BY <1>2, MachineCases, Kinds DEF RunMachine, RoleSelEnter, UpdtRolesBridge
  <2>2. BridgeTold(m[2], Elected(m[2]))
    BY <1>2, <2>1, ElectedTold DEF PortTold
  <2>3. BridgeTold(b, br'[b])
    BY <1>1, <2>1, <2>2
  <2> QED BY <2>3 DEF BridgeTold
<1>3. CASE m[1] # "rolesel"
  <2>1. br' = br
    <3>1. CASE Port = {}
      BY <1>3, <3>1, MachineCases
    <3>2. CASE Port # {}
      BY <1>3, <3>2, SelectionWriters
    <3> QED BY <3>1, <3>2
  <2> QED BY <2>1 DEF BridgeTold
<1> QED BY <1>2, <1>3

\* What a port sends may be heard at the other end: a fresh port sends nothing.
LEMMA SentTold ==
  ASSUME TypeOK, NEW p \in Port, PortTold(p),
         TransmitNext(p) \in {"TRANSMIT_CONFIG", "TRANSMIT_RSTP"}
  PROVE  OnLink(Peer[p], prio[p].portPrio, prio[p].portTimes)
<1>1. ctl[p].role \in SendsRole
  BY DEF TransmitNext, Stay
<1>2. ~ Fresh(p)
  BY <1>1 DEF Fresh, SendsRole
<1> QED BY <1>2, OnLinkBothEnds DEF PortTold, PrioTold

\* A frame on the wire after a machine has run was there before, or a port
\* sends it to the other end of its link.
LEMMA AppendAdds ==
  ASSUME TypeOK, NEW p \in Port, NEW m \in Bpdu, Send(p, m), NEW q \in Port,
         NEW i \in 1 .. Len(wire'[q])
  PROVE  \/ \E j \in 1 .. Len(wire[q]) : wire'[q][i] = wire[q][j]
         \/ q = Peer[p] /\ p # q /\ p \in phys \ NonStp /\ wire'[q][i] = m
<1>1. wire \in [Port -> Seq(Bpdu)] /\ Peer[p] \in Port
  BY PeerAssumption DEF TypeOK
<1>2. CASE wire'[q] = wire[q]
  BY <1>2
<1>3. CASE q = Peer[p] /\ p # q /\ p \in phys \ NonStp /\ wire'[q] = Append(wire[q], m)
  <2>1. Len(wire'[q]) = Len(wire[q]) + 1 /\ Len(wire[q]) \in Nat
    BY <1>1, <1>3, AppendProperties, LenProperties
  <2>2. CASE i = Len(wire'[q])
    <3>1. wire'[q][i] = m
      BY <1>1, <1>3, <2>1, <2>2, AppendProperties
    <3> QED BY <1>3, <3>1
  <2>3. CASE i # Len(wire'[q])
    <3>1. i \in 1 .. Len(wire[q])
      BY <2>1, <2>3
    <3>2. wire'[q][i] = wire[q][i]
      BY <1>1, <1>3, <3>1, AppendProperties
    <3> QED BY <3>1, <3>2
  <2> QED BY <2>2, <2>3
<1> QED BY <1>1, <1>2, <1>3 DEF Send

LEMMA MachineSends ==
  ASSUME TypeOK, NEW m \in Machine, NextState(m) # Stay,
         RunMachine(m, NextState(m)), NEW q \in Port, NEW i \in 1 .. Len(wire'[q])
  PROVE  \/ \E j \in 1 .. Len(wire[q]) : wire'[q][i] = wire[q][j]
         \/ \E p \in phys \ NonStp :
              /\ p \in Port /\ q = Peer[p] /\ p # q /\ m = PortMachine("transmit", p)
              /\ \/ TransmitNext(p) = "TRANSMIT_CONFIG" /\ wire'[q][i] = BpduOf(p, "Config")
                 \/ TransmitNext(p) = "TRANSMIT_RSTP" /\ wire'[q][i] = BpduOf(p, "RSTP")
                 \/ TransmitNext(p) = "TRANSMIT_TCN" /\ wire'[q][i] = TcnBpdu
<1> DEFINE p == m[2]
           s == NextState(m)
<1>1. CASE m[1] = "transmit"
  <2>1. /\ p \in Port /\ s = TransmitNext(p) /\ TransmitEnter(p, s)
        /\ m = PortMachine("transmit", p)
    BY <1>1, MachineCases, Kinds DEF RunMachine, NextState
  <2>2. CASE s \in {"TRANSMIT_CONFIG", "TRANSMIT_RSTP"}
    <3> DEFINE f == BpduOf(p, IF s = "TRANSMIT_RSTP" THEN "RSTP" ELSE "Config")
    <3>1. Send(p, f)
      BY <2>1, <2>2 DEF TransmitEnter
    <3>2. f \in Bpdu
      BY <2>1, BpduOfType DEF TypeOK, NetOK
    <3>3. \/ f = BpduOf(p, "Config") /\ s = "TRANSMIT_CONFIG"
          \/ f = BpduOf(p, "RSTP") /\ s = "TRANSMIT_RSTP"
      BY <2>2
    <3>4. \/ \E j \in 1 .. Len(wire[q]) : wire'[q][i] = wire[q][j]
          \/ q = Peer[p] /\ p # q /\ p \in phys \ NonStp /\ wire'[q][i] = f
      <4> HIDE DEF p, f
      <4> QED BY <2>1, <3>1, <3>2, AppendAdds
    <3> QED BY <2>1, <3>3, <3>4
  <2>3. CASE s = "TRANSMIT_TCN"
    <3>1. Send(p, TcnBpdu) /\ TcnBpdu \in Bpdu
      BY <2>1, <2>3, NoBpduType DEF TransmitEnter
    <3>2. \/ \E j \in 1 .. Len(wire[q]) : wire'[q][i] = wire[q][j]
          \/ q = Peer[p] /\ p # q /\ p \in phys \ NonStp /\ wire'[q][i] = TcnBpdu
      <4> HIDE DEF p
      <4> QED BY <2>1, <3>1, AppendAdds
    <3> QED BY <2>1, <2>3, <3>2
  <2>4. CASE s \notin {"TRANSMIT_CONFIG", "TRANSMIT_RSTP", "TRANSMIT_TCN"}
    <3>1. wire' = wire
      BY <2>1, <2>4 DEF TransmitEnter
    <3> QED BY <3>1
  <2> QED BY <2>2, <2>3, <2>4
<1>2. CASE m[1] # "transmit"
  <2>1. wire' = wire
    BY <1>2 DEF RunMachine, RoleSelEnter, SttransEnter, RoletrnsEnter, InfoEnter, InfoAged,
                PcostEnter, EdgeEnter, P2pEnter, MigrateEnter, TopochEnter
  <2> QED BY <2>1
<1> QED BY <1>1, <1>2

\* Every machine keeps what is on the wire true.
LEMMA MachineKeepsWire ==
  ASSUME TypeOK, NEW m \in Machine, NextState(m) # Stay,
         RunMachine(m, NextState(m)),
         \A p \in Port : PortTold(p) /\ WireTold(p), NEW q \in Port
  PROVE  WireTold(q)'
<1>1. SUFFICES ASSUME NEW i \in 1 .. Len(wire'[q]), wire'[q][i].type # "TCN"
               PROVE  OnLink(q, wire'[q][i].vec, wire'[q][i].times)
  BY DEF WireTold
<1>2. CASE \E j \in 1 .. Len(wire[q]) : wire'[q][i] = wire[q][j]
  BY <1>1, <1>2 DEF WireTold
<1>3. ASSUME NEW p \in Port, q = Peer[p], NEW type,
             TransmitNext(p) \in {"TRANSMIT_CONFIG", "TRANSMIT_RSTP"},
             wire'[q][i] = BpduOf(p, type)
      PROVE  OnLink(q, wire'[q][i].vec, wire'[q][i].times)
  <2>1. wire'[q][i].vec = prio[p].portPrio /\ wire'[q][i].times = prio[p].portTimes
    BY <1>3 DEF BpduOf
  <2> QED BY <1>3, <2>1, SentTold
<1>4. TcnBpdu.type = "TCN"
  BY DEF TcnBpdu, NoBpdu
<1> QED BY <1>1, <1>2, <1>3, <1>4, MachineSends

-----------------------------------------------------------------------------
(***************************************************************************)
(* Events and the environment.                                             *)
(***************************************************************************)
\* Enabling a port is left to the edge machine, and its cost is not touched.
LEMMA EnableKeepsCost ==
  ASSUME TypeOK, NEW p \in Port, NEW enable, NEW a \in Adaptation,
         EnablePort(p, enable, a), a.portEnabled = adapt[p].portEnabled,
         a.operPCost = adapt[p].operPCost, NEW q \in Port
  PROVE  /\ adapt'[q].portEnabled = adapt[q].portEnabled
         /\ adapt'[q].operPCost = adapt[q].operPCost
<1>1. adapt \in [Port -> Adaptation]
  BY DEF TypeOK, StateOK
<1>2. CASE q # p
  BY <1>2, EnableStaysHome
<1>3. CASE q = p
  <2>1. \/ adapt'[p] = a
        \/ adapt'[p] = [a EXCEPT !.adminEnable = enable, !.sendRSTP = TRUE,
                                 !.operSpeed = Speed[p], !.p2p_recompute = TRUE]
    BY <1>1 DEF EnablePort
  <2> QED BY <1>3, <2>1 DEF Adaptation
<1> QED BY <1>2, <1>3

\* So does no event touch them.
LEMMA EventKeepsCost ==
  ASSUME TypeOK, Event, NEW q \in Port
  PROVE  /\ adapt'[q].portEnabled = adapt[q].portEnabled
         /\ adapt'[q].operPCost = adapt[q].operPCost
<1>1. \A p \in Port : adapt[p] \in Adaptation
  BY DEF TypeOK, StateOK
<1>2. ASSUME NEW p \in Port, PollLink(p)
      PROVE  /\ adapt'[q].portEnabled = adapt[q].portEnabled
             /\ adapt'[q].operPCost = adapt[q].operPCost
  BY <1>1, <1>2, EnableKeepsCost DEF PollLink
<1>3. ASSUME NEW p \in Port, RxBpdu(p)
      PROVE  /\ adapt'[q].portEnabled = adapt[q].portEnabled
             /\ adapt'[q].operPCost = adapt[q].operPCost
  <2> DEFINE a == [adapt[p] EXCEPT !.operEdge = FALSE, !.wasInitBpdu = TRUE]
  <2>1. /\ a \in Adaptation /\ a.portEnabled = adapt[p].portEnabled
        /\ a.operPCost = adapt[p].operPCost
    BY <1>1 DEF Adaptation
  <2>2. EnablePort(p, TRUE, a)
    BY <1>3 DEF RxBpdu
  <2> HIDE DEF a
  <2> QED BY <2>1, <2>2, EnableKeepsCost
<1>4. ASSUME NEW b \in Bridge, Tick(b)
      PROVE  adapt' = adapt
  BY <1>4 DEF Tick
<1> QED BY <1>2, <1>3, <1>4 DEF Event

\* A frame that is read is told at the port that reads it.
LEMMA RxKeepsMsg ==
  ASSUME TypeOK, NEW p \in Port, RxBpdu(p), WireTold(p), NEW q \in Port, MsgTold(q)
  PROVE  MsgTold(q)'
<1>1. /\ rcv \in [Port -> Reception] /\ rcv[p] \in Reception /\ rcv[p].msg \in Bpdu
      /\ wire[p] \in Seq(Bpdu)
  BY DEF TypeOK, StateOK, Reception
<1> DEFINE m == Head(wire[p])
           notice == [rcv[p].msg EXCEPT !.type = "TCN"]
           taken == [m EXCEPT !.vec = ReceivedBy(m.vec, PortId[p])]
           kept == IF m.type = "TCN" THEN notice ELSE taken
<1>2. rcv' = rcv \/ rcv' = [rcv EXCEPT ![p].rcvdBpdu = TRUE, ![p].msg = kept]
  BY DEF RxBpdu, KeepBpdu
<1>3. /\ 1 \in 1 .. Len(wire[p]) /\ wire[p][1] = m /\ m \in Bpdu
  BY <1>1, HeadTailProperties, LenProperties, ElementOfSeq, EmptySeq DEF RxBpdu
<1>4. CASE rcv'[q] = rcv[q]
  BY <1>4 DEF MsgTold
<1>5. CASE q = p /\ rcv' = [rcv EXCEPT ![p].rcvdBpdu = TRUE, ![p].msg = kept]
  <2>1. rcv'[p].msg = kept /\ rcv'[p].rcvdMsg = rcv[p].rcvdMsg
    BY <1>1, <1>5 DEF Reception
  <2>2. CASE m.type = "TCN"
    <3>1. /\ notice.type = "TCN" /\ notice.vec = rcv[p].msg.vec
          /\ notice.times = rcv[p].msg.times
      BY <1>1 DEF Bpdu
    <3> HIDE DEF notice
    <3> QED BY <1>5, <2>1, <2>2, <3>1 DEF MsgTold
  <2>3. CASE m.type # "TCN"
    <3>1. OnLink(p, m.vec, m.times)
      BY <1>3, <2>3 DEF WireTold
    <3> HIDE DEF m
    <3>2. taken.vec = ReceivedBy(m.vec, PortId[p]) /\ taken.times = m.times
          /\ m.vec \in Vector
      BY <1>3 DEF Bpdu
    <3>3. OnLink(p, taken.vec, taken.times)
      BY <3>1, <3>2, ReceivedOnLink
    <3> HIDE DEF taken
    <3> QED BY <1>5, <2>1, <2>3, <3>3 DEF MsgTold
  <2> QED BY <2>2, <2>3
<1> QED BY <1>1, <1>2, <1>4, <1>5

\* A touch that brings no false news leaves the port told the truth.
LEMMA TouchedStaysTold ==
  ASSUME NEW p \in Port, PortTold(p), Touched(p), MsgTold(p)'
  PROVE  PortTold(p)'
<1>1. At("info", p)' = At("info", p) /\ At("roletrns", p)' = At("roletrns", p)
  BY DEF Touched, At
<1>2. Fresh(p) => Fresh(p)'
  BY <1>1 DEF Touched, Fresh
<1> QED BY <1>2 DEF Touched, PortTold, PrioTold, DesignTold

\* Events bring no false news.
LEMMA EventKeepsTold ==
  ASSUME TypeOK, Event, NEW q \in Port, \A p \in Port : PortTold(p) /\ WireTold(p)
  PROVE  PortTold(q)'
<1>1. MsgTold(q)'
  <2>1. CASE rcv' = rcv
    BY <2>1 DEF PortTold, MsgTold
  <2>2. CASE \E p \in Port : RxBpdu(p)
    BY <2>2, RxKeepsMsg DEF PortTold
  <2> QED BY <2>1, <2>2 DEF Event, PollLink, Tick
<1> QED BY <1>1, EventTouches, TouchedStaysTold

\* Reading a frame, losing some with the link and hearing one from outside put
\* nothing on the wire of a link between two ports.
LEMMA OthersSendNothing ==
  ASSUME TypeOK, Event \/ Environment, NEW q \in Port, NEW i \in 1 .. Len(wire'[q])
  PROVE  \/ \E j \in 1 .. Len(wire[q]) : wire'[q][i] = wire[q][j]
         \/ Peer[q] = q /\ wire'[q][i] \in Foreign
<1> DEFINE Old == \E j \in 1 .. Len(wire[q]) : wire'[q][i] = wire[q][j]
<1>1. wire \in [Port -> Seq(Bpdu)] /\ wire[q] \in Seq(Bpdu) /\ Len(wire[q]) \in Nat
  BY LenProperties DEF TypeOK
<1>2. CASE wire'[q] = wire[q]
  BY <1>2
<1>3. ASSUME NEW p \in Port, RxBpdu(p)
      PROVE  Old
  <2>1. CASE q = p
    <3>1. wire[q] # <<>> /\ wire'[q] = Tail(wire[q])
      BY <1>1, <1>3, <2>1 DEF RxBpdu
    <3>2. /\ Len(wire[q]) >= 1 /\ Len(wire'[q]) = Len(wire[q]) - 1
          /\ \A k \in 1 .. Len(wire[q]) - 1 : wire'[q][k] = wire[q][k + 1]
      BY <1>1, <3>1, HeadTailProperties, EmptySeq, LenProperties
    <3>3. i + 1 \in 1 .. Len(wire[q])
      BY <1>1, <3>2
    <3> QED BY <3>2, <3>3
  <2>2. CASE q # p
    BY <1>1, <1>2, <1>3, <2>2 DEF RxBpdu
  <2> QED BY <2>1, <2>2
<1>4. ASSUME NEW p \in Port, LinkChange(p), wire' # wire
      PROVE  Old
  <2>1. PICK kept \in [{p, Peer[p]} -> 0 .. TxHoldCount] :
          /\ \A x \in {p, Peer[p]} : kept[x] <= Len(wire[x])
          /\ wire' = [x \in Port |-> IF x \in {p, Peer[p]}
                        THEN SubSeq(wire[x], 1, kept[x]) ELSE wire[x]]
    BY <1>4 DEF LinkChange
  <2>2. CASE q \in {p, Peer[p]}
    <3>1. /\ kept[q] \in Nat /\ kept[q] <= Len(wire[q])
          /\ wire'[q] = SubSeq(wire[q], 1, kept[q])
      BY <2>1, <2>2, TimesAssumption
    <3>2. \A k \in 1 .. kept[q] : wire[q][k] \in Bpdu
      BY <1>1, <3>1, ElementOfSeq
    <3>3. /\ Len(wire'[q]) = kept[q]
          /\ \A k \in 1 .. kept[q] : wire'[q][k] = wire[q][k]
      BY <3>1, <3>2, SubSeqProperties
    <3>4. 1 .. kept[q] \subseteq 1 .. Len(wire[q])
      BY <1>1, <3>1
    <3> QED BY <3>3, <3>4
  <2>3. CASE q \notin {p, Peer[p]}
    BY <1>2, <2>1, <2>3
  <2> QED BY <2>2, <2>3
<1>5. ASSUME NEW p \in Port, NEW m \in Foreign, ForeignFrame(p, m)
      PROVE  Old \/ (Peer[q] = q /\ wire'[q][i] \in Foreign)
  <2>1. CASE q = p
    <3>1. wire'[q] = <<m>> /\ Peer[q] = q
      BY <1>1, <1>5, <2>1 DEF ForeignFrame
    <3> QED BY <3>1
  <2>2. CASE q # p
    BY <1>1, <1>2, <1>5, <2>2 DEF ForeignFrame
  <2> QED BY <2>1, <2>2
<1> QED BY <1>2, <1>3, <1>4, <1>5 DEF Event, Environment, PollLink, Tick

\* They leave nothing false there.
LEMMA OthersKeepWire ==
  ASSUME TypeOK, Event \/ Environment, NEW q \in Port, WireTold(q)
  PROVE  WireTold(q)'
BY OthersSendNothing, ForeignOnLink DEF WireTold

-----------------------------------------------------------------------------
(***************************************************************************)
(* The invariant.                                                          *)
(***************************************************************************)
RootInv ==
  /\ TimeInv
  /\ HasBegun
  /\ \A p \in Port : CostSet(p) /\ PortTold(p) /\ WireTold(p)
  /\ \A b \in Bridge : BridgeTold(b, br[b])

\* The invariant holds at start-up: bridges take themselves for the root.
LEMMA InitRoot == Init => RootInv
<1> SUFFICES ASSUME Init
             PROVE  RootInv
  OBVIOUS
<1>1. InitState(phys)
  BY DEF Init
<1>2. TimeInv /\ HasBegun
  BY InitTime, NoMachineType DEF Init, HasBegun
<1>3. ASSUME NEW p \in Port
      PROVE  CostSet(p) /\ PortTold(p) /\ WireTold(p)
  <2>1. \A k \in PortKind : PortMachine(k, p) \in Machine
    BY DEF PortMachine, Machine
  <2>2. \A k \in PortKind : At(k, p) = BEGIN
    BY <1>1, <2>1 DEF InitState, At
  <2>3. ~ adapt[p].portEnabled /\ prio[p].infoIs = "Disabled"
    BY <1>1 DEF InitState
  <2>4. CostSet(p)
    BY <2>2, <2>3, Kinds DEF CostSet, InUse
  <2>5. Fresh(p)
    BY <1>1, <2>2, <2>3, Kinds DEF InitState, Fresh, IdleStates
  <2>6. MsgTold(p)
    BY <1>1 DEF InitState, MsgTold, NoBpdu
  <2>7. DesignTold(p)
    <3>1. /\ prio[p].designPrio = DesignPrioFor(p, OwnPrio(Owner[p]))
          /\ prio[p].designTimes = BrTimes[Owner[p]]
      BY <1>1 DEF InitState
    <3>2. Owner[p] \in Bridge
      BY PortAssumption
    <3> QED BY <3>1, <3>2, OwnHeld, DesignHeld DEF DesignTold
  <2>8. WireTold(p)
    BY DEF Init, WireTold
  <2> QED BY <2>4, <2>5, <2>6, <2>7, <2>8 DEF PortTold, PrioTold
<1>4. ASSUME NEW b \in Bridge
      PROVE  BridgeTold(b, br[b])
  <2>1. br[b] = [rootPrio |-> OwnPrio(b), rootTimes |-> BrTimes[b], rootPortId |-> 0]
    BY <1>1 DEF InitState
  <2>2. RootBridge(OwnPrio(b)) = b /\ b \in Nat
    BY TimesAssumption DEF OwnPrio, MakeVector, RootBridge
  <2> QED BY <2>1, <2>2, OwnHeld DEF BridgeTold
<1> QED BY <1>2, <1>3, <1>4 DEF RootInv

\* A step of a machine keeps it.
LEMMA MachineKeepsRoot ==
  ASSUME RootInv, MachineStep
  PROVE  /\ HasBegun'
         /\ \A p \in Port : CostSet(p)' /\ PortTold(p)' /\ WireTold(p)'
         /\ \A b \in Bridge : BridgeTold(b, br[b])'
<1>1. TypeOK /\ updating # {} /\ \A p \in Port : NewsRight(p)
  BY DEF RootInv, TimeInv, SettledInv, PortRight, MachineStep
<1>2. PICK m \in Chosen(Active) : RunMachine(m, NextState(m))
  BY DEF MachineStep
<1>3. m \in Machine /\ NextState(m) # Stay
  BY <1>1, ChosenType DEF TypeOK
<1>4. m[1] # "info" => \A p \in Port : ~ TooOld(p)
  BY NoneTooOld DEF RootInv
<1>5. HasBegun'
  <2>1. NextState(m) # BEGIN
    BY <1>3, NextStateType
  <2>2. cur' = m /\ st' = [st EXCEPT ![m] = NextState(m)]
    BY <1>2 DEF RunMachine
  <2> QED BY <1>1, <1>3, <2>1, <2>2 DEF HasBegun, TypeOK
<1>6. ASSUME NEW p \in Port
      PROVE  CostSet(p)' /\ PortTold(p)' /\ WireTold(p)'
  BY <1>1, <1>2, <1>3, <1>4, MachineKeepsCost, MachineKeepsTold, MachineKeepsWire DEF RootInv
<1>7. ASSUME NEW b \in Bridge
      PROVE  BridgeTold(b, br[b])'
  BY <1>1, <1>2, <1>3, <1>4, MachineKeepsBridge DEF RootInv
<1> QED BY <1>5, <1>6, <1>7

\* So does every other step.
LEMMA OthersKeepRoot ==
  ASSUME RootInv, UpdateDone \/ Event \/ Environment \/ UNCHANGED vars
  PROVE  /\ HasBegun'
         /\ \A p \in Port : CostSet(p)' /\ PortTold(p)' /\ WireTold(p)'
         /\ \A b \in Bridge : BridgeTold(b, br[b])'
<1>1. TypeOK
  BY DEF RootInv, TimeInv, SettledInv
<1>2. st' = st /\ br' = br /\ (cur' = cur \/ cur' = NoMachine)
  BY DEF UpdateDone, Event, PollLink, Tick, RxBpdu, Update, Environment, LinkChange,
         ForeignFrame, vars, stateVars
<1>3. HasBegun'
  BY <1>2, NoMachineType DEF RootInv, HasBegun
<1>4. ASSUME NEW b \in Bridge
      PROVE  BridgeTold(b, br[b])'
  BY <1>2 DEF RootInv, BridgeTold
<1>5. ASSUME NEW p \in Port
      PROVE  CostSet(p)' /\ PortTold(p)' /\ WireTold(p)'
  <2>1. CASE Event
    <3>1. Touched(p) /\ PortTold(p)' /\ WireTold(p)'
      BY <1>1, <2>1, EventTouches, EventKeepsTold, OthersKeepWire DEF RootInv
    <3>2. CostSet(p)'
      <4>1. At("edge", p)' = At("edge", p) /\ At("pcost", p)' = At("pcost", p)
            /\ At("info", p)' = At("info", p)
        BY <1>2 DEF At
      <4> QED BY <1>1, <2>1, <3>1, <4>1, EventKeepsCost DEF RootInv, CostSet, InUse, Touched
    <3> QED BY <3>1, <3>2
  <2>2. CASE UNCHANGED stateVars
    <3>1. CostSet(p)' /\ PortTold(p)'
      BY <2>2 DEF RootInv, stateVars, CostSet, InUse, PortTold, PrioTold, Fresh, MsgTold,
                  DesignTold, At
    <3>2. WireTold(p)'
      <4>1. CASE wire' = wire
        BY <4>1 DEF RootInv, WireTold
      <4>2. CASE Environment
        BY <1>1, <4>2, OthersKeepWire DEF RootInv
      <4>3. UpdateDone \/ UNCHANGED vars => wire' = wire
        BY DEF UpdateDone, vars
      <4> QED BY <4>1, <4>2, <4>3, <3>1, OthersKeepWire, <1>1 DEF RootInv
    <3> QED BY <3>1, <3>2
  <2>3. UpdateDone \/ Environment \/ UNCHANGED vars => UNCHANGED stateVars
    BY DEF UpdateDone, Environment, LinkChange, ForeignFrame, vars, stateVars
  <2> QED BY <2>1, <2>2, <2>3
<1> QED BY <1>3, <1>4, <1>5

LEMMA NextKeepsRoot == RootInv /\ [Next]_vars => RootInv'
<1> SUFFICES ASSUME RootInv, [Next]_vars
             PROVE  RootInv'
  OBVIOUS
<1>1. TimeInv'
  BY NextKeepsTime DEF RootInv
<1>2. CASE MachineStep
  BY <1>1, <1>2, MachineKeepsRoot DEF RootInv
<1>3. CASE UpdateDone \/ Event \/ Environment \/ UNCHANGED vars
  BY <1>1, <1>3, OthersKeepRoot DEF RootInv
<1> QED BY <1>2, <1>3 DEF Next, System

\* The bounds an instance is checked with are bounds.
LEMMA BoundsAreBounds ==
  ASSUME NEW b \in Bridge, NEW r \in KnownRoots, NEW cost, NEW age,
         MayClaim(b, r, cost, age)
  PROVE  /\ \A D \in CostBounds[r] : D[b] <= cost
         /\ \A D \in HopBounds[r] : D[b] <= age
<1>1. Cardinality(Bridge) \in Nat
  BY BridgeAssumption, FS_CardinalityType
<1>2. \A p \in Port, n \in 0 .. Cardinality(Bridge) : n * CableCost[p] \in Nat
  BY <1>1, CableCostType
<1>3. CostBounds[r] \subseteq {D \in [Bridge -> Nat] : IsDistance(D, r, CableCost, ClaimedCost)}
  BY <1>2 DEF CostBounds
<1>4. HopBounds[r] \subseteq {D \in [Bridge -> Nat] : IsDistance(D, r, CableHop, ClaimedAge)}
  BY <1>1 DEF HopBounds
<1> QED BY <1>3, <1>4 DEF MayClaim

-----------------------------------------------------------------------------
(***************************************************************************)
(* The theorems.                                                           *)
(***************************************************************************)
\* What is on the wire, in a port and in a bridge is never a claim about the
\* root that the cables do not bear out.
THEOREM RootInvariant == Spec => []RootInv
BY InitRoot, NextKeepsRoot, PTL DEF Spec

\* Costs stay in the range in which compare_vector puts them in order: that of
\* every bridge's root, and that of every path a bridge has to choose from when
\* it elects a root.
THEOREM CostsCompare ==
  Spec => [](\A b \in Bridge :
    /\ Near(br[b].rootPrio)
    /\ updating # {} /\ RoleSelMachine(b) \in Chosen(Active) =>
         \A p \in RootCandidates(b) : Near(RootPathPrio(p)))
<1>1. ASSUME RootInv, NEW b \in Bridge
      PROVE  Near(br[b].rootPrio)
  <2>1. Held(b, br[b].rootPrio, br[b].rootTimes) /\ br[b] \in RootKnown
    BY <1>1 DEF RootInv, TimeInv, SettledInv, TypeOK, StateOK, BridgeTold
  <2> QED BY <2>1, HeldNear DEF RootKnown
<1>2. ASSUME RootInv, NEW b \in Bridge, RoleSelMachine(b) \in Chosen(Active),
             NEW p \in RootCandidates(b)
      PROVE  Near(RootPathPrio(p))
  <2>1. TypeOK /\ TimeInv /\ \A q \in Port : PrioTold(q) /\ CostSet(q) /\ NewsRight(q)
    BY <1>2 DEF RootInv, TimeInv, SettledInv, PortRight, PortTold
  <2>2. p \in Port /\ Owner[p] = b
    BY <1>2, BridgePorts DEF RootCandidates
  <2>3. RoleSelMachine(b)[1] # "info"
    BY DEF RoleSelMachine
  <2>4. ~ TooOld(p)
    BY <1>2, <2>1, <2>2, <2>3, NoneTooOld
  <2> QED BY <1>2, <2>1, <2>2, <2>4, CandidateTold
<1>3. RootInv => \A b \in Bridge :
        /\ Near(br[b].rootPrio)
        /\ updating # {} /\ RoleSelMachine(b) \in Chosen(Active) =>
             \A p \in RootCandidates(b) : Near(RootPathPrio(p))
  BY <1>1, <1>2
<1> QED BY <1>3, RootInvariant, PTL

\* Whatever is lost, late or left over, a bridge's root is a bridge there is,
\* no worse than itself and no nearer than the cables lead.
THEOREM RootIsReal == Spec => []RootsAreReal
<1>1. RootInv => RootsAreReal
  <2> SUFFICES ASSUME RootInv, NEW b \in Bridge
               PROVE  /\ RootBridge(br[b].rootPrio) \in KnownRoots
                      /\ RootBridge(br[b].rootPrio) <= b
                      /\ \A D \in CostBounds[RootBridge(br[b].rootPrio)] :
                           D[b] <= RootPathCost(br[b].rootPrio)
                      /\ \A D \in HopBounds[RootBridge(br[b].rootPrio)] :
                           D[b] <= br[b].rootTimes.MessageAge
                      /\ RootBridge(br[b].rootPrio) = b <=> br[b].rootPortId = 0
    BY DEF RootsAreReal
  <2>1. BridgeTold(b, br[b])
    BY DEF RootInv
  <2>2. MayClaim(b, RootBridge(br[b].rootPrio), RootPathCost(br[b].rootPrio),
                 br[b].rootTimes.MessageAge)
    BY <2>1 DEF BridgeTold, Held
  <2>3. RootBridge(br[b].rootPrio) \in KnownRoots
    BY <2>2 DEF MayClaim
  <2> QED BY <2>1, <2>2, <2>3, BoundsAreBounds DEF BridgeTold
<1> QED BY <1>1, RootInvariant, PTL

\* The best bridge of a network never takes another for the root.
THEOREM BestStaysRoot ==
  Spec => [](\A b \in Bridge : (\A r \in KnownRoots : b <= r) => br[b].rootPortId = 0)
<1>1. RootsAreReal => \A b \in Bridge :
        (\A r \in KnownRoots : b <= r) => br[b].rootPortId = 0
  <2> SUFFICES ASSUME RootsAreReal, NEW b \in Bridge, \A r \in KnownRoots : b <= r
               PROVE  br[b].rootPortId = 0
    OBVIOUS
  <2> DEFINE r == RootBridge(br[b].rootPrio)
  <2>1. r \in KnownRoots /\ r <= b /\ (r = b <=> br[b].rootPortId = 0)
    BY DEF RootsAreReal
  <2>2. KnownRoots \subseteq Nat /\ b \in Nat
    <3>1. ASSUME NEW m \in Foreign
          PROVE  RootBridge(m.vec) \in Nat
      <4>1. m \in Bpdu
        BY EnvironmentAssumption
      <4>2. m.vec \in Vector
        BY <4>1 DEF Bpdu
      <4> QED BY <4>2 DEF Vector, RootBridge
    <3>2. Bridge \subseteq Nat
      BY TimesAssumption
    <3> QED BY <3>1, <3>2 DEF KnownRoots
  <2> HIDE DEF r
  <2> QED BY <2>1, <2>2
<1> QED BY <1>1, RootIsReal, PTL

\* News of a root that is gone dies out: it is never kept past MaxAge.
THEOREM NewsIsMortal == Spec => []NewsDiesOut
<1>1. TimeInv => NewsDiesOut
  <2> SUFFICES ASSUME TimeInv, Idle, NEW p \in Port, prio[p].infoIs = "Received"
               PROVE  /\ timer[p].rcvdInfoWhile <= 3 * prio[p].portTimes.HelloTime
                      /\ prio[p].portTimes.MessageAge + timer[p].rcvdInfoWhile
                           < prio[p].portTimes.MaxAge
    BY DEF NewsDiesOut
  <2> DEFINE t == prio[p].portTimes
             w == timer[p].rcvdInfoWhile
  <2>1. t \in Times /\ w \in Nat
    BY PortTypes DEF TimeInv, SettledInv, TypeOK, NetOK, Information, Timers
  <2>2. w > 0 /\ w <= InfoLifetime(t)
    BY NewsSettles DEF TimeInv, KeptInTime
  <2> HIDE DEF t, w
  <2>3. /\ t.MessageAge \in Nat /\ t.MaxAge \in Nat /\ t.HelloTime \in Nat
        /\ 3 * t.HelloTime \in Nat
    BY <2>1 DEF Times
  <2>4. w <= 3 * t.HelloTime /\ t.MessageAge + w < t.MaxAge
    BY <2>1, <2>2, <2>3, LifetimeBounds
  <2> QED BY <2>4 DEF t, w
<1>2. Spec => []TimeInv
  BY InitTime, NextKeepsTime, PTL DEF Spec
<1> QED BY <1>1, <1>2, PTL
-----------------------------------------------------------------------------
(***************************************************************************)
(* Role selection stands by what it decided.                               *)
(***************************************************************************)
\* What port p would advertise is the root vector of its bridge.  Until it
\* asks for a new selection: it advertises that vector when it relies on no
\* one, it is not designated when it relies on its neighbour, and the root
\* vector is what it was told, a cable further, when it is the root port.
StandsRight(p) ==
  p \notin NonStp =>
    /\ prio[p].designPrio = DesignPrioFor(p, br[Owner[p]].rootPrio)
    /\ ~ sel[p].reselect =>
         /\ prio[p].infoIs = "Mine" /\ ~ sel[p].updtInfo
              => prio[p].portPrio = prio[p].designPrio
         /\ prio[p].infoIs = "Received" /\ ~ sel[p].updtInfo
              => sel[p].selectedRole # "Designated"
         /\ br[Owner[p]].rootPortId = PortId[p] =>
              /\ prio[p].infoIs = "Received" /\ ~ sel[p].updtInfo
              /\ br[Owner[p]].rootPrio = AddCost(prio[p].portPrio, CableCost[p])

\* The elected root port is the one whose news won.
LEMMA ElectedPort ==
  ASSUME TypeOK, NEW p \in Port, Elected(Owner[p]).rootPortId = PortId[p],
         \A q \in Port : NewsRight(q) /\ CostSet(q)
  PROVE  /\ p \notin NonStp /\ prio[p].infoIs = "Received"
         /\ Elected(Owner[p]).rootPrio = AddCost(prio[p].portPrio, CableCost[p])
<1> DEFINE b == Owner[p]
<1>1. b \in Bridge /\ PortId[p] # 0
  BY PortAssumption
<1>2. Elected(b) # [rootPrio |-> OwnPrio(b), rootTimes |-> BrTimes[b],
                    rootPortId |-> 0]
  BY <1>1
<1>3. PICK q \in RootCandidates(b) :
        q \in Port /\ Owner[q] = b /\ Elected(b) = ElectedThrough(q)
  BY <1>1, <1>2, ElectedCases DEF TypeOK, NetOK
<1>4. q \notin NonStp /\ prio[q].infoIs = "Received"
  BY DEF RootCandidates
<1>5. BridgePort(RootPathPrio(q)) = PortId[q]
  BY <1>3, <1>4 DEF NewsRight, RootPathPrio, AddCost, BridgePort
<1>6. q = p
  BY <1>3, <1>5, PortAssumption DEF ElectedThrough
<1>7. adapt[q].operPCost = CableCost[q]
  BY <1>3, <1>4 DEF CostSet, InUse
<1> QED BY <1>3, <1>4, <1>6, <1>7 DEF ElectedThrough, RootPathPrio

\* Role selection makes it so.
LEMMA RoleSelStands ==
  ASSUME TypeOK, NEW b \in Bridge, UpdtRolesBridge(b), NEW q \in Port,
         \A p \in Port : NewsRight(p) /\ CostSet(p), StandsRight(q)
  PROVE  StandsRight(q)'
<1> DEFINE e == Elected(b)
<1>1. Owner[q] \in Bridge /\ br \in [Bridge -> RootKnown] /\ prio[q] \in Information
  BY PortAssumption DEF TypeOK, StateOK
<1>2. CASE Owner[q] # b
  <2>1. prio'[q] = prio[q] /\ sel'[q] = sel[q] /\ br'[Owner[q]] = br[Owner[q]]
    BY <1>1, <1>2 DEF UpdtRolesBridge
  <2> QED BY <2>1 DEF StandsRight
<1>3. CASE Owner[q] = b /\ q \notin NonStp
  <2>1. /\ br'[b] = e
        /\ sel'[q] = [selectedRole |-> RoleFor(q, e), selected |-> TRUE,
                      reselect |-> FALSE, updtInfo |-> UpdtInfoFor(q, e)]
        /\ prio'[q] = [prio[q] EXCEPT !.designPrio = DesignPrioFor(q, e.rootPrio),
                                      !.designTimes = e.rootTimes]
    BY <1>1, <1>3 DEF UpdtRolesBridge
  <2>2. e.rootPortId = PortId[q] =>
          prio[q].infoIs = "Received" /\ e.rootPrio = AddCost(prio[q].portPrio, CableCost[q])
    BY <1>3, ElectedPort
  <2> HIDE DEF e
  <2>3. /\ prio'[q].infoIs = prio[q].infoIs /\ prio'[q].portPrio = prio[q].portPrio
        /\ prio'[q].designPrio = DesignPrioFor(q, e.rootPrio)
    BY <1>1, <2>1 DEF Information
  <2>4. /\ prio[q].infoIs = "Mine" /\ ~ UpdtInfoFor(q, e)
             => prio[q].portPrio = DesignPrioFor(q, e.rootPrio)
        /\ prio[q].infoIs = "Received"
             => (UpdtInfoFor(q, e) <=> RoleFor(q, e) = "Designated")
    BY <1>3 DEF UpdtInfoFor
  <2>5. prio[q].infoIs = "Received" /\ e.rootPortId = PortId[q]
          => RoleFor(q, e) = "Root"
    BY <1>3 DEF RoleFor
  <2> QED BY <1>3, <2>1, <2>2, <2>3, <2>4, <2>5 DEF StandsRight
<1> QED BY <1>2, <1>3 DEF StandsRight

\* Port information keeps it, state by state.
LEMMA InfoStands ==
  ASSUME TypeOK, NEW p \in Port, NewsRight(p), SelectionRight(p), StandsRight(p),
         InfoNext(p) # Stay, InfoEnter(p, InfoNext(p))
  PROVE  StandsRight(p)'
<1> DEFINE s == InfoNext(p)
<1>1. /\ prio \in [Port -> Information] /\ prio[p] \in Information
      /\ sel \in [Port -> Selection] /\ sel[p] \in Selection
  BY DEF TypeOK, StateOK
<1>2. s = "ENABLED" => At("info", p) = "DISABLED"
  BY DEF InfoNext, Stay
<1>3. s = "UPDATE" => sel[p].updtInfo
  BY DEF InfoNext, Stay
<1>4. InfoEnter(p, s) /\ br' = br
  BY DEF InfoEnter, InfoAged
<1> HIDE DEF s
<1>5. CASE s \in {"DISABLED", "AGED", "SUPERIOR"}
  <2>1. sel'[p].reselect
    <3>1. \/ sel' = [sel EXCEPT ![p].updtInfo = FALSE, ![p].reselect = TRUE,
                               ![p].selected = FALSE]
          \/ sel' = [sel EXCEPT ![p].reselect = TRUE, ![p].selected = FALSE]
      BY <1>4, <1>5 DEF InfoEnter, InfoAged, InfoDisabled, InfoSuperior
    <3> QED BY <1>1, <3>1 DEF Selection
  <2>2. prio'[p].designPrio = prio[p].designPrio
    <3>1. \/ prio' = [prio EXCEPT ![p].infoIs = "Disabled"]
          \/ prio' = [prio EXCEPT ![p].infoIs = "Aged"]
          \/ prio' = [prio EXCEPT ![p].portPrio = rcv[p].msg.vec,
                                  ![p].portTimes = rcv[p].msg.times,
                                  ![p].infoIs = "Received"]
      BY <1>4, <1>5 DEF InfoEnter, InfoAged, InfoDisabled, InfoSuperior
    <3> QED BY <1>1, <3>1 DEF Information
  <2> QED BY <1>4, <2>1, <2>2 DEF StandsRight
<1>6. CASE s = "ENABLED"
  <2>1. /\ prio' = [prio EXCEPT ![p].portPrio = prio[p].designPrio,
                                ![p].portTimes = prio[p].designTimes]
        /\ sel' = sel
    BY <1>4, <1>6 DEF InfoEnter, InfoAged
  <2>2. prio[p].infoIs = "Disabled"
    BY <1>2, <1>6 DEF NewsRight
  <2>3. prio'[p].infoIs = "Disabled" /\ prio'[p].designPrio = prio[p].designPrio
    BY <1>1, <2>1, <2>2 DEF Information
  <2> QED BY <1>4, <2>1, <2>2, <2>3 DEF StandsRight
<1>7. CASE s = "UPDATE"
  <2>1. /\ prio' = [prio EXCEPT ![p].portPrio = prio[p].designPrio,
                                ![p].portTimes = prio[p].designTimes,
                                ![p].infoIs = "Mine"]
        /\ sel' = [sel EXCEPT ![p].updtInfo = FALSE]
    BY <1>4, <1>7 DEF InfoEnter, InfoAged, InfoUpdate
  <2>2. /\ prio'[p].infoIs = "Mine" /\ prio'[p].portPrio = prio'[p].designPrio
        /\ prio'[p].designPrio = prio[p].designPrio
        /\ sel'[p].reselect = sel[p].reselect
    BY <1>1, <2>1 DEF Information, Selection
  <2> QED BY <1>3, <1>4, <1>7, <2>2 DEF StandsRight
<1>8. CASE s \in {"CURRENT", "RECEIVE", "REPEAT", "AGREEMENT"}
  <2>1. prio' = prio /\ sel' = sel
    BY <1>4, <1>8 DEF InfoEnter, InfoAged, InfoReceive
  <2> QED BY <1>4, <2>1 DEF StandsRight
<1> QED BY <1>4, <1>5, <1>6, <1>7, <1>8 DEF InfoEnter, InfoAged

\* Every machine keeps it.
LEMMA MachineStands ==
  ASSUME TypeOK, NEW m \in Machine, NextState(m) # Stay,
         RunMachine(m, NextState(m)),
         \A p \in Port : NewsRight(p) /\ CostSet(p) /\ SelectionRight(p),
         NEW q \in Port, StandsRight(q)
  PROVE  StandsRight(q)'
<1> DEFINE s == NextState(m)
<1>1. CASE m[1] = "rolesel"
  <2>1. UpdtRolesBridge(m[2]) /\ m[2] \in Bridge
    BY <1>1, MachineCases, Kinds DEF RunMachine, RoleSelEnter
  <2> QED BY <2>1, RoleSelStands
<1>2. CASE m[1] = "info" /\ m[2] = q
  <2>1. s = InfoNext(q) /\ InfoEnter(q, s)
    BY <1>2 DEF NextState, RunMachine
  <2> QED BY <2>1, InfoStands
<1>3. CASE m[1] # "rolesel" /\ ~ (m[1] = "info" /\ m[2] = q)
  <2>1. prio'[q] = prio[q] /\ br' = br
    BY <1>3, PrioWriter, SelectionWriters
  <2>2. sel'[q] = sel[q] \/ sel'[q].reselect
    <3>1. CASE m[1] = "roletrns" /\ m[2] = q
      <4>1. RoletrnsEnter(q, s) /\ sel \in [Port -> Selection] /\ sel[q] \in Selection
        BY <3>1 DEF RunMachine, TypeOK, StateOK
      <4> HIDE DEF s
      <4>2. \/ sel' = sel
            \/ sel' = [sel EXCEPT ![q].selectedRole = "Disabled", ![q].reselect = TRUE]
        BY <4>1 DEF RoletrnsEnter
      <4> QED BY <4>1, <4>2 DEF Selection
    <3> QED BY <1>3, <3>1, SelectionWriters
  <2> QED BY <2>1, <2>2 DEF StandsRight
<1> QED BY <1>1, <1>2, <1>3

-----------------------------------------------------------------------------
LoopInv == RootInv /\ \A p \in Port : StandsRight(p)

\* Nothing has been selected at start-up.
LEMMA InitLoop == Init => LoopInv
<1> SUFFICES ASSUME Init
             PROVE  LoopInv
  OBVIOUS
<1>1. InitState(phys)
  BY DEF Init
<1>2. ASSUME NEW p \in Port
      PROVE  StandsRight(p)
  <2>1. Owner[p] \in Bridge
    BY PortAssumption
  <2>2. sel[p].reselect
    BY <1>1 DEF InitState
  <2>3. /\ prio[p].designPrio = DesignPrioFor(p, OwnPrio(Owner[p]))
        /\ br[Owner[p]].rootPrio = OwnPrio(Owner[p])
    BY <1>1, <2>1 DEF InitState
  <2> QED BY <2>2, <2>3 DEF StandsRight
<1> QED BY <1>2, InitRoot DEF LoopInv

\* Every step keeps the invariant.
LEMMA NextKeepsLoop == LoopInv /\ [Next]_vars => LoopInv'
<1> SUFFICES ASSUME LoopInv, [Next]_vars
             PROVE  LoopInv'
  OBVIOUS
<1>1. RootInv'
  BY NextKeepsRoot DEF LoopInv
<1>2. TypeOK /\ \A p \in Port : NewsRight(p) /\ CostSet(p) /\ SelectionRight(p)
  BY DEF LoopInv, RootInv, TimeInv, SettledInv, PortRight
<1>3. ASSUME NEW p \in Port
      PROVE  StandsRight(p)'
  <2>1. CASE MachineStep
    <3>1. PICK m \in Chosen(Active) : RunMachine(m, NextState(m))
      BY <2>1 DEF MachineStep
    <3>2. m \in Machine /\ NextState(m) # Stay
      BY <1>2, <2>1, ChosenType DEF MachineStep, TypeOK
    <3> QED BY <1>2, <3>1, <3>2, MachineStands DEF LoopInv
  <2>2. CASE Event
    BY <1>2, <2>2, EventTouches DEF LoopInv, StandsRight, Touched
  <2>3. CASE UpdateDone \/ Environment \/ UNCHANGED vars
    <3>1. prio' = prio /\ sel' = sel /\ br' = br
      BY <2>3 DEF UpdateDone, Environment, LinkChange, ForeignFrame, vars, stateVars
    <3> QED BY <3>1 DEF LoopInv, StandsRight
  <2> QED BY <2>1, <2>2, <2>3 DEF Next, System
<1> QED BY <1>1, <1>3 DEF LoopInv
-----------------------------------------------------------------------------
(***************************************************************************)
(* The furthest bridge.                                                    *)
(***************************************************************************)
\* Bridge a takes a worse root than bridge b, or the same one from further.
Further(a, b) ==
  LET u == br[a].rootPrio
      v == br[b].rootPrio
  IN  \/ RootBridge(v) < RootBridge(u)
      \/ RootBridge(v) = RootBridge(u) /\ RootPathCost(v) < RootPathCost(u)

\* Further orders the bridges.
LEMMA FurtherOrders ==
  ASSUME TypeOK
  PROVE  /\ \A a \in Bridge : ~ Further(a, a)
         /\ \A a, b, c \in Bridge : Further(a, b) /\ Further(b, c) => Further(a, c)
<1>1. \A b \in Bridge : /\ RootBridge(br[b].rootPrio) \in Nat
                        /\ RootPathCost(br[b].rootPrio) \in Nat
  <2> SUFFICES ASSUME NEW b \in Bridge
               PROVE  /\ RootBridge(br[b].rootPrio) \in Nat
                      /\ RootPathCost(br[b].rootPrio) \in Nat
    OBVIOUS
  <2>1. br[b].rootPrio \in Vector
    BY DEF TypeOK, StateOK, RootKnown
  <2> QED BY <2>1 DEF Vector, RootBridge, RootPathCost
<1> QED BY <1>1 DEF Further

\* So some bridge of a set has none further.
LEMMA FurthestBridge ==
  ASSUME TypeOK, NEW B, B \subseteq Bridge, B # {}
  PROVE  \E b \in B : \A a \in B : ~ Further(a, b)
<1> DEFINE Beyond(b) == {a \in B : Further(a, b)}
           N == {Cardinality(Beyond(b)) : b \in B}
<1>1. \A b \in B : IsFiniteSet(Beyond(b)) /\ Cardinality(Beyond(b)) \in Nat
  <2>1. \A b \in B : Beyond(b) \subseteq Bridge
    OBVIOUS
  <2> QED BY <2>1, BridgeAssumption, FS_Subset, FS_CardinalityType
<1>2. N \subseteq Nat /\ N # {}
  BY <1>1
<1>3. PICK n \in N : \A k \in N : n <= k
  BY <1>2, NatLeast
<1>4. PICK b \in B : n = Cardinality(Beyond(b))
  OBVIOUS
<1>5. ASSUME NEW a \in B, Further(a, b)
      PROVE  FALSE
  <2>1. Beyond(a) \subseteq Beyond(b)
    BY <1>5, FurtherOrders
  <2>2. a \in Beyond(b) /\ a \notin Beyond(a)
    BY <1>5, FurtherOrders
  <2>3. Cardinality(Beyond(a)) <= Cardinality(Beyond(b))
        /\ Cardinality(Beyond(a)) # Cardinality(Beyond(b))
    BY <1>1, <2>1, <2>2, FS_Subset
  <2>4. Cardinality(Beyond(a)) \in N
    OBVIOUS
  <2>5. Cardinality(Beyond(a)) \in Nat /\ n \in Nat
    BY <1>1, <1>4
  <2> HIDE DEF Beyond, N
  <2>6. n <= Cardinality(Beyond(a))
    BY <1>3, <2>4
  <2> QED BY <1>4, <2>3, <2>5, <2>6
<1> QED BY <1>5

\* A port that carries traffic on news that still holds is the root port of
\* its bridge, which is further from the root than its neighbour.
LEMMA HeardIsRootPort ==
  ASSUME LoopInv, Idle, NEW p \in Port, hw[p].forwarding, Heard(p)
  PROVE  br[Owner[p]].rootPortId = PortId[p] /\ Further(Owner[p], Owner[Peer[p]])
<1> DEFINE q == Peer[p]
<1>1. q \in Port /\ Owner[p] \in Bridge /\ Owner[q] \in Bridge
  BY PeerAssumption, PortAssumption
<1>2. SettledInv /\ StandsRight(p) /\ StandsRight(q) /\ TypeOK
  BY <1>1 DEF LoopInv, RootInv, TimeInv, SettledInv
<1>3. /\ ~ sel[p].reselect /\ ~ sel[p].updtInfo /\ ~ sel[q].reselect /\ ~ sel[q].updtInfo
  BY <1>1, <1>2, SelectionSettles
<1>4. /\ p \notin NonStp /\ q \notin NonStp
      /\ prio[p].infoIs = "Received" /\ prio[q].infoIs = "Mine"
      /\ ~ VecLess(prio[p].portPrio, ReceivedBy(prio[q].portPrio, PortId[p]))
  BY DEF Heard
<1>5. br[Owner[p]].rootPortId = PortId[p]
  <2>1. sel[p].selectedRole # "Designated"
    BY <1>2, <1>3, <1>4 DEF StandsRight
  <2>2. sel[p].selectedRole \notin BlockedRole
    BY <1>2, ChipSettles, RoleSettles
  <2>3. sel[p].selectedRole # "NonStp" /\ sel[p].selectedRole \in PortRole
    BY <1>2, <1>4, PortTypes
       DEF SettledInv, PortRight, RoleRight, TypeOK, NetOK, Selection
  <2>4. sel[p].selectedRole = "Root"
    BY <2>1, <2>2, <2>3 DEF PortRole, BlockedRole
  <2> QED BY <1>2, <1>3, <2>4 DEF SettledInv, PortRight, SelectionRight
<1>6. br[Owner[p]].rootPrio = AddCost(prio[p].portPrio, CableCost[p])
  BY <1>2, <1>3, <1>4, <1>5 DEF StandsRight
<1>7. prio[q].portPrio = DesignPrioFor(q, br[Owner[q]].rootPrio)
  BY <1>2, <1>3, <1>4 DEF StandsRight
<1>8. /\ prio[p].portPrio \in Vector /\ br[Owner[q]].rootPrio \in Vector
      /\ PortId[p] \in Nat /\ PortId[q] \in Nat /\ Owner[q] \in Nat
  BY <1>1, <1>2, PortTypes, PortAssumption, TimesAssumption
     DEF TypeOK, NetOK, Information, RootKnown
<1> DEFINE u == prio[p].portPrio
           v == br[Owner[q]].rootPrio
           c == CableCost[p]
<1>9. c \in Nat /\ c >= 1
  BY CableCostType
<1>10. ~ VecLess(u, <<v[1], v[2], Owner[q], PortId[q], PortId[p]>>)
  BY <1>4, <1>7
     DEF ReceivedBy, DesignPrioFor, MakeVector, RootBridge, RootPathCost
<1>11. br[Owner[p]].rootPrio = <<u[1], u[2] + c, u[3], u[4], u[5]>>
  BY <1>6 DEF AddCost
<1>12. u[1] \in Nat /\ u[2] \in Nat /\ v[1] \in Nat /\ v[2] \in Nat
  BY <1>8 DEF Vector
<1>13. br[Owner[q]].rootPrio = v
  OBVIOUS
<1>14. Near(v) /\ Near(br[Owner[p]].rootPrio)
  <2>1. ASSUME NEW b \in Bridge
        PROVE  Near(br[b].rootPrio)
    <3>1. Held(b, br[b].rootPrio, br[b].rootTimes)
      BY DEF LoopInv, RootInv, BridgeTold
    <3>2. br[b] \in RootKnown
      BY <1>2 DEF TypeOK, StateOK
    <3> QED BY <3>1, <3>2, HeldNear DEF RootKnown
  <2> QED BY <1>1, <2>1
<1> HIDE DEF u, v, c
<1>15. CostLess(u[2], v[2]) <=> u[2] < v[2]
  <2>1. v[2] <= MaxInt /\ u[2] + c <= MaxInt
    BY <1>11, <1>14 DEF Near, RootPathCost
  <2> QED BY <1>9, <1>12, <2>1 DEF CostLess, MaxInt
<1>16. v[1] < u[1] \/ (v[1] = u[1] /\ v[2] <= u[2])
  BY <1>10, <1>12, <1>15 DEF VecLess
<1>17. Further(Owner[p], Owner[q])
  BY <1>9, <1>11, <1>12, <1>13, <1>16 DEF Further, RootBridge, RootPathCost
<1> QED BY <1>5, <1>17

\* Among open links whose news still holds, the furthest bridge has one end.
LEMMA HeardLinksHaveEnd ==
  ASSUME LoopInv, Idle, OpenLinksHeard
  PROVE  NoLoop
<1> SUFFICES ASSUME NEW S \in SUBSET OpenPorts, S # {}, \A p \in S : Peer[p] \in S
             PROVE  \E b \in Bridge : Cardinality(S \cap Ports[b]) = 1
  BY DEF NoLoop
<1>1. TypeOK /\ phys \subseteq Port
  BY DEF LoopInv, RootInv, TimeInv, SettledInv, TypeOK
<1>2. \A p \in S : /\ p \in Port /\ Owner[p] \in Bridge /\ Peer[Peer[p]] = p
                   /\ hw[p].forwarding /\ (Heard(p) \/ Heard(Peer[p]))
  BY <1>1, PortAssumption, PeerAssumption DEF OpenPorts, OpenLinksHeard
<1> DEFINE B == {Owner[p] : p \in S}
<1>3. B \subseteq Bridge /\ B # {}
  BY <1>2
<1>4. PICK b \in B : \A a \in B : ~ Further(a, b)
  BY <1>1, <1>3, FurthestBridge
<1>5. ASSUME NEW p \in S, Owner[p] = b
      PROVE  br[b].rootPortId = PortId[p]
  <2>1. Peer[p] \in S /\ Owner[Peer[p]] \in B
    OBVIOUS
  <2>2. ~ Heard(Peer[p])
    <3> SUFFICES ASSUME Heard(Peer[p])
                 PROVE  FALSE
      OBVIOUS
    <3>1. Further(Owner[Peer[p]], Owner[Peer[Peer[p]]])
      BY <1>2, <2>1, HeardIsRootPort
    <3> QED BY <1>2, <1>4, <1>5, <2>1, <3>1
  <2> QED BY <1>2, <1>5, <2>2, HeardIsRootPort
<1>6. PICK p \in S : Owner[p] = b
  OBVIOUS
<1>7. b \in Bridge
  BY <1>3
<1>8. S \cap Ports[b] = {p}
  <2>1. ASSUME NEW q \in S \cap Ports[b]
        PROVE  q = p
    <3>1. q \in S /\ q \in Port /\ Owner[q] = b
      BY <1>7, <2>1, BridgePorts
    <3> QED BY <1>2, <1>5, <1>6, <3>1, PortAssumption
  <2>2. p \in Ports[b]
    BY <1>2, <1>6, <1>7, BridgePorts
  <2> QED BY <2>1, <2>2
<1> QED BY <1>7, <1>8, FS_Singleton

-----------------------------------------------------------------------------
\* What role selection decided stands until it is asked again.
THEOREM LoopInvariant == Spec => []LoopInv
BY InitLoop, NextKeepsLoop, PTL DEF Spec

\* Between updates, as long as what the ends of the open links rely on still
\* holds at the other ends, the open links form no loop.
THEOREM HeardLinksMakeNoLoop == Spec => [](Idle /\ OpenLinksHeard => NoLoop)
<1>1. LoopInv => (Idle /\ OpenLinksHeard => NoLoop)
  BY HeardLinksHaveEnd
<1> QED BY <1>1, LoopInvariant, PTL
=============================================================================
