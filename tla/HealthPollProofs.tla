-------------------------- MODULE HealthPollProofs ---------------------------
(***************************************************************************)
(* Proofs about HealthPoll for every number of polls under way, writes to  *)
(* the row and outages of the server.                                      *)
(***************************************************************************)
EXTENDS HealthPoll, TLAPS

-----------------------------------------------------------------------------
(* Type correctness. *)

\* The rows of an answer are none or one.
LEMMA OneRow ==
  /\ <<>> \in Rows
  /\ \A r \in Row : <<r>> \in Rows /\ <<r>> # <<>>
  /\ \A rows \in Rows : rows # <<>> => rows[1] \in Row /\ rows[1].version \in Int
<1>1. \A r \in Row : r.version \in Int
  BY HealthAssumption DEF Row
<1>2. \A r : <<r>> # <<>>
  OBVIOUS
<1> QED
  BY <1>1, <1>2 DEF Rows

LEMMA HealthRow ==
  ASSUME TypeOK
  PROVE  /\ GetHealth \in Rows
         /\ GetHealth # <<>> => GetHealth[1].version = version
         /\ GetHealth = <<>> => version = 0
<1>1. CASE version = 0
  BY <1>1, OneRow DEF GetHealth
<1>2. CASE version # 0
  <2> DEFINE r == [version |-> version, ws_connected |-> ws_connected, stale |-> Stale]
  <2>1. version \in 1..MaxVersion
    BY <1>2, HealthAssumption DEF TypeOK
  <2>2. r \in Row
    BY <2>1 DEF TypeOK, Row, Stale
  <2>3. GetHealth = <<r>>
    BY <1>2 DEF GetHealth
  <2>4. r.version = version
    OBVIOUS
  <2> HIDE DEF r
  <2> QED
    BY <2>2, <2>3, <2>4, OneRow
<1> QED
  BY <1>1, <1>2

LEMMA VersionType ==
  /\ \A rows \in Rows : Version(rows) \in 0..MaxVersion
  /\ Version(<<>>) = 0
<1>1. \A r \in Row : <<r>>[1].version \in 0..MaxVersion /\ <<r>> # <<>>
  BY HealthAssumption DEF Row
<1> QED
  BY <1>1, HealthAssumption DEF Rows, Version

LEMMA VersionShown == TypeOK => Version(health) \in 0..MaxVersion
BY VersionType DEF TypeOK

LEMMA InitTypeOK == Init => TypeOK
<1> SUFFICES ASSUME Init PROVE TypeOK
  OBVIOUS
<1>1. /\ polls \in [Requests -> [state : {"idle", "asked", "rows", "error"}, rows : Rows]]
      /\ health \in Rows
  BY OneRow DEF Init, Idle
<1>2. 0 \in 0..MaxClock /\ 0 \in 0..MaxVersion /\ 0 \in 0..MaxOutages
  BY HealthAssumption
<1> QED
  BY <1>1, <1>2 DEF Init, TypeOK

LEMMA NextTypeOK == TypeOK /\ [Next]_vars => TypeOK'
<1> SUFFICES ASSUME TypeOK, [Next]_vars PROVE TypeOK'
  OBVIOUS
<1> USE DEF server, row, view
<1>1. CASE Tick
  BY <1>1, HealthAssumption DEF Tick, TypeOK
<1>2. CASE WriteRow
  BY <1>2, HealthAssumption DEF WriteRow, TypeOK
<1>3. CASE ServerDown
  <2>1. outages' \in 0..MaxOutages
    <3>1. outages < MaxOutages /\ outages' = outages + 1
      BY <1>3 DEF ServerDown
    <3>2. outages \in 0..MaxOutages
      BY DEF TypeOK
    <3> QED
      BY <3>1, <3>2, HealthAssumption
  <2>2. UNCHANGED <<clock, row, page, load, polls, view, shown>> /\ up' = FALSE
    BY <1>3 DEF ServerDown
  <2> QED
    BY <2>1, <2>2 DEF TypeOK
<1>10. CASE ServerUp
  BY <1>10 DEF ServerUp, TypeOK
<1>4. CASE Mount
  <2>1. 1 \in Requests
    BY HealthAssumption DEF Requests
  <2> QED
    BY <1>4, <2>1, VersionShown DEF Mount, TypeOK
<1>5. CASE Unmount \/ LoadEnds
  BY <1>5 DEF Unmount, LoadEnds, TypeOK
<1>6. CASE Poll
  BY <1>6, VersionShown DEF Poll, UnderWay, TypeOK
<1>7. ASSUME NEW i \in Requests, Answer(i) PROVE TypeOK'
  BY <1>7, HealthRow, OneRow DEF Answer, TypeOK
<1>8. ASSUME NEW i \in Requests, Settle(i) PROVE TypeOK'
  <2>1. 0 \in 0..MaxVersion
    BY HealthAssumption
  <2> QED
    BY <1>8, <2>1, OneRow DEF Settle, Show, Idle, TypeOK
<1>9. CASE UNCHANGED vars
  BY <1>9 DEF vars, TypeOK
<1> QED
  BY <1>1, <1>2, <1>3, <1>4, <1>5, <1>6, <1>7, <1>8, <1>9, <1>10 DEF Next

\* What the panel shows and what a poll carries is no row or one, for every number
\* of polls under way and every outage.
THEOREM TypeCorrect == Spec => []TypeOK
BY InitTypeOK, NextTypeOK, PTL DEF Spec

-----------------------------------------------------------------------------
(* NeverOlder.  The rows of an answer were read after its poll was sent, when*)
(* the panel could not show anything newer than the server had.             *)

PollInv ==
  /\ Version(health) <= version
  /\ \A i \in UnderWay :
       /\ shown[i] <= version
       /\ polls[i].state = "rows" =>
            shown[i] <= Version(polls[i].rows) /\ Version(polls[i].rows) <= version

\* Only a poll that settles changes the panel, and not to older rows than it had.
NotOlder ==
  health' # health => \E i \in UnderWay \ UnderWay' : shown[i] <= Version(health')

LEMMA NextPoll == TypeOK /\ PollInv /\ [Next]_vars => PollInv' /\ NotOlder
<1> SUFFICES ASSUME TypeOK, PollInv, [Next]_vars PROVE PollInv' /\ NotOlder
  OBVIOUS
<1> USE DEF server, row, view
<1>a. /\ polls \in [Requests -> [state : {"idle", "asked", "rows", "error"}, rows : Rows]]
      /\ shown \in [Requests -> 0..MaxVersion]
      /\ health \in Rows /\ version \in Nat
      /\ Version(health) \in Nat
      /\ \A i \in Requests : Version(polls[i].rows) \in Nat /\ shown[i] \in Nat
  <2>1. 0..MaxVersion \subseteq Nat
    BY HealthAssumption
  <2> QED
    BY <2>1, VersionType DEF TypeOK
<1>1. CASE Tick \/ ServerDown \/ ServerUp \/ Unmount \/ LoadEnds \/ UNCHANGED vars
  <2>1. UNCHANGED <<version, polls, health, shown>>
    BY <1>1 DEF Tick, ServerDown, ServerUp, Unmount, LoadEnds, vars
  <2> QED
    BY <2>1 DEF PollInv, NotOlder, UnderWay
<1>2. CASE WriteRow
  <2>1. UNCHANGED <<polls, health, shown>> /\ version' = version + 1
    BY <1>2 DEF WriteRow
  <2>2. Version(health) <= version + 1
    BY <1>a DEF PollInv
  <2>3. \A i \in UnderWay :
          /\ shown[i] <= version + 1
          /\ polls[i].state = "rows" =>
               shown[i] <= Version(polls[i].rows) /\ Version(polls[i].rows) <= version + 1
    BY <1>a DEF PollInv, UnderWay
  <2> QED
    BY <2>1, <2>2, <2>3 DEF PollInv, NotOlder, UnderWay
<1>3. CASE Mount \/ Poll
  <2>1. /\ UNCHANGED <<version, health>>
        /\ \E i \in Requests : /\ polls' = [polls EXCEPT ![i].state = "asked"]
                              /\ shown' = [shown EXCEPT ![i] = Version(health)]
    <3>1. 1 \in Requests
      BY HealthAssumption DEF Requests
    <3> QED
      BY <1>3, <3>1 DEF Mount, Poll
  <2>2. PICK i \in Requests : /\ polls' = [polls EXCEPT ![i].state = "asked"]
                             /\ shown' = [shown EXCEPT ![i] = Version(health)]
    BY <2>1
  <2>3. /\ polls'[i].state = "asked" /\ shown'[i] = Version(health)
        /\ \A j \in Requests \ {i} : polls'[j] = polls[j] /\ shown'[j] = shown[j]
    BY <1>a, <2>2
  <2>4. \A j \in UnderWay' : j = i \/ (j \in UnderWay /\ j \in Requests \ {i})
    BY <2>3 DEF UnderWay
  <2> QED
    BY <2>1, <2>3, <2>4 DEF PollInv, NotOlder
<1>4. ASSUME NEW i \in Requests, Answer(i)
      PROVE  PollInv' /\ NotOlder
  <2>1. /\ UNCHANGED <<version, health, shown>> /\ polls[i].state = "asked"
        /\ \A j \in Requests \ {i} : polls'[j] = polls[j]
        /\ polls'[i].state = "rows" => polls'[i].rows = GetHealth
        /\ polls'[i].state # "idle"
    BY <1>4, <1>a DEF Answer
  <2>2. i \in UnderWay /\ UnderWay' = UnderWay
    BY <2>1 DEF UnderWay
  <2>3. Version(GetHealth) = version
    BY HealthRow DEF Version
  <2>4. shown[i] <= version
    BY <2>2 DEF PollInv
  <2> QED
    BY <1>a, <2>1, <2>2, <2>3, <2>4 DEF PollInv, NotOlder, UnderWay
<1>5. ASSUME NEW i \in Requests, Settle(i)
      PROVE  PollInv' /\ NotOlder
  <2>1. /\ version' = version /\ polls[i].state \in {"rows", "error"}
        /\ \A j \in Requests \ {i} : polls'[j] = polls[j] /\ shown'[j] = shown[j]
        /\ polls'[i].state = "idle"
        /\ health' = health \/ (polls[i].state = "rows" /\ health' = polls[i].rows)
    BY <1>5, <1>a DEF Settle, Show, Idle
  <2>2. i \in UnderWay \ UnderWay' /\ UnderWay' \subseteq UnderWay \ {i}
    BY <2>1 DEF UnderWay
  <2>3. \A j \in UnderWay' : j \in UnderWay /\ j \in Requests \ {i}
    BY <2>2 DEF UnderWay
  <2>4. NotOlder /\ Version(health') <= version
    BY <2>1, <2>2 DEF PollInv, NotOlder
  <2> QED
    BY <2>1, <2>3, <2>4 DEF PollInv
<1> QED
  BY <1>1, <1>2, <1>3, <1>4, <1>5 DEF Next

\* An answer that was overtaken never takes the panel behind what it showed when
\* the poll was sent, for every number of requests under way at a time, whatever
\* fails and whenever it settles.
THEOREM PanelNeverGoesBack == Spec => NeverOlder
<1>1. Init => PollInv
  <2>1. 0 \in Nat /\ 0 <= 0
    OBVIOUS
  <2> QED
    BY <2>1, VersionType DEF Init, PollInv, UnderWay, Idle
<1>2. TypeOK /\ PollInv /\ [Next]_vars =>
        [health' # health =>
           \E i \in UnderWay \ UnderWay' : shown[i] <= Version(health')]_vars
  BY NextPoll DEF NotOlder
<1>3. TypeOK /\ PollInv /\ [Next]_vars => PollInv'
  BY NextPoll
<1> QED
  BY <1>1, <1>2, <1>3, InitTypeOK, NextTypeOK, PTL DEF Spec, NeverOlder
=============================================================================
