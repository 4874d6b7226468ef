------------------------- MODULE CurrentManagerProofs -------------------------
(***************************************************************************)
(* What holds of CurrentManager for every number of calls at the same      *)
(* time: unsynchronised as it is, the variable ends with a live manager.   *)
(***************************************************************************)
EXTENDS CurrentManager, TLAPS

USE DEF vars

LEMMA InitTypeOK == Init => TypeOK
  <1>1. (CHOOSE n \in Names : TRUE) \in Names
    BY NonEmptyAssumption
  <1> QED BY <1>1 DEF Init, TypeOK

LEMMA StepTypeOK ==
  ASSUME TypeOK, NEW r \in Requests, Step(r)
  PROVE  TypeOK'
  <1> USE DEF TypeOK, Goto, Answered, Handling
  <1>1. CASE Call(r)
    BY <1>1 DEF Call
  <1>2. CASE Check(r)
    BY <1>2 DEF Check
  <1>3. CASE ReturnCached(r)
    BY <1>3 DEF ReturnCached
  <1>4. CASE FindCluster(r)
    BY <1>4 DEF FindCluster
  <1>5. CASE FindClusterFails(r)
    BY <1>5 DEF FindClusterFails
  <1>6. CASE Build(r)
    BY <1>6 DEF Build
  <1>7. CASE CheckPermission(r)
    BY <1>7 DEF CheckPermission
  <1>8. CASE PickOld(r)
    BY <1>8 DEF PickOld
  <1>9. CASE StopOld(r)
    BY <1>9 DEF StopOld
  <1>10. CASE Assign(r)
    BY <1>10 DEF Assign
  <1>11. CASE Sync(r)
    BY <1>11 DEF Sync
  <1> QED
    BY <1>1, <1>2, <1>3, <1>4, <1>5, <1>6, <1>7, <1>8, <1>9, <1>10, <1>11 DEF Step

LEMMA EditTypeOK == TypeOK /\ EditClusters => TypeOK'
  BY DEF TypeOK, EditClusters

\* Every reachable state has the types the module states.
THEOREM TypeCorrect == Spec => []TypeOK
  <1>1. TypeOK /\ [Next]_vars => TypeOK'
    BY StepTypeOK, EditTypeOK DEF Next, TypeOK
  <1> QED BY <1>1, InitTypeOK, PTL DEF Spec

-----------------------------------------------------------------------------
(***************************************************************************)
(* The life of a manager: built and running before it is placed; placed;   *)
(* stopped, by a call that picked it while it was current and that goes on *)
(* to place its own.                                                       *)
(***************************************************************************)
Placed(m) == pc[m] \in {"sync", "ok"}

Waiting(m) == pc[m] \in {"permission", "pick", "stopOld", "assign"}

WaitingRuns == \A m \in Requests : Waiting(m) => informers[m] = "running"

\* Only a placed manager is current, or about to be stopped.
CurrentPlaced == current # None => Placed(current)

PickedPlaced ==
    \A r \in Requests :
        /\ pc[r] = "pick" => current # None
        /\ pc[r] = "stopOld" => old[r] \in Requests /\ Placed(old[r])

\* A current manager whose informers do not run is about to be replaced.
DeadIsReplaced ==
    current # None =>
        \/ informers[current] = "running"
        \/ \E r \in Requests : pc[r] = "assign" /\ old[r] = current

Lifecycle == WaitingRuns /\ CurrentPlaced /\ PickedPlaced /\ DeadIsReplaced

LEMMA InitLifecycle == Init => Lifecycle
  BY DEF Init, Lifecycle, WaitingRuns, CurrentPlaced, PickedPlaced, DeadIsReplaced, Waiting

LEMMA StepLifecycle ==
  ASSUME TypeOK, Lifecycle, NEW r \in Requests, Step(r)
  PROVE  Lifecycle'
  <1> USE DEF Lifecycle, WaitingRuns, CurrentPlaced, PickedPlaced, Placed, Waiting, Goto
  <1>1. /\ pc \in [Requests -> {"idle"} \cup Answered \cup Handling]
        /\ informers \in [Requests -> {"none", "running", "stopped"}]
        /\ old \in [Requests -> Requests \cup {None}]
        /\ current \in Requests \cup {None}
    BY DEF TypeOK
  \* A step that touches neither the variable nor a stop channel.
  <1>2. ASSUME current' = current, pc[r] # "assign", NEW step, Goto(r, step),
               \A q \in Requests : q # r => old'[q] = old[q],
               current # None => informers'[current] = informers[current]
        PROVE  DeadIsReplaced'
    <2> SUFFICES ASSUME current # None, informers[current] # "running"
                 PROVE  \E q \in Requests : pc'[q] = "assign" /\ old'[q] = current
      BY <1>2 DEF DeadIsReplaced
    <2>1. PICK q \in Requests : pc[q] = "assign" /\ old[q] = current
      BY DEF DeadIsReplaced
    <2>2. q # r /\ pc'[q] = pc[q] /\ old'[q] = old[q]
      BY <1>1, <1>2, <2>1
    <2> QED BY <2>1, <2>2
  <1>3. ASSUME current' = current, informers' = informers, old' = old, NEW step, Goto(r, step),
               pc[r] \notin {"assign", "sync", "ok"},
               step \notin {"permission", "pick", "stopOld"},
               step = "assign" => Waiting(r)
        PROVE  Lifecycle'
    BY <1>1, <1>2, <1>3
  <1>4. CASE Call(r)
    BY <1>3, <1>4 DEF Call
  <1>5. CASE Check(r)
    BY <1>3, <1>5 DEF Check
  <1>6. CASE ReturnCached(r)
    BY <1>3, <1>6 DEF ReturnCached
  <1>7. CASE FindCluster(r) \/ FindClusterFails(r)
    BY <1>3, <1>7 DEF FindCluster, FindClusterFails
  <1>8. CASE Build(r)
    <2>1. CASE built[r] \in Buildable
      <3>1. /\ informers' = [informers EXCEPT ![r] = "running"]
            /\ pc' = [pc EXCEPT ![r] = "permission"] /\ pc[r] = "build"
            /\ current' = current /\ old' = old
        BY <1>8, <2>1 DEF Build
      <3>2. current # r
        BY <3>1, NoneAssumption
      <3>3. DeadIsReplaced'
        BY <1>1, <1>2, <3>1, <3>2
      <3> QED BY <1>1, <3>1, <3>3
    <2>2. CASE built[r] \notin Buildable
      BY <1>3, <1>8, <2>2 DEF Build
    <2> QED BY <2>1, <2>2
  <1>9. CASE CheckPermission(r)
    <2>1. /\ current' = current /\ informers' = informers /\ old' = old
          /\ pc[r] = "permission"
          /\ Goto(r, "denied") \/ Goto(r, "assign") \/ (Goto(r, "pick") /\ current # None)
      BY <1>9 DEF CheckPermission
    <2>2. CASE Goto(r, "denied") \/ Goto(r, "assign")
      BY <1>3, <2>1, <2>2
    <2>3. CASE Goto(r, "pick") /\ current # None
      <3>1. DeadIsReplaced'
        BY <1>1, <1>2, <2>1, <2>3
      <3> QED BY <1>1, <2>1, <2>3, <3>1
    <2> QED BY <2>1, <2>2, <2>3
  <1>10. CASE PickOld(r)
    <2>1. /\ current' = current /\ informers' = informers
          /\ old' = [old EXCEPT ![r] = current]
          /\ pc[r] = "pick" /\ Goto(r, "stopOld")
      BY <1>10 DEF PickOld
    <2>2. current \in Requests /\ Placed(current)
      BY <1>1, <2>1
    <2>3. DeadIsReplaced'
      BY <1>1, <1>2, <2>1
    <2> QED BY <1>1, <2>1, <2>2, <2>3
  <1>11. CASE StopOld(r)
    <2>1. /\ pc[r] = "stopOld"
          /\ informers' = [informers EXCEPT ![old[r]] = "stopped"]
          /\ current' = current /\ old' = old
          /\ Goto(r, IF informers[old[r]] = "stopped" THEN "panic" ELSE "assign")
      BY <1>11 DEF StopOld
    <2>2. old[r] \in Requests /\ Placed(old[r]) /\ old[r] # r
      BY <1>1, <2>1
    <2>3. WaitingRuns' /\ CurrentPlaced' /\ PickedPlaced'
      BY <1>1, <2>1, <2>2
    <2>4. DeadIsReplaced'
      <3>1. CASE old[r] # current \/ informers[old[r]] = "stopped"
        <4>1. current # None => informers'[current] = informers[current]
          BY <1>1, <2>1, <2>2, <3>1
        <4> QED BY <1>2, <2>1, <4>1
      <3>2. CASE old[r] = current /\ informers[old[r]] # "stopped"
        BY <1>1, <2>1, <3>2 DEF DeadIsReplaced
      <3> QED BY <3>1, <3>2
    <2> QED BY <2>3, <2>4
  <1>12. CASE Assign(r)
    <2>1. informers[r] = "running" /\ current' = r /\ informers' = informers
      BY <1>12 DEF Assign
    <2>2. DeadIsReplaced'
      BY <2>1 DEF DeadIsReplaced
    <2> QED BY <1>1, <1>12, <2>2, NoneAssumption DEF Assign
  <1>13. CASE Sync(r)
    <2>1. current' = current /\ informers' = informers /\ old' = old
          /\ pc[r] = "sync" /\ Goto(r, "ok")
      BY <1>13 DEF Sync
    <2>2. DeadIsReplaced'
      BY <1>1, <1>2, <2>1
    <2> QED BY <1>1, <2>1, <2>2
  <1> QED
    BY <1>4, <1>5, <1>6, <1>7, <1>8, <1>9, <1>10, <1>11, <1>12, <1>13 DEF Step

LEMMA OtherLifecycle ==
  ASSUME Lifecycle, EditClusters \/ UNCHANGED vars
  PROVE  Lifecycle'
  BY DEF EditClusters, Lifecycle, WaitingRuns, CurrentPlaced, PickedPlaced, DeadIsReplaced,
         Placed, Waiting

LEMMA LifecycleCorrect == Spec => []Lifecycle
  <1>1. TypeOK /\ Lifecycle /\ [Next]_vars => Lifecycle'
    BY StepLifecycle, OtherLifecycle DEF Next
  <1> QED BY <1>1, InitLifecycle, TypeCorrect, PTL DEF Spec

\* Once no call is running, the current manager is one whose informers run.
THEOREM CurrentManagerRuns == Spec => []CurrentRuns
  <1>1. Lifecycle => CurrentRuns
    BY DEF Lifecycle, DeadIsReplaced, CurrentRuns, Quiet, InFlight, Handling
  <1> QED BY <1>1, LifecycleCorrect, PTL

\* What takes the place of the current manager is running at that moment.
THEOREM SwitchesAreToRunningManagers == Spec => SwitchesToRunning
  <1> DEFINE Alive == current' # current => current' # None /\ informers[current'] = "running"
  <1>1. Lifecycle /\ [Next]_vars => Alive
    <2> SUFFICES ASSUME Lifecycle, Next, current' # current PROVE Alive
      OBVIOUS
    <2>1. PICK r \in Requests : Assign(r)
      BY DEF Next, EditClusters, Step, Call, Check, ReturnCached, FindCluster,
             FindClusterFails, Build, CheckPermission, PickOld, StopOld, Sync
    <2> QED BY <2>1, NoneAssumption DEF Assign, Lifecycle, WaitingRuns, Waiting
  <1>2. Spec => [][Alive]_vars
    BY <1>1, LifecycleCorrect, PTL DEF Spec
  <1> QED BY <1>2 DEF SwitchesToRunning

-----------------------------------------------------------------------------
(***************************************************************************)
(* Calls that no other call overlaps.  What such a call reads stays true   *)
(* until it acts on it.                                                    *)
(***************************************************************************)
Apart == \A r, q \in InFlight : alone[r] => r = q

\* The second read of the fast path finds what the first one found.
AloneHits ==
    \A r \in Requests : pc[r] = "cached" =>
        /\ current # None
        /\ alone[r] => NameOf(current) = name[r]

AnswersPlaced ==
    \A r \in Requests : pc[r] = "ok" =>
        /\ returned[r] \in Requests
        /\ Placed(returned[r])
        /\ alone[r] => NameOf(returned[r]) = name[r]

\* What it stops is the current manager, and runs; what it replaces is stopped.
AloneReplaces ==
    \A r \in Requests : alone[r] =>
        /\ pc[r] = "stopOld" => old[r] = current /\ informers[current] = "running"
        /\ pc[r] = "assign" => current = None \/ informers[current] = "stopped"
        /\ pc[r] # "panic"

\* When no two calls ever overlapped, what runs is current, refused or on its
\* way to be one of the two.
NoOrphans ==
    (\A r \in Requests : alone[r]) =>
        \A m \in Requests : informers[m] = "running" =>
            m = current \/ pc[m] = "denied" \/ Waiting(m)

Solo == Apart /\ AloneHits /\ AnswersPlaced /\ AloneReplaces /\ NoOrphans

LEMMA InitSolo == Init => Solo
  BY DEF Init, Solo, Apart, InFlight, Handling, AloneHits, AnswersPlaced, AloneReplaces, NoOrphans

\* A call that is still alone after the step of another one was not running.
LEMMA Undisturbed ==
  ASSUME TypeOK, Apart, NEW r \in Requests, Step(r)
  PROVE  /\ \A q \in Requests : q # r /\ alone'[q] => pc[q] \notin Handling
         /\ \A q \in Requests : alone'[q] => alone[q]
         /\ \A q \in Requests : q # r => /\ pc'[q] = pc[q] /\ name'[q] = name[q]
                                         /\ old'[q] = old[q] /\ returned'[q] = returned[q]
  <1>1. /\ pc \in [Requests -> {"idle"} \cup Answered \cup Handling]
        /\ name \in [Requests -> Names]
        /\ old \in [Requests -> Requests \cup {None}]
        /\ returned \in [Requests -> Requests \cup {None}]
        /\ alone \in [Requests -> BOOLEAN]
    BY DEF TypeOK
  <1> USE DEF Goto
  <1>2. CASE Call(r)
    <2>1. alone' = IF InFlight = {} THEN alone
                   ELSE [q \in Requests |-> alone[q] /\ q \notin InFlight /\ q # r]
      BY <1>2 DEF Call
    <2>2. /\ \A q \in Requests : q # r /\ alone'[q] => pc[q] \notin Handling
          /\ \A q \in Requests : alone'[q] => alone[q]
      <3>1. CASE InFlight = {}
        BY <2>1, <3>1 DEF InFlight
      <3>2. CASE InFlight # {}
        BY <2>1, <3>2 DEF InFlight
      <3> QED BY <3>1, <3>2
    <2>3. /\ UNCHANGED <<old, returned>>
          /\ \A q \in Requests : q # r => pc'[q] = pc[q] /\ name'[q] = name[q]
      BY <1>1, <1>2 DEF Call
    <2> QED BY <2>2, <2>3
  <1>3. ASSUME pc[r] \in Handling, alone' = alone, name' = name,
               NEW step, pc' = [pc EXCEPT ![r] = step],
               \A q \in Requests : q # r => old'[q] = old[q] /\ returned'[q] = returned[q]
        PROVE  /\ \A q \in Requests : q # r /\ alone'[q] => pc[q] \notin Handling
               /\ \A q \in Requests : alone'[q] => alone[q]
               /\ \A q \in Requests : q # r => /\ pc'[q] = pc[q] /\ name'[q] = name[q]
                                               /\ old'[q] = old[q] /\ returned'[q] = returned[q]
    BY <1>1, <1>3 DEF Apart, InFlight
  <1>4. CASE Check(r) \/ FindCluster(r) \/ FindClusterFails(r) \/ Build(r) \/ CheckPermission(r)
    <2>1. /\ pc[r] \in Handling /\ UNCHANGED <<alone, name, old, returned>>
          /\ \E step : pc' = [pc EXCEPT ![r] = step]
      BY <1>4 DEF Check, FindCluster, FindClusterFails, Build, CheckPermission, Handling
    <2> QED BY <1>3, <2>1
  <1>5. CASE ReturnCached(r) \/ Sync(r)
    <2>1. /\ pc[r] \in Handling /\ UNCHANGED <<alone, name, old>>
          /\ \A q \in Requests : q # r => returned'[q] = returned[q]
          /\ \E step : pc' = [pc EXCEPT ![r] = step]
      BY <1>1, <1>5 DEF ReturnCached, Sync, Handling
    <2> QED BY <1>3, <2>1
  <1>6. CASE PickOld(r)
    <2>1. /\ pc[r] \in Handling /\ UNCHANGED <<alone, name, returned>>
          /\ \A q \in Requests : q # r => old'[q] = old[q]
          /\ \E step : pc' = [pc EXCEPT ![r] = step]
      BY <1>1, <1>6 DEF PickOld, Handling
    <2> QED BY <1>3, <2>1
  <1>7. CASE StopOld(r) \/ Assign(r)
    <2>1. /\ pc[r] \in Handling /\ UNCHANGED <<alone, name, old, returned>>
          /\ \E step : pc' = [pc EXCEPT ![r] = step]
      BY <1>7 DEF StopOld, Assign, Handling
    <2> QED BY <1>3, <2>1
  <1> QED BY <1>2, <1>4, <1>5, <1>6, <1>7 DEF Step

LEMMA StepApart ==
  ASSUME TypeOK, Apart, NEW r \in Requests, Step(r)
  PROVE  Apart'
  <1>1. \A q \in Requests : q # r => pc'[q] = pc[q]
    BY Undisturbed
  <1>2. CASE Call(r)
    <2>1. CASE InFlight = {}
      <3>1. InFlight' \subseteq {r}
        BY <1>1, <2>1 DEF InFlight
      <3> QED BY <3>1 DEF Apart
    <2>2. CASE InFlight # {}
      <3>1. \A q \in InFlight' : ~ alone'[q]
        BY <1>1, <1>2, <2>2 DEF Call, InFlight
      <3> QED BY <3>1 DEF Apart
    <2> QED BY <2>1, <2>2
  <1>3. CASE ~ Call(r)
    <2>1. pc[r] \in Handling /\ alone' = alone
      BY <1>3 DEF Step, Check, ReturnCached, FindCluster, FindClusterFails, Build,
             CheckPermission, PickOld, StopOld, Assign, Sync, Handling
    <2>2. InFlight' \subseteq InFlight
      BY <1>1, <2>1 DEF InFlight
    <2> QED BY <2>1, <2>2 DEF Apart
  <1> QED BY <1>2, <1>3

\* Who is current or was handed out keeps its name and its place.
LEMMA StepAnswers ==
  ASSUME TypeOK, Lifecycle, Solo, NEW r \in Requests, Step(r)
  PROVE  AloneHits' /\ AnswersPlaced'
  <1>1. /\ \A q \in Requests : q # r /\ alone'[q] => pc[q] \notin Handling
        /\ \A q \in Requests : alone'[q] => alone[q]
        /\ \A q \in Requests : q # r => pc'[q] = pc[q] /\ name'[q] = name[q]
                                        /\ returned'[q] = returned[q]
    BY Undisturbed DEF Solo
  <1>2. current # None => current \in Requests /\ Placed(current)
    BY DEF TypeOK, Lifecycle, CurrentPlaced
  <1>3. current' = current \/ current' = r
    BY DEF Step, Call, Check, ReturnCached, FindCluster, FindClusterFails, Build,
             CheckPermission, PickOld, StopOld, Assign, Sync
  <1>4. r # None /\ pc \in [Requests -> {"idle"} \cup Answered \cup Handling]
        /\ name \in [Requests -> Names]
        /\ returned \in [Requests -> Requests \cup {None}]
    BY NoneAssumption DEF TypeOK
  <1>5. \A m \in Requests : Placed(m) => Placed(m)'
    <2>1. Placed(r) => Placed(r)'
      BY <1>4 DEF Placed, Step, Goto, Call, Check, ReturnCached, FindCluster, FindClusterFails,
             Build, CheckPermission, PickOld, StopOld, Assign, Sync
    <2> QED BY <1>1, <2>1 DEF Placed
  <1>6. \A m \in Requests : Placed(m) => name'[m] = name[m]
    <2>1. Placed(r) => name'[r] = name[r]
      BY DEF Placed, Step, Call, Check, ReturnCached, FindCluster, FindClusterFails, Build,
             CheckPermission, PickOld, StopOld, Assign, Sync
    <2> QED BY <1>1, <2>1
  <1>7. ASSUME NEW q \in Requests, pc'[q] = "cached"
        PROVE  current' # None /\ (alone'[q] => NameOf(current)' = name'[q])
    <2>1. CASE q # r
      <3>1. pc[q] = "cached"
        BY <1>1, <1>7, <2>1
      <3> QED BY <1>1, <1>3, <1>4, <2>1, <3>1 DEF Solo, AloneHits, Handling
    <2>2. CASE q = r
      <3>1. Check(r) /\ IsCurrent(name[r])
        BY <1>4, <1>7, <2>2 DEF Step, Goto, Call, Check, ReturnCached, FindCluster,
             FindClusterFails, Build, CheckPermission, PickOld, StopOld, Assign, Sync
      <3>2. current' = current /\ name' = name
        BY <3>1 DEF Check
      <3> QED BY <2>2, <3>1, <3>2 DEF IsCurrent, NameOf
    <2> QED BY <2>1, <2>2
  <1>8. ASSUME NEW q \in Requests, pc'[q] = "ok"
        PROVE  /\ returned'[q] \in Requests
               /\ Placed(returned[q])'
               /\ alone'[q] => NameOf(returned[q])' = name'[q]
    <2>1. CASE q # r
      <3>1. pc[q] = "ok"
        BY <1>1, <1>8, <2>1
      <3>2. /\ returned[q] \in Requests /\ Placed(returned[q])
            /\ alone[q] => NameOf(returned[q]) = name[q]
        BY <3>1 DEF Solo, AnswersPlaced
      <3>3. returned'[q] = returned[q] /\ name'[q] = name[q]
        BY <1>1, <2>1
      <3> QED BY <1>1, <1>5, <1>6, <3>2, <3>3 DEF NameOf, Placed
    <2>2. CASE q = r /\ ReturnCached(r)
      <3>1. /\ returned'[r] = current /\ name' = name /\ pc[r] = "cached"
            /\ alone' = alone
        BY <1>4, <2>2 DEF ReturnCached
      <3>2. current \in Requests /\ Placed(current)
            /\ (alone[r] => NameOf(current) = name[r])
        BY <1>2, <3>1 DEF Solo, AloneHits
      <3> QED BY <1>5, <2>2, <3>1, <3>2 DEF NameOf, Placed
    <2>3. CASE q = r /\ Sync(r)
      <3>1. returned'[r] = r
        BY <1>4, <2>3 DEF Sync
      <3> QED BY <1>8, <2>3, <3>1 DEF NameOf, Placed
    <2>4. CASE q = r /\ ~ ReturnCached(r) /\ ~ Sync(r)
      BY <1>4, <1>8, <2>4 DEF Step, Goto, Call, Check, FindCluster,
             FindClusterFails, Build, CheckPermission, PickOld, StopOld, Assign
    <2> QED BY <2>1, <2>2, <2>3, <2>4
  <1> QED BY <1>7, <1>8 DEF AloneHits, AnswersPlaced

LEMMA StepReplaces ==
  ASSUME TypeOK, Lifecycle, Solo, NEW r \in Requests, Step(r)
  PROVE  AloneReplaces'
  <1>1. /\ \A q \in Requests : q # r /\ alone'[q] => pc[q] \notin Handling
        /\ \A q \in Requests : alone'[q] => alone[q]
        /\ \A q \in Requests : q # r => pc'[q] = pc[q] /\ old'[q] = old[q]
    BY Undisturbed DEF Solo
  <1>2. /\ pc \in [Requests -> {"idle"} \cup Answered \cup Handling]
        /\ informers \in [Requests -> {"none", "running", "stopped"}]
        /\ old \in [Requests -> Requests \cup {None}]
        /\ current \in Requests \cup {None}
    BY DEF TypeOK
  <1>3. SUFFICES ASSUME NEW q \in Requests, alone'[q]
                 PROVE  /\ pc'[q] = "stopOld" =>
                              old'[q] = current' /\ informers'[current'] = "running"
                        /\ pc'[q] = "assign" => current' = None \/ informers'[current'] = "stopped"
                        /\ pc'[q] # "panic"
    BY DEF AloneReplaces
  <1>4. alone[q]
    BY <1>1, <1>3
  <1>5. /\ pc[q] = "stopOld" => old[q] = current /\ informers[current] = "running"
        /\ pc[q] = "assign" => current = None \/ informers[current] = "stopped"
        /\ pc[q] # "panic"
    BY <1>4 DEF Solo, AloneReplaces
  <1>6. CASE q # r
    BY <1>1, <1>3, <1>5, <1>6 DEF Handling
  <1> USE DEF Goto
  <1>7. CASE q = r
    <2>1. CASE PickOld(r)
      <3>1. /\ pc[r] = "pick" /\ pc'[r] = "stopOld" /\ old'[r] = current
            /\ UNCHANGED <<current, informers>>
        BY <1>2, <2>1 DEF PickOld
      <3>2. current # None
        BY <3>1 DEF Lifecycle, PickedPlaced
      <3>3. \A p \in Requests : pc[p] # "assign"
        BY <1>4, <1>7, <3>1 DEF Solo, Apart, InFlight, Handling
      <3>4. informers[current] = "running"
        BY <3>2, <3>3 DEF Lifecycle, DeadIsReplaced
      <3> QED BY <1>7, <3>1, <3>4
    <2>2. CASE StopOld(r)
      <3>1. /\ pc[r] = "stopOld" /\ current' = current
            /\ informers' = [informers EXCEPT ![old[r]] = "stopped"]
            /\ pc'[r] = IF informers[old[r]] = "stopped" THEN "panic" ELSE "assign"
        BY <1>2, <2>2 DEF StopOld
      <3>2. old[r] \in Requests /\ old[r] = current /\ informers[current] = "running"
        BY <1>5, <1>7, <3>1 DEF Lifecycle, PickedPlaced
      <3> QED BY <1>2, <1>7, <3>1, <3>2
    <2>3. CASE CheckPermission(r)
      <3>1. /\ UNCHANGED <<current, informers>>
            /\ pc'[r] \in {"denied", "pick"} \/ (pc'[r] = "assign" /\ current = None)
        BY <1>2, <2>3 DEF CheckPermission
      <3> QED BY <1>7, <3>1
    <2>4. CASE ~ PickOld(r) /\ ~ StopOld(r) /\ ~ CheckPermission(r)
      <3>1. pc'[r] \notin {"stopOld", "assign", "panic"}
        BY <1>2, <2>4 DEF Step, Call, Check, ReturnCached, FindCluster, FindClusterFails,
               Build, Assign, Sync
      <3> QED BY <1>7, <3>1
    <2> QED BY <2>1, <2>2, <2>3, <2>4
  <1> QED BY <1>6, <1>7

LEMMA StepOrphans ==
  ASSUME TypeOK, Lifecycle, Solo, NEW r \in Requests, Step(r)
  PROVE  NoOrphans'
  <1>1. /\ \A q \in Requests : alone'[q] => alone[q]
        /\ \A q \in Requests : q # r => pc'[q] = pc[q]
    BY Undisturbed DEF Solo
  <1>2. /\ pc \in [Requests -> {"idle"} \cup Answered \cup Handling]
        /\ informers \in [Requests -> {"none", "running", "stopped"}]
        /\ old \in [Requests -> Requests \cup {None}]
    BY DEF TypeOK
  <1>3. SUFFICES ASSUME \A q \in Requests : alone'[q],
                        NEW m \in Requests, informers'[m] = "running"
                 PROVE  m = current' \/ pc'[m] = "denied" \/ Waiting(m)'
    BY DEF NoOrphans
  <1>4. \A q \in Requests : alone[q]
    BY <1>1, <1>3
  <1>5. informers[m] = "running" => m = current \/ pc[m] = "denied" \/ Waiting(m)
    BY <1>4 DEF Solo, NoOrphans
  <1> USE DEF Goto, Waiting
  <1>6. CASE Assign(r)
    <2>1. /\ pc[r] = "assign" /\ current' = r /\ informers' = informers
          /\ current = None \/ informers[current] = "stopped"
      BY <1>4, <1>6 DEF Assign, Solo, AloneReplaces
    <2> QED BY <1>1, <1>3, <1>5, <2>1, NoneAssumption
  <1>7. CASE Build(r)
    <2>1. /\ current' = current
          /\ m = r => pc'[r] = "permission" \/ informers[r] = "running"
          /\ m # r => informers'[m] = informers[m]
          /\ pc[r] = "build"
      BY <1>2, <1>3, <1>7 DEF Build
    <2> QED BY <1>1, <1>3, <1>5, <2>1
  <1>8. CASE StopOld(r)
    <2>1. /\ current' = current /\ informers[m] = "running"
          /\ pc[r] = "stopOld"
          /\ pc'[r] = IF informers[old[r]] = "stopped" THEN "panic" ELSE "assign"
      BY <1>2, <1>3, <1>8 DEF StopOld
    <2>2. informers[old[r]] = "running"
      BY <1>4, <2>1 DEF Solo, AloneReplaces
    <2> QED BY <1>1, <1>5, <2>1, <2>2
  <1>9. CASE ~ Assign(r) /\ ~ Build(r) /\ ~ StopOld(r)
    <2>1. current' = current /\ informers' = informers
      BY <1>9 DEF Step, Call, Check, ReturnCached, FindCluster, FindClusterFails,
             CheckPermission, PickOld, Sync
    <2>2. pc[r] # "denied" /\ (Waiting(r) => pc'[r] = "denied" \/ Waiting(r)')
      BY <1>2, <1>9 DEF Step, Call, Check, ReturnCached, FindCluster, FindClusterFails,
             CheckPermission, PickOld, Sync
    <2> QED BY <1>1, <1>3, <1>5, <2>1, <2>2
  <1> QED BY <1>6, <1>7, <1>8, <1>9

LEMMA SoloCorrect == Spec => []Solo
  <1>1. TypeOK /\ Lifecycle /\ Solo /\ (\E r \in Requests : Step(r)) => Solo'
    BY StepApart, StepAnswers, StepReplaces, StepOrphans DEF Solo
  <1>2. Solo /\ (EditClusters \/ UNCHANGED vars) => Solo'
    BY DEF EditClusters, Solo, Apart, InFlight, AloneHits, AnswersPlaced, AloneReplaces,
           NoOrphans, Placed, Waiting, NameOf
  <1>3. TypeOK /\ Lifecycle /\ Solo /\ [Next]_vars => Solo'
    BY <1>1, <1>2 DEF Next
  <1> QED BY <1>3, InitSolo, TypeCorrect, LifecycleCorrect, PTL DEF Spec

\* A call that no other overlaps gets a manager of the cluster it asked for,
\* whatever the calls before it did to each other.
THEOREM AloneGetsTheRightManager == Spec => []AloneGetsRightManager
  <1>1. Solo => AloneGetsRightManager
    BY DEF Solo, AnswersPlaced, AloneGetsRightManager
  <1> QED BY <1>1, SoloCorrect, PTL

\* A call that no other overlaps does not panic, and as long as no two calls
\* overlap every manager that is replaced is stopped.
THEOREM OnlyOneManagerRuns == Spec => []OneManagerRuns
  <1>1. Solo => OneManagerRuns
    BY DEF Solo, AloneReplaces, NoOrphans, OneManagerRuns, Quiet, InFlight, Waiting, Handling
  <1> QED BY <1>1, SoloCorrect, PTL
=============================================================================
