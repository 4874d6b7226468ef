------------------------ MODULE ClusterRegistryProofs ------------------------
(***************************************************************************)
(* What holds of ClusterRegistry for every set of requests, names and      *)
(* contents, and however many requests are handled at the same time.       *)
(***************************************************************************)
EXTENDS ClusterRegistry, TLAPS

USE DEF vars

LEMMA RequestManager == \A r \in Requests : <<"request", r>> \in Managers
  BY DEF Managers

\* What InitKube leaves behind: a map whose managers are different, running and
\* none of them a request's.
LEMMA BootFacts ==
  ASSUME NEW table \in [Names -> Cfgs \cup {None}]
  PROVE  /\ BootSets(table) \in [Names -> Managers \cup {None}]
         /\ BootInformers(table) \in [Managers -> {"none", "running", "stopped"}]
         /\ BootBuilt(table) \in [Managers -> Cfgs \cup {None}]
         /\ \A n \in Names : BootSets(table)[n] # None =>
               BootInformers(table)[BootSets(table)[n]] = "running"
         /\ \A n, k \in Names :
               BootSets(table)[n] = BootSets(table)[k] /\ BootSets(table)[n] # None => n = k
         /\ \A r \in Requests : BootInformers(table)[<<"request", r>>] = "none"
         /\ \A n \in Names : table[n] \in Buildable =>
               /\ BootSets(table)[n] = <<"row", n>>
               /\ <<"row", n>> \in Managers
               /\ BootBuilt(table)[<<"row", n>>] = table[n]
         /\ \A n \in Names \ LocalNames : table[n] = None => BootSets(table)[n] = None
  <1>1. \A n \in Names : BootSets(table)[n] \in {<<"row", n>>, <<"context", n>>, None}
    BY DEF BootSets
  <1>2. \A n \in Names : <<"row", n>> \in Managers /\ <<"context", n>> \in Managers
    BY DEF Managers
  <1>3. BootSets(table) \in [Names -> Managers \cup {None}]
    BY <1>1, <1>2 DEF BootSets
  <1>4. BootInformers(table) \in [Managers -> {"none", "running", "stopped"}]
    BY DEF BootInformers
  <1>5. BootBuilt(table) \in [Managers -> Cfgs \cup {None}]
    <2> SUFFICES ASSUME NEW m \in Managers
                 PROVE  BootBuilt(table)[m] \in Cfgs \cup {None}
      BY DEF BootBuilt
    <2>1. CASE m \in {"request"} \X Requests
      BY <2>1 DEF BootBuilt
    <2>2. CASE m \in {"row", "context"} \X Names
      BY <2>2 DEF BootBuilt
    <2> QED BY <2>1, <2>2 DEF Managers
  <1>6. \A n \in Names : BootSets(table)[n] # None =>
               BootInformers(table)[BootSets(table)[n]] = "running"
    BY <1>2 DEF BootSets, BootInformers, BootManagers
  <1>7. \A n, k \in Names :
               BootSets(table)[n] = BootSets(table)[k] /\ BootSets(table)[n] # None => n = k
    BY <1>1
  <1>8. \A r \in Requests : BootInformers(table)[<<"request", r>>] = "none"
    BY RequestManager DEF BootInformers, BootManagers
  <1>9. \A n \in Names : table[n] \in Buildable =>
               /\ BootSets(table)[n] = <<"row", n>>
               /\ <<"row", n>> \in Managers
               /\ BootBuilt(table)[<<"row", n>>] = table[n]
    BY <1>2 DEF BootSets, BootBuilt
  <1>10. \A n \in Names \ LocalNames : table[n] = None => BootSets(table)[n] = None
    BY NoneAssumption, BuildableAssumption DEF BootSets
  <1> QED BY <1>3, <1>4, <1>5, <1>6, <1>7, <1>8, <1>9, <1>10

-----------------------------------------------------------------------------
(***************************************************************************)
(* Type correctness.                                                       *)
(***************************************************************************)
LEMMA InitTypeOK == Init => TypeOK
  <1> SUFFICES ASSUME Init PROVE TypeOK
    OBVIOUS
  <1>1. rows \in [Names -> Cfgs \cup {None}]
    BY DEF Init
  <1>2. RequestRecord # {}
    <2> PICK n \in Names, c \in Cfgs : TRUE
      BY NonEmptyAssumption
    <2>1. [op |-> "add", name |-> n, cfg |-> c] \in RequestRecord
      BY DEF RequestRecord, Ops
    <2> QED BY <2>1
  <1>3. (CHOOSE blank \in RequestRecord : TRUE) \in RequestRecord
    BY <1>2
  <1>4. req \in [Requests -> RequestRecord]
    BY <1>3 DEF Init
  <1> QED BY <1>1, <1>4, BootFacts DEF Init, TypeOK

\* A request that is served has one of the four operations and its steps keep
\* the types of everything it touches.
LEMMA StepTypeOK ==
  ASSUME TypeOK, NEW r \in Requests, Step(r)
  PROVE  TypeOK'
  <1> USE DEF TypeOK, Goto
  <1>1. \A n \in Names : sets[n] \in Managers \cup {None}
    OBVIOUS
  <1>2. req[r].op \in Ops /\ req[r].name \in Names /\ req[r].cfg \in Cfgs
    BY DEF RequestRecord
  <1>3. ASSUME NEW stop \in Handling, NEW done \in Handling \cup Answered,
               LoadAndDelete(r, stop, done)
        PROVE  TypeOK'
    BY <1>2, <1>3 DEF LoadAndDelete
  <1>4. ASSUME NEW done \in Handling \cup Answered, StopHeld(r, done)
        PROVE  TypeOK'
    BY <1>4 DEF StopHeld, Answered
  <1>5. AfterRemove(r) \in Handling \cup Answered
    BY DEF AfterRemove, Handling, Answered
  <1>6. CASE Arrive(r)
    <2> PICK asked \in RequestRecord :
               /\ req' = [req EXCEPT ![r] = asked]
               /\ Goto(r, FirstStep[asked.op])
               /\ raced' = IF HandlersOf(asked.name) = {} THEN raced
                           ELSE raced \cup {asked.name}
      BY <1>6 DEF Arrive
    <2>1. FirstStep[asked.op] \in Handling
      BY DEF RequestRecord, Ops, FirstStep, Handling
    <2>2. raced' \subseteq Names
      BY DEF RequestRecord
    <2> QED BY <1>6, <2>1, <2>2 DEF Arrive
  <1>7. CASE AddClusterManager(r)
    BY <1>7, <1>2, RequestManager DEF AddClusterManager, Handling
  <1>8. CASE AddClusterManagerFails(r)
    BY <1>8 DEF AddClusterManagerFails, Answered
  <1>9. CASE Remove(r)
    BY <1>9, <1>3, <1>5 DEF Remove, Handling
  <1>10. CASE Stop(r)
    BY <1>10, <1>4, <1>5 DEF Stop
  <1>11. CASE Rollback(r)
    BY <1>11, <1>3 DEF Rollback, Handling, Answered
  <1>12. CASE RollbackStop(r)
    BY <1>12, <1>4 DEF RollbackStop, Answered
  <1>13. CASE CreateCluster(r)
    BY <1>13, <1>2 DEF CreateCluster, WriteRow, Answered
  <1>14. CASE GetClusterByName(r)
    BY <1>14 DEF GetClusterByName, Answered, Handling
  <1>15. CASE UpdateCluster(r)
    BY <1>15, <1>2 DEF UpdateCluster, WriteRow, Answered, Handling
  <1>16. CASE Recreate(r)
    BY <1>16, <1>2 DEF Recreate, WriteRow, Answered
  <1>17. CASE DeleteCluster(r)
    BY <1>17 DEF DeleteCluster, WriteRow, Handling
  <1>18. CASE DatabaseFails(r)
    BY <1>18 DEF DatabaseFails, Answered, Handling
  <1>19. CASE GetClusterManager(r)
    BY <1>19 DEF GetClusterManager, Answered
  <1> QED
    BY <1>6, <1>7, <1>8, <1>9, <1>10, <1>11, <1>12, <1>13, <1>14, <1>15,
       <1>16, <1>17, <1>18, <1>19 DEF Step

LEMMA RestartTypeOK == TypeOK /\ Restart => TypeOK'
  <1> SUFFICES ASSUME TypeOK, Restart PROVE TypeOK'
    OBVIOUS
  <1>1. rows \in [Names -> Cfgs \cup {None}]
    BY DEF TypeOK
  <1> QED BY <1>1, BootFacts DEF TypeOK, Restart

\* Every reachable state of the registry has the types the module states.
THEOREM TypeCorrect == Spec => []TypeOK
  <1>1. TypeOK /\ [Next]_vars => TypeOK'
    BY StepTypeOK, RestartTypeOK DEF Next, TypeOK
  <1> QED BY <1>1, InitTypeOK, PTL DEF Spec

-----------------------------------------------------------------------------
(***************************************************************************)
(* Who may stop a manager.  A manager is in the map under one name, or in  *)
(* the hands of one handler that will stop it, or neither; as long as it   *)
(* is in one of these places it runs.                                      *)
(***************************************************************************)
Stopping(r) == pc[r] \in {"stop", "rollbackStop"}

\* A handler builds its manager after it removed the old one, if it does.
NotYetBuilt(r) ==
    pc[r] \in {"idle", "lookup", "deleteRow", "load", "remove", "stop", "register"}

MapIsInjective ==
    \A n, k \in Names : sets[n] = sets[k] /\ sets[n] # None => n = k

HeldRuns ==
    \A r \in Requests : Stopping(r) =>
        /\ held[r] \in Managers
        /\ informers[held[r]] = "running"
        /\ \A n \in Names : sets[n] # held[r]

HeldByOne ==
    \A r, q \in Requests : Stopping(r) /\ Stopping(q) /\ held[r] = held[q] => r = q

FreshManagers ==
    \A r \in Requests : NotYetBuilt(r) => informers[<<"request", r>>] = "none"

Ownership ==
    /\ NoDoubleStop
    /\ RegisteredRuns
    /\ MapIsInjective
    /\ HeldRuns
    /\ HeldByOne
    /\ FreshManagers

LEMMA InitOwnership == Init => Ownership
  <1> SUFFICES ASSUME Init PROVE Ownership
    OBVIOUS
  <1>1. rows \in [Names -> Cfgs \cup {None}]
    BY DEF Init
  <1>2. sets = BootSets(rows) /\ informers = BootInformers(rows)
        /\ pc = [r \in Requests |-> "idle"]
    BY DEF Init
  <1> QED
    BY <1>1, <1>2, BootFacts DEF Ownership, NoDoubleStop, RegisteredRuns, MapIsInjective,
          HeldRuns, HeldByOne, FreshManagers, Stopping, NotYetBuilt

LEMMA RestartOwnership == TypeOK /\ Restart => Ownership'
  <1> SUFFICES ASSUME TypeOK, Restart PROVE Ownership'
    OBVIOUS
  <1>1. rows \in [Names -> Cfgs \cup {None}]
    BY DEF TypeOK
  <1>2. sets' = BootSets(rows) /\ informers' = BootInformers(rows)
        /\ pc' = [r \in Requests |-> IF pc[r] = "idle" THEN "idle" ELSE "gone"]
    BY DEF Restart
  <1> QED
    BY <1>1, <1>2, BootFacts DEF Ownership, NoDoubleStop, RegisteredRuns, MapIsInjective,
          HeldRuns, HeldByOne, FreshManagers, Stopping, NotYetBuilt

LEMMA StepOwnership ==
  ASSUME TypeOK, Ownership, NEW r \in Requests, Step(r)
  PROVE  Ownership'
  <1> DEFINE m == <<"request", r>>
  <1> USE DEF Goto
  <1>1. /\ req[r].op \in Ops /\ req[r].name \in Names
        /\ pc \in [Requests -> {"idle", "gone"} \cup Answered \cup Handling]
        /\ sets \in [Names -> Managers \cup {None}]
        /\ informers \in [Managers -> {"none", "running", "stopped"}]
        /\ held \in [Requests -> Managers \cup {None}]
    BY DEF TypeOK, RequestRecord
  <1> USE DEF Ownership, NoDoubleStop, RegisteredRuns, MapIsInjective, HeldRuns, HeldByOne,
              FreshManagers, Stopping, NotYetBuilt
  \* A step that leaves the map, the informers and what is held alone.
  <1>2. ASSUME UNCHANGED <<sets, informers, held>>, NEW step, Goto(r, step),
               step \notin {"panic", "idle", "stop", "rollbackStop"},
               step \in {"lookup", "deleteRow", "load", "remove", "register"}
                  => NotYetBuilt(r)
        PROVE  Ownership'
    BY <1>1, <1>2
  \* LoadAndDelete moves a manager from the map into the handler's hands.
  <1>3. ASSUME NEW stop \in {"stop", "rollbackStop"}, NEW done \in {"register", "ok", "err"},
               LoadAndDelete(r, stop, done),
               ~ Stopping(r),
               stop = "stop" \/ done = "register" => NotYetBuilt(r)
        PROVE  Ownership'
    <2> DEFINE n == req[r].name
    <2>1. /\ sets' = [sets EXCEPT ![n] = None]
          /\ held' = [held EXCEPT ![r] = sets[n]]
          /\ pc' = [pc EXCEPT ![r] = IF sets[n] = None THEN done ELSE stop]
          /\ informers' = informers
      BY <1>3 DEF LoadAndDelete
    <2>2. n \in Names
      BY <1>1
    <2> HIDE DEF n
    <2>3. NoDoubleStop' /\ RegisteredRuns' /\ MapIsInjective'
      BY <1>1, <1>3, <2>1, <2>2
    <2>4. HeldRuns'
      BY <1>1, <1>3, <2>1, <2>2, NoneAssumption
    <2>5. HeldByOne'
      BY <1>1, <1>3, <2>1, <2>2
    <2>6. FreshManagers'
      BY <1>1, <1>3, <2>1, <2>2
    <2> QED BY <2>3, <2>4, <2>5, <2>6
  \* Nobody else can reach the manager that is stopped.
  <1>4. ASSUME NEW done \in {"register", "ok", "err"}, StopHeld(r, done), Stopping(r),
               done = "register" => NotYetBuilt(r)
        PROVE  Ownership'
    <2>1. /\ held[r] \in Managers
          /\ informers[held[r]] = "running"
          /\ informers' = [informers EXCEPT ![held[r]] = "stopped"]
          /\ held' = [held EXCEPT ![r] = None]
          /\ pc' = [pc EXCEPT ![r] = done]
          /\ sets' = sets
      BY <1>4 DEF StopHeld
    <2>2. NoDoubleStop' /\ RegisteredRuns' /\ MapIsInjective'
      BY <1>1, <1>4, <2>1
    <2>3. HeldRuns'
      BY <1>1, <1>4, <2>1
    <2>4. HeldByOne'
      BY <1>1, <1>4, <2>1
    <2>5. FreshManagers'
      BY <1>1, <1>4, <2>1, RequestManager
    <2> QED BY <2>2, <2>3, <2>4, <2>5
  <1>5. AfterRemove(r) \in {"register", "ok"}
    BY DEF AfterRemove
  <1>6. CASE Arrive(r)
    <2> PICK asked \in RequestRecord : /\ req' = [req EXCEPT ![r] = asked]
                                       /\ Goto(r, FirstStep[asked.op])
      BY <1>6 DEF Arrive
    <2>1. FirstStep[asked.op] \in {"register", "lookup", "deleteRow", "load"}
      BY DEF RequestRecord, Ops, FirstStep
    <2> QED BY <1>6, <1>2, <2>1 DEF Arrive
  <1>7. CASE AddClusterManager(r)
    <2> DEFINE n == req[r].name
    <2>1. /\ pc[r] = "register"
          /\ sets' = [sets EXCEPT ![n] = m]
          /\ informers' = [informers EXCEPT ![m] = "running"]
          /\ held' = held
          /\ pc' = [pc EXCEPT ![r] = pc'[r]] /\ pc'[r] \in {"create", "save"}
      BY <1>1, <1>7 DEF AddClusterManager
    <2>2. n \in Names /\ m \in Managers /\ informers[m] = "none"
      BY <1>1, <2>1, RequestManager
    <2>3. \A q \in Requests : q # r => <<"request", q>> # m
      OBVIOUS
    <2> HIDE DEF n, m
    <2>4. NoDoubleStop' /\ RegisteredRuns'
      BY <1>1, <2>1, <2>2
    <2>5. MapIsInjective'
      BY <1>1, <2>1, <2>2
    <2>6. HeldRuns' /\ HeldByOne'
      BY <1>1, <2>1, <2>2
    <2>7. FreshManagers'
      BY <1>1, <2>1, <2>2, <2>3, RequestManager
    <2> QED BY <2>4, <2>5, <2>6, <2>7
  <1>8. CASE AddClusterManagerFails(r)
    BY <1>8, <1>2 DEF AddClusterManagerFails
  <1>9. CASE Remove(r)
    BY <1>9, <1>3, <1>5 DEF Remove
  <1>10. CASE Stop(r)
    BY <1>10, <1>4, <1>5 DEF Stop
  <1>11. CASE Rollback(r)
    BY <1>11, <1>3 DEF Rollback
  <1>12. CASE RollbackStop(r)
    BY <1>12, <1>4 DEF RollbackStop
  <1>13. CASE CreateCluster(r)
    BY <1>13, <1>2 DEF CreateCluster, WriteRow
  <1>14. CASE GetClusterByName(r)
    BY <1>14, <1>2 DEF GetClusterByName
  <1>15. CASE UpdateCluster(r)
    BY <1>15, <1>2 DEF UpdateCluster, WriteRow
  <1>16. CASE Recreate(r)
    BY <1>16, <1>2 DEF Recreate, WriteRow
  <1>17. CASE DeleteCluster(r)
    BY <1>17, <1>2 DEF DeleteCluster, WriteRow
  <1>18. CASE DatabaseFails(r)
    BY <1>18, <1>2 DEF DatabaseFails
  <1>19. CASE GetClusterManager(r)
    BY <1>19, <1>2 DEF GetClusterManager
  <1> QED
    BY <1>6, <1>7, <1>8, <1>9, <1>10, <1>11, <1>12, <1>13, <1>14, <1>15,
       <1>16, <1>17, <1>18, <1>19 DEF Step

LEMMA StutterOwnership == Ownership /\ UNCHANGED vars => Ownership'
  BY DEF Ownership, NoDoubleStop, RegisteredRuns, MapIsInjective, HeldRuns, HeldByOne,
         FreshManagers, Stopping, NotYetBuilt

THEOREM OwnershipCorrect == Spec => []Ownership
  <1>1. TypeOK /\ Ownership /\ [Next]_vars => Ownership'
    BY StepOwnership, RestartOwnership, StutterOwnership DEF Next
  <1> QED BY <1>1, InitOwnership, TypeCorrect, PTL DEF Spec

\* No handler closes the stop channel of a manager twice, whatever runs with it.
THEOREM NeverStoppedTwice == Spec => []NoDoubleStop
  <1>1. Ownership => NoDoubleStop
    BY DEF Ownership
  <1> QED BY <1>1, OwnershipCorrect, PTL

\* Whatever GetClusterManager finds in the map has its informers running.
THEOREM RegisteredManagersRun == Spec => []RegisteredRuns
  <1>1. Ownership => RegisteredRuns
    BY DEF Ownership
  <1> QED BY <1>1, OwnershipCorrect, PTL

\* A manager is stopped once, and not before it is out of the map.
THEOREM ManagersAreHandedOver == Spec => []ManagersHandedOver
  <1>1. NoDoubleStop /\ RegisteredRuns => ManagersHandedOver
    BY DEF ManagersHandedOver
  <1> QED BY <1>1, NeverStoppedTwice, RegisteredManagersRun, PTL

-----------------------------------------------------------------------------
(***************************************************************************)
(* No ghost cluster.  The invariant is inductive as it stands: a handler   *)
(* leaves Settling only with the row written or with the manager out of    *)
(* the map, a manager enters the map only at the hands of a handler that   *)
(* goes on to write the row, and a row goes only at the hands of one that  *)
(* goes on to remove the manager.                                          *)
(***************************************************************************)
LEMMA InitNoGhost == Init => NoGhostManager
  <1> SUFFICES ASSUME Init PROVE NoGhostManager
    OBVIOUS
  <1>1. rows \in [Names -> Cfgs \cup {None}] /\ sets = BootSets(rows)
        /\ \A n \in Names : rows[n] = None
    BY DEF Init
  <1> QED BY <1>1, BootFacts DEF NoGhostManager

LEMMA RestartNoGhost == TypeOK /\ Restart => NoGhostManager'
  <1> SUFFICES ASSUME TypeOK, Restart PROVE NoGhostManager'
    OBVIOUS
  <1>1. rows \in [Names -> Cfgs \cup {None}] /\ sets' = BootSets(rows) /\ rows' = rows
    BY DEF TypeOK, Restart
  <1> QED BY <1>1, BootFacts DEF NoGhostManager

LEMMA StepNoGhost ==
  ASSUME TypeOK, NoGhostManager, NEW r \in Requests, Step(r)
  PROVE  NoGhostManager'
  <1> SUFFICES ASSUME NEW n \in Names \ LocalNames, sets'[n] # None
               PROVE  rows'[n] # None \/ \E q \in Requests : req'[q].name = n /\ pc'[q] \in Settling
    BY DEF NoGhostManager
  <1> USE DEF Goto, Settling
  <1>1. /\ req[r].op \in Ops /\ req[r].name \in Names /\ req[r].cfg \in Cfgs
        /\ pc \in [Requests -> {"idle", "gone"} \cup Answered \cup Handling]
        /\ sets \in [Names -> Managers \cup {None}]
        /\ rows \in [Names -> Cfgs \cup {None}]
        /\ req \in [Requests -> RequestRecord]
    BY DEF TypeOK, RequestRecord
  <1>2. sets[n] # None =>
            rows[n] # None \/ \E q \in Requests : req[q].name = n /\ pc[q] \in Settling
    BY DEF NoGhostManager
  \* A step that neither makes a ghost nor ends a settling handler.
  <1>3. ASSUME sets[n] # None, rows[n] # None => rows'[n] # None,
               NEW step, Goto(r, step), pc[r] \in Settling => step \in Settling,
               pc[r] \in Settling => req'[r] = req[r],
               \A q \in Requests : q # r => req'[q] = req[q]
        PROVE  rows'[n] # None \/ \E q \in Requests : req'[q].name = n /\ pc'[q] \in Settling
    <2>1. CASE rows[n] # None
      BY <1>3, <2>1
    <2>2. CASE \E q \in Requests : req[q].name = n /\ pc[q] \in Settling
      <3> PICK q \in Requests : req[q].name = n /\ pc[q] \in Settling
        BY <2>2
      <3>1. req'[q] = req[q] /\ pc'[q] \in Settling
        BY <1>1, <1>3
      <3> QED BY <3>1
    <2> QED BY <1>2, <1>3, <2>1, <2>2
  \* A settling handler of another name.
  <1>4. ASSUME sets[n] # None, req[r].name # n, rows'[n] = rows[n], NEW step, Goto(r, step),
               req' = req
        PROVE  rows'[n] # None \/ \E q \in Requests : req'[q].name = n /\ pc'[q] \in Settling
    <2>1. CASE rows[n] # None
      BY <1>4, <2>1
    <2>2. CASE \E q \in Requests : req[q].name = n /\ pc[q] \in Settling
      <3> PICK q \in Requests : req[q].name = n /\ pc[q] \in Settling
        BY <2>2
      <3>1. q # r
        BY <1>4
      <3>2. req'[q] = req[q] /\ pc'[q] \in Settling
        BY <1>1, <1>4, <3>1
      <3> QED BY <3>2
    <2> QED BY <1>2, <1>4, <2>1, <2>2
  <1>5. CASE Arrive(r)
    <2>1. PICK asked \in RequestRecord : /\ req' = [req EXCEPT ![r] = asked]
                                         /\ Goto(r, FirstStep[asked.op])
      BY <1>5 DEF Arrive
    <2>2. pc[r] \notin Settling
      BY <1>5 DEF Arrive
    <2> QED BY <1>1, <1>3, <1>5, <2>1, <2>2 DEF Arrive
  <1>6. CASE AddClusterManager(r)
    <2>1. CASE req[r].name = n
      BY <1>1, <1>6, <2>1 DEF AddClusterManager
    <2>2. CASE req[r].name # n
      BY <1>1, <1>4, <1>6, <2>2 DEF AddClusterManager
    <2> QED BY <2>1, <2>2
  <1>7. ASSUME NEW stop, NEW done, LoadAndDelete(r, stop, done)
        PROVE  rows'[n] # None \/ \E q \in Requests : req'[q].name = n /\ pc'[q] \in Settling
    <2>1. req[r].name # n /\ sets[n] # None
      BY <1>1, <1>7 DEF LoadAndDelete
    <2> QED BY <1>4, <1>7, <2>1 DEF LoadAndDelete
  <1>8. ASSUME NEW done, StopHeld(r, done), pc[r] \notin Settling
        PROVE  rows'[n] # None \/ \E q \in Requests : req'[q].name = n /\ pc'[q] \in Settling
    BY <1>3, <1>8 DEF StopHeld
  <1>9. CASE Remove(r) \/ Rollback(r)
    BY <1>7, <1>9 DEF Remove, Rollback
  <1>10. CASE Stop(r) \/ RollbackStop(r)
    BY <1>8, <1>10 DEF Stop, RollbackStop
  <1>11. CASE AddClusterManagerFails(r)
    BY <1>3, <1>11 DEF AddClusterManagerFails
  <1>12. CASE GetClusterByName(r)
    BY <1>3, <1>12 DEF GetClusterByName
  <1>13. CASE GetClusterManager(r)
    BY <1>3, <1>13 DEF GetClusterManager
  <1>14. CASE DatabaseFails(r)
    BY <1>3, <1>14 DEF DatabaseFails
  <1>15. CASE CreateCluster(r) \/ Recreate(r)
    <2>1. CASE req[r].name = n
      BY <1>1, <1>15, <2>1, NoneAssumption DEF CreateCluster, Recreate, WriteRow
    <2>2. CASE req[r].name # n
      BY <1>1, <1>4, <1>15, <2>2 DEF CreateCluster, Recreate, WriteRow
    <2> QED BY <2>1, <2>2
  <1>16. CASE UpdateCluster(r)
    <2>1. CASE rows[req[r].name] = None
      BY <1>1, <1>3, <1>16, <2>1 DEF UpdateCluster, WriteRow
    <2>2. CASE rows[req[r].name] # None /\ req[r].name = n
      BY <1>1, <1>16, <2>2, NoneAssumption DEF UpdateCluster, WriteRow
    <2>3. CASE rows[req[r].name] # None /\ req[r].name # n
      BY <1>1, <1>4, <1>16, <2>3 DEF UpdateCluster, WriteRow
    <2> QED BY <2>1, <2>2, <2>3
  <1>17. CASE DeleteCluster(r)
    <2>1. CASE req[r].name = n
      BY <1>1, <1>17, <2>1 DEF DeleteCluster, WriteRow
    <2>2. CASE req[r].name # n
      BY <1>1, <1>4, <1>17, <2>2 DEF DeleteCluster, WriteRow
    <2> QED BY <2>1, <2>2
  <1> QED
    BY <1>5, <1>6, <1>9, <1>10, <1>11, <1>12, <1>13, <1>14, <1>15, <1>16, <1>17 DEF Step

\* A cluster whose row is gone is out of the map as soon as no handler of its
\* name is on its way to the row or to the map, for every interleaving of adds,
\* updates and deletes, failing database calls and crashes.
THEOREM NoGhostManagers == Spec => []NoGhostManager
  <1>1. NoGhostManager /\ UNCHANGED vars => NoGhostManager'
    BY DEF NoGhostManager
  <1>2. TypeOK /\ NoGhostManager /\ [Next]_vars => NoGhostManager'
    BY StepNoGhost, RestartNoGhost, <1>1 DEF Next
  <1> QED BY <1>2, InitNoGhost, TypeCorrect, PTL DEF Spec

-----------------------------------------------------------------------------
(***************************************************************************)
(* What a restart finds.  A handler writes a row only after its content    *)
(* has been built once, so every row builds again.                         *)
(***************************************************************************)
RowsBuild ==
    /\ \A n \in Names : rows[n] # None => rows[n] \in Buildable
    /\ \A r \in Requests : pc[r] \in {"create", "save", "recreate"} => req[r].cfg \in Buildable

LEMMA StepRowsBuild ==
  ASSUME TypeOK, RowsBuild, NEW r \in Requests, Step(r)
  PROVE  RowsBuild'
  <1> USE DEF RowsBuild, Goto
  <1>1. /\ pc \in [Requests -> {"idle", "gone"} \cup Answered \cup Handling]
        /\ rows \in [Names -> Cfgs \cup {None}]
        /\ req \in [Requests -> RequestRecord]
        /\ req[r].op \in Ops /\ req[r].name \in Names
    BY DEF TypeOK, RequestRecord
  <1>2. ASSUME rows' = rows, req' = req, NEW step, Goto(r, step),
               step \in {"create", "save", "recreate"} => req[r].cfg \in Buildable
        PROVE  RowsBuild'
    BY <1>1, <1>2
  <1>3. ASSUME NEW content, content = None \/ content \in Buildable, WriteRow(r, content),
               NEW step, Goto(r, step),
               step \in {"create", "save", "recreate"} => req[r].cfg \in Buildable
        PROVE  RowsBuild'
    BY <1>1, <1>3 DEF WriteRow
  <1>4. CASE Arrive(r)
    <2>1. PICK asked \in RequestRecord : /\ req' = [req EXCEPT ![r] = asked]
                                         /\ Goto(r, FirstStep[asked.op])
      BY <1>4 DEF Arrive
    <2>2. FirstStep[asked.op] \in {"register", "lookup", "deleteRow", "load"}
      BY DEF RequestRecord, Ops, FirstStep
    <2> QED BY <1>1, <1>4, <2>1, <2>2 DEF Arrive
  <1>5. CASE AddClusterManager(r) \/ AddClusterManagerFails(r)
    BY <1>2, <1>5 DEF AddClusterManager, AddClusterManagerFails
  <1>6. CASE Remove(r) \/ Rollback(r)
    BY <1>2, <1>6 DEF Remove, Rollback, LoadAndDelete, AfterRemove
  <1>7. CASE Stop(r) \/ RollbackStop(r)
    BY <1>2, <1>7 DEF Stop, RollbackStop, StopHeld, AfterRemove
  <1>8. CASE GetClusterByName(r) \/ GetClusterManager(r)
    BY <1>2, <1>8 DEF GetClusterByName, GetClusterManager
  <1>9. CASE DatabaseFails(r)
    BY <1>2, <1>9 DEF DatabaseFails
  <1>10. CASE CreateCluster(r)
    BY <1>3, <1>10 DEF CreateCluster
  <1>11. CASE UpdateCluster(r)
    BY <1>3, <1>11 DEF UpdateCluster
  <1>12. CASE Recreate(r)
    BY <1>1, <1>3, <1>12 DEF Recreate
  <1>13. CASE DeleteCluster(r)
    BY <1>3, <1>13 DEF DeleteCluster
  <1> QED
    BY <1>4, <1>5, <1>6, <1>7, <1>8, <1>9, <1>10, <1>11, <1>12, <1>13 DEF Step

LEMMA RowsAlwaysBuild == Spec => []RowsBuild
  <1>1. Init => RowsBuild
    BY DEF Init, RowsBuild
  <1>2. TypeOK /\ RowsBuild /\ Restart => RowsBuild'
    BY DEF TypeOK, RowsBuild, Restart
  <1>3. RowsBuild /\ UNCHANGED vars => RowsBuild'
    BY DEF RowsBuild
  <1>4. TypeOK /\ RowsBuild /\ [Next]_vars => RowsBuild'
    BY StepRowsBuild, <1>2, <1>3 DEF Next
  <1> QED BY <1>1, <1>4, TypeCorrect, PTL DEF Spec

\* Every row comes back as a running manager of its content after a crash.
THEOREM RestartsServeEveryRow == Spec => RestartServesEveryRow
  <1> DEFINE Served == restarts' # restarts =>
                 \A n \in Names : rows[n] # None =>
                     /\ sets'[n] # None
                     /\ informers'[sets'[n]] = "running"
                     /\ built'[sets'[n]] = rows[n]
  <1>1. TypeOK /\ RowsBuild /\ [Next]_vars => Served
    <2> SUFFICES ASSUME TypeOK, RowsBuild, [Next]_vars, restarts' # restarts
                 PROVE  Served
      OBVIOUS
    <2>1. \A r \in Requests : ~ Step(r)
      BY DEF Step, Arrive, AddClusterManager, AddClusterManagerFails, Remove, Rollback,
             LoadAndDelete, Stop, RollbackStop, StopHeld, CreateCluster, GetClusterByName,
             UpdateCluster, Recreate, DeleteCluster, WriteRow, DatabaseFails, GetClusterManager
    <2>2. Restart
      BY <2>1 DEF Next
    <2>3. rows \in [Names -> Cfgs \cup {None}]
      BY DEF TypeOK
    <2>4. sets' = BootSets(rows) /\ informers' = BootInformers(rows) /\ built' = BootBuilt(rows)
      BY <2>2 DEF Restart
    <2>5. ASSUME NEW n \in Names, rows[n] # None
          PROVE  /\ sets'[n] # None
                 /\ informers'[sets'[n]] = "running"
                 /\ built'[sets'[n]] = rows[n]
      <3>1. /\ BootSets(rows)[n] = <<"row", n>>
            /\ <<"row", n>> \in Managers
            /\ BootBuilt(rows)[<<"row", n>>] = rows[n]
        BY <2>3, <2>5, BootFacts DEF RowsBuild
      <3>2. <<"row", n>> # None
        BY <3>1, NoneAssumption
      <3>3. BootInformers(rows)[BootSets(rows)[n]] = "running"
        BY <2>3, <3>1, <3>2, BootFacts
      <3> QED BY <2>4, <3>1, <3>2, <3>3
    <2> QED BY <2>5
  <1>2. Spec => [][Served]_vars
    BY <1>1, TypeCorrect, RowsAlwaysBuild, PTL DEF Spec
  <1> QED BY <1>2 DEF RestartServesEveryRow

-----------------------------------------------------------------------------
(***************************************************************************)
(* The names that no two handlers worked on at the same time.  What each   *)
(* step of the only handler of such a name can rely on; between two        *)
(* handlers the row and the manager agree.                                 *)
(***************************************************************************)
Failed(n) == \E r \in Requests : pc[r] = "err" /\ req[r].name = n

\* There is no row, or a manager of its content, or an answer that it may be missing.
Serves(n) ==
    \/ rows[n] = None
    \/ sets[n] = None /\ Failed(n)
    \/ sets[n] # None /\ built[sets[n]] = rows[n]

Stands(r) ==
    LET n == req[r].name IN
    /\ pc[r] \in {"lookup", "load", "deleteRow"} => Serves(n)
    /\ pc[r] = "lookup" => req[r].op = "update"
    /\ pc[r] = "register" => \/ req[r].op = "add" /\ Serves(n)
                             \/ req[r].op = "update" /\ sets[n] = None
    /\ pc[r] \in {"create", "save", "recreate"} =>
           sets[n] = <<"request", r>> /\ built[<<"request", r>>] = req[r].cfg
    /\ pc[r] = "recreate" => rows[n] = None
    /\ pc[r] \in {"remove", "stop"} => req[r].op = "update" \/ rows[n] = None
    /\ pc[r] \in {"stop", "rollbackStop"} => sets[n] = None

Unraced(n) ==
    /\ \A r, q \in HandlersOf(n) : r = q
    /\ \A r \in HandlersOf(n) : Stands(r)
    /\ HandlersOf(n) = {} => Serves(n)

UnracedNames == \A n \in Names \ raced : Unraced(n)

\* A handler holds a manager only to stop it.
HeldToStop == \A r \in Requests : held[r] # None => Stopping(r)

\* One step of r works on one name: the rows and managers of the others, and
\* the requests of the others, are as before.
LEMMA StepIsLocal ==
  ASSUME TypeOK, Ownership, NEW r \in Requests, Step(r)
  PROVE  /\ \A q \in Requests : q # r => pc'[q] = pc[q] /\ req'[q] = req[q]
         /\ pc[r] = "idle" \/ (pc[r] \in Handling /\ req'[r] = req[r] /\ raced' = raced)
         /\ pc[r] \notin Answered
         /\ \A n \in Names : n # req'[r].name =>
               /\ rows'[n] = rows[n]
               /\ sets'[n] = sets[n]
               /\ sets[n] # None => built'[sets[n]] = built[sets[n]]
         /\ \A q \in Requests : q # r => built'[<<"request", q>>] = built[<<"request", q>>]
  <1>1. /\ pc \in [Requests -> {"idle", "gone"} \cup Answered \cup Handling]
        /\ req \in [Requests -> RequestRecord]
        /\ sets \in [Names -> Managers \cup {None}]
        /\ rows \in [Names -> Cfgs \cup {None}]
        /\ built \in [Managers -> Cfgs \cup {None}]
    BY DEF TypeOK
  <1> DEFINE Local ==
         /\ \A q \in Requests : q # r => pc'[q] = pc[q] /\ req'[q] = req[q]
         /\ pc[r] = "idle" \/ (pc[r] \in Handling /\ req'[r] = req[r] /\ raced' = raced)
         /\ pc[r] \notin Answered
         /\ \A n \in Names : n # req'[r].name =>
               /\ rows'[n] = rows[n]
               /\ sets'[n] = sets[n]
               /\ sets[n] # None => built'[sets[n]] = built[sets[n]]
         /\ \A q \in Requests : q # r => built'[<<"request", q>>] = built[<<"request", q>>]
  \* A step that builds no manager.
  <1>2. ASSUME pc[r] \in Handling, NEW step, Goto(r, step), req' = req, built' = built,
               raced' = raced,
               \A n \in Names : n # req[r].name => rows'[n] = rows[n] /\ sets'[n] = sets[n]
        PROVE  Local
    BY <1>1, <1>2 DEF Goto, Handling, Answered
  <1>3. CASE Arrive(r)
    <2>1. pc[r] = "idle" /\ UNCHANGED <<rows, sets, built>>
      BY <1>3 DEF Arrive
    <2>2. \A q \in Requests : q # r => pc'[q] = pc[q] /\ req'[q] = req[q]
      BY <1>1, <1>3 DEF Arrive, Goto
    <2> QED BY <2>1, <2>2 DEF Answered
  <1>4. CASE AddClusterManager(r)
    <2> DEFINE m == <<"request", r>>
    <2>1. /\ pc[r] = "register" /\ UNCHANGED <<rows, req, raced>>
          /\ sets' = [sets EXCEPT ![req[r].name] = m]
          /\ built' = [built EXCEPT ![m] = req[r].cfg]
          /\ \A q \in Requests : q # r => pc'[q] = pc[q]
      BY <1>1, <1>4 DEF AddClusterManager, Goto
    <2>2. informers[m] = "none"
      BY <2>1 DEF Ownership, FreshManagers, NotYetBuilt
    <2>3. \A n \in Names : sets[n] # m
      BY <2>2, RequestManager, NoneAssumption DEF Ownership, RegisteredRuns
    <2>4. \A q \in Requests : q # r => <<"request", q>> # m
      OBVIOUS
    <2>5. \A k \in Managers : k # m => built'[k] = built[k]
      BY <1>1, <2>1
    <2> HIDE DEF m
    <2>6. \A n \in Names : n # req'[r].name =>
               /\ rows'[n] = rows[n]
               /\ sets'[n] = sets[n]
               /\ sets[n] # None => built'[sets[n]] = built[sets[n]]
      BY <1>1, <2>1, <2>3, <2>5
    <2>7. \A q \in Requests : q # r => built'[<<"request", q>>] = built[<<"request", q>>]
      BY <2>4, <2>5, RequestManager
    <2>8. pc[r] \in Handling /\ pc[r] \notin Answered
      BY <2>1 DEF Handling, Answered
    <2> QED BY <2>1, <2>6, <2>7, <2>8
  <1>5. CASE AddClusterManagerFails(r)
    BY <1>2, <1>5 DEF AddClusterManagerFails, Handling
  <1>6. ASSUME NEW stop, NEW done, LoadAndDelete(r, stop, done), pc[r] \in Handling
        PROVE  Local
    <2>1. \A n \in Names : n # req[r].name => rows'[n] = rows[n] /\ sets'[n] = sets[n]
      BY <1>1, <1>6 DEF LoadAndDelete
    <2> QED BY <1>2, <1>6, <2>1 DEF LoadAndDelete
  <1>7. ASSUME NEW done, StopHeld(r, done), pc[r] \in Handling
        PROVE  Local
    BY <1>2, <1>7 DEF StopHeld
  <1>8. ASSUME NEW content, NEW step, WriteRow(r, content), Goto(r, step), pc[r] \in Handling
        PROVE  Local
    <2>1. \A n \in Names : n # req[r].name => rows'[n] = rows[n] /\ sets'[n] = sets[n]
      BY <1>1, <1>8 DEF WriteRow
    <2> QED BY <1>2, <1>8, <2>1 DEF WriteRow
  <1>9. CASE Remove(r) \/ Rollback(r)
    BY <1>6, <1>9 DEF Remove, Rollback, Handling
  <1>10. CASE Stop(r) \/ RollbackStop(r)
    BY <1>7, <1>10 DEF Stop, RollbackStop, Handling
  <1>11. CASE CreateCluster(r) \/ UpdateCluster(r) \/ Recreate(r) \/ DeleteCluster(r)
    BY <1>8, <1>11 DEF CreateCluster, UpdateCluster, Recreate, DeleteCluster, Handling
  <1>12. CASE GetClusterByName(r) \/ GetClusterManager(r) \/ DatabaseFails(r)
    BY <1>2, <1>12 DEF GetClusterByName, GetClusterManager, DatabaseFails, Handling
  <1> QED
    BY <1>3, <1>4, <1>5, <1>9, <1>10, <1>11, <1>12 DEF Step

\* A step on one name leaves every other name as its handler left it.
LEMMA OtherNameUnraced ==
  ASSUME TypeOK, Ownership, NEW r \in Requests, Step(r),
         NEW n \in Names, n # req'[r].name, Unraced(n)
  PROVE  Unraced(n)'
  <1>1. /\ \A q \in Requests : q # r => pc'[q] = pc[q] /\ req'[q] = req[q]
        /\ pc[r] = "idle" \/ (pc[r] \in Handling /\ req'[r] = req[r])
        /\ pc[r] # "err"
    BY StepIsLocal DEF Answered
  <1>2. /\ rows'[n] = rows[n]
        /\ sets'[n] = sets[n]
        /\ sets[n] # None => built'[sets[n]] = built[sets[n]]
        /\ \A q \in Requests : q # r => built'[<<"request", q>>] = built[<<"request", q>>]
    BY StepIsLocal
  <1>3. \A q \in HandlersOf(n) : q \in Requests /\ q # r /\ req[q].name = n
    BY <1>1 DEF HandlersOf, InFlight, Handling
  <1>4. HandlersOf(n)' = HandlersOf(n)
    BY <1>1, <1>3 DEF HandlersOf, InFlight
  <1>5. Serves(n) => Serves(n)'
    <2>1. Failed(n) => Failed(n)'
      BY <1>1 DEF Failed
    <2> QED BY <1>2, <2>1 DEF Serves
  <1>6. ASSUME NEW q \in HandlersOf(n), Stands(q)
        PROVE  Stands(q)'
    <2>1. pc'[q] = pc[q] /\ req'[q] = req[q] /\ req[q].name = n /\ q # r /\ q \in Requests
      BY <1>1, <1>3
    <2>2. built'[<<"request", q>>] = built[<<"request", q>>]
      BY <1>2, <2>1
    <2> QED BY <1>2, <1>5, <1>6, <2>1, <2>2 DEF Stands
  <1> QED BY <1>4, <1>5, <1>6 DEF Unraced

\* What the step of the only handler of a name leaves to its next step or, when
\* it answers, to the next handler.
LEMMA OwnNameUnraced ==
  ASSUME TypeOK, NEW r \in Requests, Step(r), pc[r] # "idle", Stands(r),
         NoDoubleStop, HeldRuns
  PROVE  IF pc'[r] \in Handling THEN Stands(r)' ELSE Serves(req[r].name)'
  <1> DEFINE n == req[r].name
             m == <<"request", r>>
             Goal == IF pc'[r] \in Handling THEN Stands(r)' ELSE Serves(n)'
  <1>1. /\ pc \in [Requests -> {"idle", "gone"} \cup Answered \cup Handling]
        /\ req \in [Requests -> RequestRecord]
        /\ sets \in [Names -> Managers \cup {None}]
        /\ rows \in [Names -> Cfgs \cup {None}]
        /\ built \in [Managers -> Cfgs \cup {None}]
        /\ n \in Names /\ req[r].op \in Ops /\ m \in Managers /\ m # None
    BY RequestManager, NoneAssumption DEF TypeOK, RequestRecord
  \* An answer with an error may leave the row without a manager.
  <1>2. ASSUME pc' = [pc EXCEPT ![r] = "err"], req' = req, sets'[n] = None
        PROVE  Goal
    BY <1>1, <1>2 DEF Serves, Failed, Handling
  <1>3. CASE Arrive(r)
    BY <1>3 DEF Arrive
  <1>4. CASE AddClusterManager(r)
    <2>1. /\ sets' = [sets EXCEPT ![n] = m]
          /\ built' = [built EXCEPT ![m] = req[r].cfg]
          /\ req' = req
          /\ pc'[r] \in {"create", "save"}
      BY <1>1, <1>4 DEF AddClusterManager, Goto
    <2>2. sets'[n] = m /\ built'[m] = req[r].cfg
      BY <1>1, <2>1
    <2> HIDE DEF m
    <2>3. m = <<"request", r>>
      BY DEF m
    <2>4. Stands(r)'
      BY <2>1, <2>2, <2>3 DEF Stands
    <2> QED BY <2>1, <2>4 DEF Handling
  <1>5. CASE AddClusterManagerFails(r)
    <2>1. /\ pc[r] = "register"
          /\ pc' = [pc EXCEPT ![r] = "err"]
          /\ UNCHANGED <<rows, sets, built, req>>
      BY <1>5 DEF AddClusterManagerFails, Goto
    <2>2. CASE sets[n] = None
      BY <1>2, <2>1, <2>2
    <2>3. CASE sets[n] # None
      <3>1. Serves(n)
        BY <2>1, <2>3 DEF Stands
      <3> QED BY <1>1, <2>1, <2>3, <3>1 DEF Serves, Handling
    <2> QED BY <2>2, <2>3
  <1>6. CASE Remove(r)
    <2>1. /\ pc[r] = "remove"
          /\ sets' = [sets EXCEPT ![n] = None]
          /\ pc'[r] = IF sets[n] = None THEN AfterRemove(r) ELSE "stop"
          /\ UNCHANGED <<rows, built, req>>
      BY <1>1, <1>6 DEF Remove, LoadAndDelete, Goto
    <2>2. sets'[n] = None /\ (req[r].op = "update" \/ rows[n] = None)
      BY <1>1, <2>1 DEF Stands
    <2> QED BY <2>1, <2>2 DEF AfterRemove, Stands, Serves, Handling
  <1>7. CASE Stop(r)
    <2>1. /\ pc[r] = "stop"
          /\ pc'[r] = AfterRemove(r)
          /\ UNCHANGED <<sets, rows, built, req>>
      BY <1>1, <1>7 DEF Stop, StopHeld, Goto, HeldRuns, Stopping
    <2>2. sets[n] = None /\ (req[r].op = "update" \/ rows[n] = None)
      BY <2>1 DEF Stands
    <2> QED BY <2>1, <2>2 DEF AfterRemove, Stands, Serves, Handling
  <1>8. CASE Rollback(r)
    <2>1. /\ sets' = [sets EXCEPT ![n] = None]
          /\ pc' = [pc EXCEPT ![r] = IF sets[n] = None THEN "err" ELSE "rollbackStop"]
          /\ req' = req
      BY <1>8 DEF Rollback, LoadAndDelete, Goto
    <2>2. sets'[n] = None
      BY <1>1, <2>1
    <2>3. CASE sets[n] = None
      BY <1>2, <2>1, <2>2, <2>3
    <2>4. CASE sets[n] # None
      BY <1>1, <2>1, <2>2, <2>4 DEF Stands, Handling
    <2> QED BY <2>3, <2>4
  <1>9. CASE RollbackStop(r)
    <2>1. /\ pc[r] = "rollbackStop"
          /\ pc' = [pc EXCEPT ![r] = "err"]
          /\ UNCHANGED <<sets, req>>
      BY <1>1, <1>9 DEF RollbackStop, StopHeld, Goto, HeldRuns, Stopping
    <2>2. sets[n] = None
      BY <2>1 DEF Stands
    <2> QED BY <1>2, <2>1, <2>2
  \* A handler that wrote the content of its manager answers.
  <1>10. ASSUME sets[n] = m, built[m] = req[r].cfg, WriteRow(r, req[r].cfg), Goto(r, "ok")
         PROVE  Goal
    <2>1. rows'[n] = req[r].cfg /\ sets'[n] = m /\ built'[m] = req[r].cfg /\ pc'[r] = "ok"
          /\ req' = req
      BY <1>1, <1>10 DEF WriteRow, Goto
    <2> HIDE DEF m
    <2>2. Serves(n)'
      BY <1>1, <2>1 DEF Serves
    <2> QED BY <2>1, <2>2 DEF Handling
  <1>11. CASE CreateCluster(r)
    BY <1>10, <1>11 DEF CreateCluster, Stands
  <1>12. CASE Recreate(r)
    BY <1>10, <1>12 DEF Recreate, Stands
  <1>13. CASE UpdateCluster(r)
    <2>1. CASE rows[n] # None
      BY <1>10, <1>13, <2>1 DEF UpdateCluster, Stands
    <2>2. CASE rows[n] = None
      <3>1. /\ pc[r] = "save"
            /\ rows' = [rows EXCEPT ![n] = None]
            /\ pc'[r] = "recreate"
            /\ UNCHANGED <<sets, built, req>>
        BY <1>1, <1>13, <2>2 DEF UpdateCluster, WriteRow, Goto
      <3> QED BY <1>1, <3>1 DEF Stands, Handling
    <2> QED BY <2>1, <2>2
  <1>14. CASE GetClusterByName(r)
    <2>1. /\ Serves(n)
          /\ UNCHANGED <<rows, sets, built, req>>
          /\ pc' = [pc EXCEPT ![r] = IF rows[n] = None THEN "err" ELSE "remove"]
          /\ pc[r] = "lookup"
      BY <1>14 DEF GetClusterByName, Goto, Stands
    <2>2. CASE rows[n] = None
      BY <1>1, <2>1, <2>2 DEF Serves, Handling
    <2>3. CASE rows[n] # None
      BY <1>1, <2>1, <2>3 DEF Stands, Handling
    <2> QED BY <2>2, <2>3
  <1>15. CASE DeleteCluster(r)
    <2>1. /\ rows'[n] = None /\ pc'[r] = "remove" /\ req' = req
      BY <1>1, <1>15 DEF DeleteCluster, WriteRow, Goto
    <2> QED BY <2>1 DEF Stands, Handling
  <1>16. CASE DatabaseFails(r)
    <2>1. UNCHANGED <<rows, sets, built, req>>
      BY <1>16 DEF DatabaseFails
    <2>2. CASE pc[r] \in {"create", "save", "recreate"} /\ pc' = [pc EXCEPT ![r] = "rollback"]
      BY <1>1, <2>1, <2>2 DEF Stands, Handling
    <2>3. CASE pc[r] \in {"lookup", "deleteRow"} /\ pc' = [pc EXCEPT ![r] = "err"]
      <3>1. Serves(n)
        BY <2>3 DEF Stands
      <3> QED BY <1>1, <2>1, <2>3, <3>1 DEF Serves, Failed, Handling
    <2> QED BY <1>16, <2>2, <2>3 DEF DatabaseFails, Goto
  <1>17. CASE GetClusterManager(r)
    <2>1. /\ Serves(n)
          /\ UNCHANGED <<rows, sets, built, req>>
          /\ pc'[r] \in {"ok", "notExist"}
          /\ pc[r] = "load"
          /\ \A q \in Requests : q # r => pc'[q] = pc[q]
      BY <1>1, <1>17 DEF GetClusterManager, Goto, Stands
    <2>2. Failed(n) => Failed(n)'
      BY <2>1 DEF Failed
    <2> QED BY <2>1, <2>2 DEF Serves, Handling
  <1> QED
    BY <1>3, <1>4, <1>5, <1>6, <1>7, <1>8, <1>9, <1>11, <1>12, <1>13, <1>14, <1>15,
       <1>16, <1>17 DEF Step

LEMMA ArrivalUnraced ==
  ASSUME TypeOK, NEW r \in Requests, Arrive(r), HandlersOf(req'[r].name) = {},
         Serves(req'[r].name)
  PROVE  pc'[r] \in Handling /\ Stands(r)'
  <1> PICK asked \in RequestRecord : /\ req' = [req EXCEPT ![r] = asked]
                                     /\ pc' = [pc EXCEPT ![r] = FirstStep[asked.op]]
    BY DEF Arrive, Goto
  <1>1. /\ req'[r] = asked
        /\ pc'[r] = FirstStep[asked.op]
        /\ UNCHANGED <<rows, sets, built>>
        /\ \A q \in Requests : q # r => pc'[q] = pc[q] /\ req'[q] = req[q]
        /\ pc[r] = "idle"
    BY DEF TypeOK, Arrive
  <1>2. Serves(asked.name)'
    <2>1. Failed(asked.name) => Failed(asked.name)'
      BY <1>1 DEF Failed
    <2> QED BY <1>1, <2>1 DEF Serves
  <1>3. \/ asked.op = "add" /\ pc'[r] = "register"
        \/ asked.op = "update" /\ pc'[r] = "lookup"
        \/ asked.op = "delete" /\ pc'[r] = "deleteRow"
        \/ asked.op = "get" /\ pc'[r] = "load"
    BY <1>1 DEF FirstStep, RequestRecord, Ops
  <1> QED BY <1>1, <1>2, <1>3 DEF Stands, Handling

LEMMA StepUnraced ==
  ASSUME TypeOK, Ownership, UnracedNames, NEW r \in Requests, Step(r)
  PROVE  UnracedNames'
  <1> SUFFICES ASSUME NEW n \in Names, n \notin raced'
               PROVE  Unraced(n)'
    BY DEF UnracedNames
  <1>1. /\ \A q \in Requests : q # r => pc'[q] = pc[q] /\ req'[q] = req[q]
        /\ pc[r] = "idle" \/ (pc[r] \in Handling /\ req'[r] = req[r] /\ raced' = raced)
    BY StepIsLocal
  <1>2. n \notin raced
    <2>1. CASE Arrive(r)
      BY <2>1 DEF Arrive
    <2>2. CASE pc[r] # "idle"
      BY <1>1, <2>2
    <2> QED BY <2>1, <2>2 DEF Step, AddClusterManager, AddClusterManagerFails, Remove, Rollback,
             Stop, RollbackStop, CreateCluster, GetClusterByName, UpdateCluster, Recreate,
             DeleteCluster, DatabaseFails, GetClusterManager
  <1>3. Unraced(n)
    BY <1>2 DEF UnracedNames
  <1>4. CASE n # req'[r].name
    BY <1>3, <1>4, OtherNameUnraced
  <1>5. CASE n = req'[r].name /\ pc[r] = "idle"
    <2>1. Arrive(r)
      BY <1>5 DEF Step, AddClusterManager, AddClusterManagerFails, Remove, Rollback,
             Stop, RollbackStop, CreateCluster, GetClusterByName, UpdateCluster, Recreate,
             DeleteCluster, DatabaseFails, GetClusterManager
    <2>2. HandlersOf(n) = {}
      <3> PICK asked \in RequestRecord :
               /\ req' = [req EXCEPT ![r] = asked]
               /\ raced' = IF HandlersOf(asked.name) = {} THEN raced
                           ELSE raced \cup {asked.name}
        BY <2>1 DEF Arrive
      <3>1. asked.name = n
        BY <1>5 DEF TypeOK
      <3> QED BY <3>1
    <2>3. pc'[r] \in Handling /\ Stands(r)'
      BY <1>3, <1>5, <2>1, <2>2, ArrivalUnraced DEF Unraced
    <2>4. HandlersOf(n)' = {r}
      BY <1>1, <1>5, <2>2, <2>3 DEF HandlersOf, InFlight
    <2> QED BY <2>3, <2>4 DEF Unraced
  <1>6. CASE n = req'[r].name /\ pc[r] # "idle"
    <2>1. req'[r] = req[r] /\ r \in HandlersOf(n)
      BY <1>1, <1>6 DEF HandlersOf, InFlight
    <2>2. Stands(r) /\ \A q \in HandlersOf(n) : q = r
      BY <1>3, <2>1 DEF Unraced
    <2>3. IF pc'[r] \in Handling THEN Stands(r)' ELSE Serves(n)'
      BY <1>6, <2>1, <2>2, OwnNameUnraced DEF Ownership
    <2>4. HandlersOf(n)' = IF pc'[r] \in Handling THEN {r} ELSE {}
      BY <1>1, <1>6, <2>1, <2>2 DEF HandlersOf, InFlight
    <2> QED BY <2>3, <2>4 DEF Unraced
  <1> QED BY <1>4, <1>5, <1>6

\* No handler survives a crash, and every row has a manager of its content.
LEMMA RestartUnraced == TypeOK /\ RowsBuild /\ Restart => UnracedNames'
  <1> SUFFICES ASSUME TypeOK, RowsBuild, Restart, NEW n \in Names
               PROVE  Unraced(n)'
    BY DEF UnracedNames
  <1>1. /\ rows \in [Names -> Cfgs \cup {None}] /\ rows' = rows
        /\ sets' = BootSets(rows) /\ built' = BootBuilt(rows)
        /\ pc' = [q \in Requests |-> IF pc[q] = "idle" THEN "idle" ELSE "gone"]
    BY DEF TypeOK, Restart
  <1>2. HandlersOf(n)' = {}
    BY <1>1 DEF HandlersOf, InFlight, Handling
  <1>3. Serves(n)'
    <2>1. CASE rows[n] = None
      BY <1>1, <2>1 DEF Serves
    <2>2. CASE rows[n] # None
      <3>1. /\ BootSets(rows)[n] = <<"row", n>>
            /\ <<"row", n>> \in Managers
            /\ BootBuilt(rows)[<<"row", n>>] = rows[n]
        BY <1>1, <2>2, BootFacts DEF RowsBuild
      <3>2. <<"row", n>> # None
        BY <3>1, NoneAssumption
      <3> QED BY <1>1, <3>1, <3>2 DEF Serves
    <2> QED BY <2>1, <2>2
  <1> QED BY <1>2, <1>3 DEF Unraced

LEMMA UnracedAlways == Spec => []UnracedNames
  <1>1. Init => UnracedNames
    BY DEF Init, UnracedNames, Unraced, HandlersOf, InFlight, Handling, Serves
  <1>2. UnracedNames /\ UNCHANGED vars => UnracedNames'
    <2> SUFFICES ASSUME UnracedNames, UNCHANGED vars PROVE UnracedNames'
      OBVIOUS
    <2>1. \A n \in Names : HandlersOf(n)' = HandlersOf(n) /\ (Failed(n)' <=> Failed(n))
      BY DEF HandlersOf, InFlight, Failed
    <2>2. \A n \in Names : Serves(n)' <=> Serves(n)
      BY <2>1 DEF Serves
    <2>3. \A n \in Names : \A r \in HandlersOf(n) : Stands(r) => Stands(r)'
      BY <2>2 DEF Stands, HandlersOf, InFlight, Serves, Failed
    <2> QED BY <2>1, <2>2, <2>3 DEF UnracedNames, Unraced
  <1>3. TypeOK /\ Ownership /\ RowsBuild /\ UnracedNames /\ [Next]_vars => UnracedNames'
    BY StepUnraced, RestartUnraced, <1>2 DEF Next
  <1> QED BY <1>1, <1>3, TypeCorrect, OwnershipCorrect, RowsAlwaysBuild, PTL DEF Spec

\* The manager that serves a cluster whose handlers took turns was built from
\* the content of its row: KubeClusterUpdate replaces both or neither.
THEOREM ManagersMatchRows == Spec => []ManagerMatchesRow
  <1>1. UnracedNames => ManagerMatchesRow
    BY DEF UnracedNames, Unraced, Serves, ManagerMatchesRow, Settled
  <1> QED BY <1>1, UnracedAlways, PTL

\* A cluster whose handlers took turns goes out of service only when one of
\* them answers with an error: no success, no crash and no handler of another
\* name takes its manager away and leaves the row.
THEOREM OutOfServiceOnlyAfterError == Spec => []OutOfServiceAfterErrorOnly
  <1>1. UnracedNames => OutOfServiceAfterErrorOnly
    BY DEF UnracedNames, Unraced, Serves, Failed, OutOfServiceAfterErrorOnly, Settled
  <1> QED BY <1>1, UnracedAlways, PTL

-----------------------------------------------------------------------------
(***************************************************************************)
(* Which step may leave a running manager that nobody can reach.           *)
(***************************************************************************)
LEMMA StepHeldToStop ==
  ASSUME TypeOK, Ownership, HeldToStop, NEW r \in Requests, Step(r)
  PROVE  HeldToStop'
  <1> USE DEF HeldToStop, Stopping, Goto
  <1>1. /\ pc \in [Requests -> {"idle", "gone"} \cup Answered \cup Handling]
        /\ held \in [Requests -> Managers \cup {None}]
    BY DEF TypeOK
  <1>2. ASSUME held' = held, NEW step, pc' = [pc EXCEPT ![r] = step], ~ Stopping(r)
        PROVE  HeldToStop'
    BY <1>1, <1>2
  <1>3. CASE Arrive(r)
    <2>1. pc[r] = "idle" /\ held' = held /\ \E step : pc' = [pc EXCEPT ![r] = step]
      BY <1>3 DEF Arrive
    <2> QED BY <1>2, <2>1
  <1>4. CASE AddClusterManager(r) \/ AddClusterManagerFails(r)
    BY <1>2, <1>4 DEF AddClusterManager, AddClusterManagerFails
  <1>5. CASE Remove(r) \/ Rollback(r)
    BY <1>1, <1>5 DEF Remove, Rollback, LoadAndDelete
  <1>6. CASE Stop(r) \/ RollbackStop(r)
    BY <1>1, <1>6 DEF Stop, RollbackStop, StopHeld
  <1>7. CASE CreateCluster(r) \/ UpdateCluster(r) \/ Recreate(r) \/ DeleteCluster(r)
    BY <1>2, <1>7 DEF CreateCluster, UpdateCluster, Recreate, DeleteCluster, WriteRow
  <1>8. CASE GetClusterByName(r) \/ GetClusterManager(r) \/ DatabaseFails(r)
    BY <1>2, <1>8 DEF GetClusterByName, GetClusterManager, DatabaseFails
  <1> QED BY <1>3, <1>4, <1>5, <1>6, <1>7, <1>8 DEF Step

LEMMA HeldOnlyToStop == Spec => []HeldToStop
  <1>1. Init => HeldToStop
    BY DEF Init, HeldToStop
  <1>2. Restart => HeldToStop'
    BY DEF Restart, HeldToStop
  <1>3. HeldToStop /\ UNCHANGED vars => HeldToStop'
    BY DEF HeldToStop, Stopping
  <1>4. TypeOK /\ Ownership /\ HeldToStop /\ [Next]_vars => HeldToStop'
    BY StepHeldToStop, <1>2, <1>3 DEF Next
  <1> QED BY <1>1, <1>4, TypeCorrect, OwnershipCorrect, PTL DEF Spec

\* A manager that a step leaks was replaced in the map by a handler that adds.
LEMMA StepLeaks ==
  ASSUME TypeOK, Ownership, UnracedNames, HeldToStop, NEW r \in Requests, Step(r),
         NEW m \in Managers, m \in Leaked' \ Leaked
  PROVE  pc[r] = "register" /\ (req[r].op = "add" \/ req[r].name \in raced)
  <1> DEFINE n == req[r].name
  <1>1. /\ n \in Names
        /\ sets \in [Names -> Managers \cup {None}]
        /\ held \in [Requests -> Managers \cup {None}]
        /\ informers \in [Managers -> {"none", "running", "stopped"}]
        /\ m # None
    BY NoneAssumption DEF TypeOK, RequestRecord
  <1>2. /\ informers'[m] = "running"
        /\ \A k \in Names : sets'[k] # m
        /\ \A q \in Requests : held'[q] # m
    BY DEF Leaked
  <1>3. \/ informers[m] # "running"
        \/ \E k \in Names : sets[k] = m
        \/ \E q \in Requests : held[q] = m
    BY DEF Leaked
  <1>4. UNCHANGED <<sets, held, informers>> => FALSE
    BY <1>2, <1>3
  <1>5. CASE AddClusterManager(r)
    <2> DEFINE own == <<"request", r>>
    <2>1. /\ pc[r] = "register"
          /\ sets' = [sets EXCEPT ![n] = own]
          /\ informers' = [informers EXCEPT ![own] = "running"]
          /\ held' = held
      BY <1>5 DEF AddClusterManager
    <2>2. own \in Managers
      BY RequestManager
    <2> HIDE DEF own
    <2>3. sets[n] = m
      BY <1>1, <1>2, <1>3, <2>1, <2>2
    <2>4. ASSUME n \notin raced
          PROVE  req[r].op = "add"
      <3>1. Stands(r)
        BY <1>1, <2>1, <2>4 DEF UnracedNames, Unraced, HandlersOf, InFlight, Handling
      <3> QED BY <1>1, <2>1, <2>3, <3>1 DEF Stands
    <2> QED BY <2>1, <2>4
  <1>6. CASE Remove(r) \/ Rollback(r)
    <2>1. /\ sets' = [sets EXCEPT ![n] = None]
          /\ held' = [held EXCEPT ![r] = sets[n]]
          /\ informers' = informers
          /\ held[r] = None
      BY <1>6 DEF Remove, Rollback, LoadAndDelete, HeldToStop, Stopping
    <2> QED BY <1>1, <1>2, <1>3, <2>1
  <1>7. CASE Stop(r) \/ RollbackStop(r)
    <2>1. /\ sets' = sets
          /\ held' = [held EXCEPT ![r] = None]
          /\ informers' = [informers EXCEPT ![held[r]] = "stopped"]
          /\ held[r] \in Managers
      BY <1>7 DEF Stop, RollbackStop, StopHeld, Ownership, HeldRuns, Stopping
    <2> QED BY <1>1, <1>2, <1>3, <2>1
  <1>8. CASE Arrive(r) \/ AddClusterManagerFails(r) \/ CreateCluster(r) \/ UpdateCluster(r)
             \/ Recreate(r) \/ DeleteCluster(r) \/ GetClusterByName(r) \/ GetClusterManager(r)
             \/ DatabaseFails(r)
    BY <1>4, <1>8 DEF Arrive, AddClusterManagerFails, CreateCluster, UpdateCluster, Recreate,
        DeleteCluster, WriteRow, GetClusterByName, GetClusterManager, DatabaseFails
  <1> QED BY <1>5, <1>6, <1>7, <1>8 DEF Step

\* Updates, deletes and rollbacks stop every manager they replace, on every
\* name whose handlers take turns.
THEOREM OnlyAddingLeaks == Spec => LeaksOnlyByAdding
  <1> DEFINE Kept == \A m \in Managers : m \in Leaked' \ Leaked =>
           \/ restarts' # restarts
           \/ \E r \in Requests : /\ pc[r] = "register"
                                 /\ (req[r].op = "add" \/ req[r].name \in raced)
  <1>1. TypeOK /\ Ownership /\ UnracedNames /\ HeldToStop /\ [Next]_vars => Kept
    <2> SUFFICES ASSUME TypeOK, Ownership, UnracedNames, HeldToStop, [Next]_vars,
                        NEW m \in Managers, m \in Leaked' \ Leaked
                 PROVE  \/ restarts' # restarts
                        \/ \E r \in Requests : /\ pc[r] = "register"
                                              /\ (req[r].op = "add" \/ req[r].name \in raced)
      OBVIOUS
    <2>1. CASE Restart
      BY <2>1 DEF Restart, TypeOK
    <2>2. CASE \E r \in Requests : Step(r)
      BY <2>2, StepLeaks
    <2>3. CASE UNCHANGED vars
      BY <2>3 DEF Leaked
    <2> QED BY <2>1, <2>2, <2>3 DEF Next
  <1>2. Spec => [][Kept]_vars
    BY <1>1, TypeCorrect, OwnershipCorrect, UnracedAlways, HeldOnlyToStop, PTL DEF Spec
  <1> QED BY <1>2 DEF LeaksOnlyByAdding
=============================================================================
