--------------------------- MODULE ClusterRegistry ---------------------------
(***************************************************************************)
(* The cluster registry of the server mode.  A cluster lives in two places *)
(* that no transaction joins: a row of the table kube_clusters (SQLite,    *)
(* internal/model/dao/kubecluster.go) and a ClusterManager of the sync.Map *)
(* clusterManagerSets (internal/service/kube/client.go), whose informers   *)
(* run from the moment it is built until Stop closes its channel.          *)
(*                                                                         *)
(* The HTTP handlers of internal/apiv1/kube.go run in goroutines of their  *)
(* own, with no lock between them: each is a sequence of steps here, one   *)
(* per database call and per operation on the map.  A crash loses the map  *)
(* and the running handlers; InitKube rebuilds the map at the next start.  *)
(*                                                                         *)
(* A manager is named after what built it: <<"request", r>> for the one    *)
(* that request r builds, <<"row", n>> and <<"context", n>> for those that *)
(* InitKube builds from the row n and from the kubeconfig context n.       *)
(***************************************************************************)
EXTENDS Naturals, FiniteSets

CONSTANTS Requests,     \* the requests that clients send, each handled once
          Names,        \* cluster names
          Cfgs,         \* contents of (apiServer, kubeConfig)
          Buildable,    \* the contents that buildClient accepts
          LocalNames,   \* contexts of the kubeconfig file of the server's host
          None,         \* no row, no manager
          MaxInFlight,  \* bound: requests handled at the same time
          MaxRestarts   \* bound: crashes of the process

ASSUME BuildableAssumption == Buildable \subseteq Cfgs
ASSUME LocalAssumption == LocalNames \subseteq Names
ASSUME NonEmptyAssumption == Names # {} /\ Cfgs # {}
ASSUME BoundsAssumption == MaxInFlight \in Nat /\ MaxRestarts \in Nat

Managers == ({"request"} \X Requests) \cup ({"row", "context"} \X Names)

\* Neither a content nor a manager is the null value.
ASSUME NoneAssumption == None \notin Cfgs /\ None \notin Managers

Ops == {"add", "update", "delete", "get"}

RequestRecord == [op: Ops, name: Names, cfg: Cfgs]

Answered == {"ok", "err", "notExist", "panic"}

Handling == {"register", "create", "lookup", "remove", "stop", "save",
             "recreate", "rollback", "rollbackStop", "deleteRow", "load"}

VARIABLES
    rows,       \* kube_clusters: the content stored under each name, or None
    sets,       \* clusterManagerSets: the manager stored under each name, or None
    informers,  \* per manager: whether its informers never ran, run or stopped
    built,      \* per manager: the content of the row or request it was built from
    req,        \* per request: what it asks for (any record while it is idle)
    pc,         \* per request: the next step of its handler, or its answer
    held,       \* per request: the manager that LoadAndDelete handed to it
    restarts,   \* how often the process crashed
    raced       \* history: the names that two handlers worked on at the same
                \* time since the process started

vars == <<rows, sets, informers, built, req, pc, held, restarts, raced>>

TypeOK ==
    /\ rows \in [Names -> Cfgs \cup {None}]
    /\ sets \in [Names -> Managers \cup {None}]
    /\ informers \in [Managers -> {"none", "running", "stopped"}]
    /\ built \in [Managers -> Cfgs \cup {None}]
    /\ req \in [Requests -> RequestRecord]
    /\ pc \in [Requests -> {"idle", "gone"} \cup Answered \cup Handling]
    /\ held \in [Requests -> Managers \cup {None}]
    /\ restarts \in Nat
    /\ raced \subseteq Names

InFlight == {r \in Requests : pc[r] \in Handling}

HandlersOf(n) == {r \in InFlight : req[r].name = n}

-----------------------------------------------------------------------------
(***************************************************************************)
(* InitKube: a manager for every context of the kubeconfig file, then one  *)
(* for every row, which replaces the context's under the same name without *)
(* stopping it.  A content that does not build is skipped.  No request is  *)
(* served before it returns.                                               *)
(***************************************************************************)
BootManagers(table) ==
    {<<"context", n>> : n \in LocalNames}
        \cup {<<"row", n>> : n \in {x \in Names : table[x] \in Buildable}}

BootSets(table) ==
    [n \in Names |-> IF table[n] \in Buildable THEN <<"row", n>>
                     ELSE IF n \in LocalNames THEN <<"context", n>> ELSE None]

BootInformers(table) ==
    [m \in Managers |-> IF m \in BootManagers(table) THEN "running" ELSE "none"]

BootBuilt(table) ==
    [m \in Managers |-> IF m[1] = "row" THEN table[m[2]] ELSE None]

Init ==
    /\ rows = [n \in Names |-> None]
    /\ sets = BootSets(rows)
    /\ informers = BootInformers(rows)
    /\ built = BootBuilt(rows)
    /\ req = [r \in Requests |-> CHOOSE blank \in RequestRecord : TRUE]
    /\ pc = [r \in Requests |-> "idle"]
    /\ held = [r \in Requests |-> None]
    /\ restarts = 0
    /\ raced = {}

\* The process dies between any two steps and is started again: what the
\* handlers were doing is lost, the rows are not.
Restart ==
    /\ restarts < MaxRestarts
    /\ restarts' = restarts + 1
    /\ sets' = BootSets(rows)
    /\ informers' = BootInformers(rows)
    /\ built' = BootBuilt(rows)
    /\ pc' = [r \in Requests |-> IF pc[r] = "idle" THEN "idle" ELSE "gone"]
    /\ held' = [r \in Requests |-> None]
    /\ raced' = {}
    /\ UNCHANGED <<rows, req>>

-----------------------------------------------------------------------------
(***************************************************************************)
(* The steps of the handlers.                                              *)
(***************************************************************************)
Goto(r, step) == pc' = [pc EXCEPT ![r] = step]

FirstStep == [add |-> "register", update |-> "lookup",
              delete |-> "deleteRow", get |-> "load"]

\* A request reaches its handler and passes the binding of its parameters.
Arrive(r) ==
    /\ pc[r] = "idle"
    /\ Cardinality(InFlight) < MaxInFlight
    /\ \E asked \in RequestRecord :
           /\ req' = [req EXCEPT ![r] = asked]
           /\ Goto(r, FirstStep[asked.op])
           /\ raced' = IF HandlersOf(asked.name) = {} THEN raced
                       ELSE raced \cup {asked.name}
    /\ UNCHANGED <<rows, sets, informers, built, held, restarts>>

\* Mutant: the map gets the content of the cluster in place of its manager.
AddClusterManagerStoresContent(r) ==
    /\ pc[r] = "register"
    /\ req[r].cfg \in Buildable
    /\ sets' = [sets EXCEPT ![req[r].name] = req[r].cfg]
    /\ informers' = [informers EXCEPT ![<<"request", r>>] = "running"]
    /\ built' = [built EXCEPT ![<<"request", r>>] = req[r].cfg]
    /\ Goto(r, IF req[r].op = "add" THEN "create" ELSE "save")
    /\ UNCHANGED <<rows, req, held, restarts, raced>>

\* AddClusterManager.  What it builds is private until Store publishes it,
\* and Store replaces whatever manager the name had.  KubeClusterAdd then
\* creates the row, KubeClusterUpdate saves it.
AddClusterManager(r) ==
    /\ pc[r] = "register"
    /\ req[r].cfg \in Buildable
    /\ sets' = [sets EXCEPT ![req[r].name] = <<"request", r>>]
    /\ informers' = [informers EXCEPT ![<<"request", r>>] = "running"]
    /\ built' = [built EXCEPT ![<<"request", r>>] = req[r].cfg]
    /\ Goto(r, IF req[r].op = "add" THEN "create" ELSE "save")
    /\ UNCHANGED <<rows, req, held, restarts, raced>>

\* Mutant: the error of AddClusterManager is ignored.
AddClusterManagerErrorIgnored(r) ==
    /\ pc[r] = "register"
    /\ req[r].cfg \notin Buildable
    /\ Goto(r, IF req[r].op = "add" THEN "create" ELSE "save")
    /\ UNCHANGED <<rows, sets, informers, built, req, held, restarts, raced>>

AddClusterManagerFails(r) ==
    /\ pc[r] = "register"
    /\ req[r].cfg \notin Buildable
    /\ Goto(r, "err")
    /\ UNCHANGED <<rows, sets, informers, built, req, held, restarts, raced>>

\* Mutant: Load in place of LoadAndDelete, the manager stays in the map.
LoadOnly(r, stop, done) ==
    LET n == req[r].name IN
    /\ held' = [held EXCEPT ![r] = sets[n]]
    /\ Goto(r, IF sets[n] = None THEN done ELSE stop)
    /\ UNCHANGED <<rows, sets, informers, built, req, restarts, raced>>

\* The two halves of DeleteClusterManager: LoadAndDelete takes the manager
\* out of the map, Stop closes its channel; closing it again would panic.
LoadAndDelete(r, stop, done) ==
    LET n == req[r].name IN
    /\ sets' = [sets EXCEPT ![n] = None]
    /\ held' = [held EXCEPT ![r] = sets[n]]
    /\ Goto(r, IF sets[n] = None THEN done ELSE stop)
    /\ UNCHANGED <<rows, informers, built, req, restarts, raced>>

StopHeld(r, done) ==
    /\ informers' = [informers EXCEPT ![held[r]] = "stopped"]
    /\ held' = [held EXCEPT ![r] = None]
    /\ Goto(r, IF informers[held[r]] = "stopped" THEN "panic" ELSE done)
    /\ UNCHANGED <<rows, sets, built, req, restarts, raced>>

\* Mutant: an update that changes nothing in the row is done at this point.
AfterRemoveUnlessChanged(r) ==
    IF req[r].op = "update" /\ rows[req[r].name] # req[r].cfg THEN "register" ELSE "ok"

AfterRemove(r) == IF req[r].op = "update" THEN "register" ELSE "ok"

Remove(r) == pc[r] = "remove" /\ LoadAndDelete(r, "stop", AfterRemove(r))

Stop(r) == pc[r] = "stop" /\ StopHeld(r, AfterRemove(r))

\* What KubeClusterAdd and KubeClusterUpdate do when the row is not written.
Rollback(r) == pc[r] = "rollback" /\ LoadAndDelete(r, "rollbackStop", "err")

RollbackStop(r) == pc[r] = "rollbackStop" /\ StopHeld(r, "err")

-----------------------------------------------------------------------------
(***************************************************************************)
(* The database calls.  Any of them may fail and then changes nothing.     *)
(***************************************************************************)
WriteRow(r, content) ==
    /\ rows' = [rows EXCEPT ![req[r].name] = content]
    /\ UNCHANGED <<sets, informers, built, req, held, restarts, raced>>

\* CreateCluster inserts under the unique index of the name: when the name
\* has a row the call can only fail.
CreateCluster(r) ==
    /\ pc[r] = "create"
    /\ rows[req[r].name] = None
    /\ WriteRow(r, req[r].cfg)
    /\ Goto(r, "ok")

\* Mutant: the update does not remove the manager before it adds the new one.
GetClusterByNameKeepsManager(r) ==
    /\ pc[r] = "lookup"
    /\ Goto(r, IF rows[req[r].name] = None THEN "err" ELSE "register")
    /\ UNCHANGED <<rows, sets, informers, built, req, held, restarts, raced>>

\* GetClusterByName at the head of KubeClusterUpdate.
GetClusterByName(r) ==
    /\ pc[r] = "lookup"
    /\ Goto(r, IF rows[req[r].name] = None THEN "err" ELSE "remove")
    /\ UNCHANGED <<rows, sets, informers, built, req, held, restarts, raced>>

\* UpdateCluster: Save updates the row of the name; when no row was updated
\* it looks for one once more and inserts it if there is none.
UpdateCluster(r) ==
    /\ pc[r] = "save"
    /\ IF rows[req[r].name] = None
         THEN WriteRow(r, None) /\ Goto(r, "recreate")
         ELSE WriteRow(r, req[r].cfg) /\ Goto(r, "ok")

Recreate(r) ==
    /\ pc[r] = "recreate"
    /\ WriteRow(r, IF rows[req[r].name] = None THEN req[r].cfg
                                               ELSE rows[req[r].name])
    /\ Goto(r, "ok")

\* DeleteCluster succeeds whether or not the row exists.
DeleteCluster(r) ==
    /\ pc[r] = "deleteRow"
    /\ WriteRow(r, None)
    /\ Goto(r, "remove")

\* Mutant: a handler that cannot write its row leaves its manager in the map.
DatabaseFailsNoRollback(r) ==
    /\ pc[r] \in {"create", "save", "recreate", "lookup", "deleteRow"}
    /\ Goto(r, "err")
    /\ UNCHANGED <<rows, sets, informers, built, req, held, restarts, raced>>

\* A failed call.  The handlers answer with an error; those that have a new
\* manager in the map take it out first.
DatabaseFails(r) ==
    /\ \/ pc[r] \in {"create", "save", "recreate"} /\ Goto(r, "rollback")
       \/ pc[r] \in {"lookup", "deleteRow"} /\ Goto(r, "err")
    /\ UNCHANGED <<rows, sets, informers, built, req, held, restarts, raced>>

\* GetClusterManager: a lookup in the map, never in the table.
GetClusterManager(r) ==
    /\ pc[r] = "load"
    /\ Goto(r, IF sets[req[r].name] = None THEN "notExist" ELSE "ok")
    /\ UNCHANGED <<rows, sets, informers, built, req, held, restarts, raced>>

Step(r) ==
    \/ Arrive(r)
    \/ AddClusterManager(r) \/ AddClusterManagerFails(r)
    \/ Remove(r) \/ Stop(r) \/ Rollback(r) \/ RollbackStop(r)
    \/ CreateCluster(r) \/ GetClusterByName(r) \/ UpdateCluster(r)
    \/ Recreate(r) \/ DeleteCluster(r) \/ DatabaseFails(r)
    \/ GetClusterManager(r)

Next == Restart \/ \E r \in Requests : Step(r)

Spec == Init /\ [][Next]_vars

-----------------------------------------------------------------------------
(***************************************************************************)
(* Properties that hold however the handlers interleave.                   *)
(***************************************************************************)

\* No handler ever closes the stop channel of a manager twice: DeleteClusterManager
\* stops only what LoadAndDelete gave to it and to nobody else.
NoDoubleStop == \A r \in Requests : pc[r] # "panic"

\* A manager that GetClusterManager can hand out has its informers running:
\* no handler stops a manager that is still in the map, or stores a stopped one.
RegisteredRuns == \A n \in Names : sets[n] # None => informers[sets[n]] = "running"

\* However many handlers add, replace and remove managers, each is stopped once and not before
\* it is out of the map.
ManagersHandedOver == NoDoubleStop /\ RegisteredRuns

\* The steps from which a handler will still look at the row or at the map of
\* its name, so that a manager without a row under that name is its business.
Settling == {"create", "save", "recreate", "rollback", "remove"}

\* No ghost cluster: a manager of a name that is no kubeconfig context has
\* a row, unless a handler of that name is on its way to write one or to remove
\* the manager.  So once every handler has answered, a deleted cluster cannot
\* be reached any more, in whatever order adds, updates and deletes ran.
NoGhostManager ==
    \A n \in Names \ LocalNames :
        sets[n] # None => \/ rows[n] # None
                          \/ \E r \in Requests : req[r].name = n /\ pc[r] \in Settling

\* After a crash every row comes back as a manager of its content: InitKube
\* skips a row whose content does not build, and no handler ever stores one.
RestartServesEveryRow ==
    [][restarts' # restarts =>
           \A n \in Names : rows[n] # None =>
               /\ sets'[n] # None
               /\ informers'[sets'[n]] = "running"
               /\ built'[sets'[n]] = rows[n]]_vars

(***************************************************************************)
(* Properties of the names that no two handlers worked on at the same time *)
(* since the process started, whatever happened to the other names; two    *)
(* handlers of one name can break each.                                    *)
(***************************************************************************)
Settled(n) == HandlersOf(n) = {} /\ n \notin raced

\* The manager that serves a cluster was built from the content its row has.
ManagerMatchesRow ==
    \A n \in Names :
        Settled(n) /\ rows[n] # None /\ sets[n] # None => built[sets[n]] = rows[n]

\* A cluster with a row but no manager was the subject of a request that
\* failed since the process started: no request that succeeds, no crash and no
\* failure on another name takes a cluster out of service.
OutOfServiceAfterErrorOnly ==
    \A n \in Names :
        Settled(n) /\ rows[n] # None /\ sets[n] = None =>
            \E r \in Requests : pc[r] = "err" /\ req[r].name = n

\* Managers whose informers run although nobody can reach or stop them.
Leaked == {m \in Managers : /\ informers[m] = "running"
                            /\ \A n \in Names : sets[n] # m
                            /\ \A r \in Requests : held[r] # m}

\* The informers of a manager are lost only by a restart, which finds a row and
\* a context of one name, or by adding a name that is there already: updates,
\* deletes and every rollback stop what they replace.
LeaksOnlyByAdding ==
    [][\A m \in Managers : m \in Leaked' \ Leaked =>
           \/ restarts' # restarts
           \/ \E r \in Requests : /\ pc[r] = "register"
                                 /\ (req[r].op = "add" \/ req[r].name \in raced)]_vars

(***************************************************************************)
(* What the program says of itself and does not do.                        *)
(***************************************************************************)

\* GetClusterManager answers "not exist name: ..." for a name that does not
\* exist.  Adding an existing name replaces its manager, fails on the
\* unique index and rolls back by removing the manager of the cluster
\* that was there before.
NotExistMeansNoRow ==
    [][\A r \in Requests :
           pc[r] # "notExist" /\ pc'[r] = "notExist" => rows[req[r].name] = None]_vars

-----------------------------------------------------------------------------
=============================================================================
