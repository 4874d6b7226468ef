--------------------------- MODULE CurrentManager ---------------------------
(***************************************************************************)
(* GetClusterManager in the electron mode, the default of main.go.  The    *)
(* process keeps one manager, the package variable currentManagerSet, for  *)
(* the cluster that was asked for last; a request for another cluster      *)
(* builds its manager, checks that the cluster answers, stops the old      *)
(* manager and puts the new one in its place.                              *)
(*                                                                         *)
(* Every HTTP handler of the server calls this function and nothing locks  *)
(* the variable: each call is a sequence of steps here, one per access to  *)
(* the variable, the database, the cluster or a stop channel.  A manager   *)
(* is named after the request that builds it.                              *)
(***************************************************************************)
EXTENDS Naturals, FiniteSets

CONSTANTS Requests,     \* calls of GetClusterManager
          Names,        \* cluster names
          Cfgs,         \* what a kubeconfig context or a row says of a cluster
          Buildable,    \* the contents that a client can be built from
          None,         \* no such cluster, no manager
          MaxInFlight,  \* bound: calls running at the same time
          MaxEdits      \* bound: edits of the list of clusters

ASSUME BuildableAssumption == Buildable \subseteq Cfgs
ASSUME NoneAssumption == None \notin Cfgs /\ None \notin Requests
ASSUME NonEmptyAssumption == Names # {}
ASSUME BoundsAssumption == MaxInFlight \in Nat /\ MaxEdits \in Nat

Answered == {"ok", "err", "denied", "panic"}

Handling == {"check", "cached", "list", "build", "permission", "pick", "stopOld",
             "assign", "sync"}

VARIABLES
    clusters,   \* GetAllClusters: the first entry of each name, or None
    current,    \* currentManagerSet
    informers,  \* per manager: whether its informers never ran, run or stopped
    built,      \* per manager: the content it was built from
    name,       \* per call: the cluster asked for
    pc,         \* per call: its next step, or how it ended
    old,        \* per call: the manager it is about to stop, or has stopped
    returned,   \* per call: the manager handed to the handler
    edits,      \* how often the list of clusters changed
    alone       \* history, per call: no other call has run at the same time

vars == <<clusters, current, informers, built, name, pc, old, returned, edits, alone>>

TypeOK ==
    /\ clusters \in [Names -> Cfgs \cup {None}]
    /\ current \in Requests \cup {None}
    /\ informers \in [Requests -> {"none", "running", "stopped"}]
    /\ built \in [Requests -> Cfgs \cup {None}]
    /\ name \in [Requests -> Names]
    /\ pc \in [Requests -> {"idle"} \cup Answered \cup Handling]
    /\ old \in [Requests -> Requests \cup {None}]
    /\ returned \in [Requests -> Requests \cup {None}]
    /\ edits \in Nat
    /\ alone \in [Requests -> BOOLEAN]

InFlight == {r \in Requests : pc[r] \in Handling}

Init ==
    /\ clusters \in [Names -> Cfgs \cup {None}]
    /\ current = None
    /\ informers = [r \in Requests |-> "none"]
    /\ built = [r \in Requests |-> None]
    /\ name = [r \in Requests |-> CHOOSE n \in Names : TRUE]
    /\ pc = [r \in Requests |-> "idle"]
    /\ old = [r \in Requests |-> None]
    /\ returned = [r \in Requests |-> None]
    /\ edits = 0
    /\ alone = [r \in Requests |-> TRUE]

Goto(r, step) == pc' = [pc EXCEPT ![r] = step]

\* The cluster of a manager.
NameOf(m) == name[m]

-----------------------------------------------------------------------------
\* The kubeconfig file is edited, or a handler adds, updates or deletes a row:
\* in this mode none of them touches currentManagerSet.
EditClusters ==
    /\ edits < MaxEdits
    /\ edits' = edits + 1
    /\ \E n \in Names, content \in Cfgs \cup {None} :
          /\ content # clusters[n]
          /\ clusters' = [clusters EXCEPT ![n] = content]
    /\ UNCHANGED <<current, informers, built, name, pc, old, returned, alone>>

Call(r) ==
    /\ pc[r] = "idle"
    /\ Cardinality(InFlight) < MaxInFlight
    /\ \E n \in Names : name' = [name EXCEPT ![r] = n]
    /\ Goto(r, "check")
    /\ alone' = IF InFlight = {} THEN alone
                ELSE [q \in Requests |-> alone[q] /\ q \notin InFlight /\ q # r]
    /\ UNCHANGED <<clusters, current, informers, built, old, returned, edits>>

\* Mutant: whatever manager there is will do.
IsAny(n) == current # None

\* Is the current manager one of this cluster?  The variable is nil until the
\* first call and never again, so the two reads of the condition act as one.
IsCurrent(n) == current # None /\ NameOf(current) = n

Check(r) ==
    /\ pc[r] = "check"
    /\ Goto(r, IF IsCurrent(name[r]) THEN "cached" ELSE "list")
    /\ UNCHANGED <<clusters, current, informers, built, name, old, returned, edits, alone>>

\* The return statement of the fast path reads the variable again.
ReturnCached(r) ==
    /\ pc[r] = "cached"
    /\ returned' = [returned EXCEPT ![r] = current]
    /\ Goto(r, "ok")
    /\ UNCHANGED <<clusters, current, informers, built, name, old, edits, alone>>

\* GetAllClusters: the database call may fail, the name may not be there.
FindCluster(r) ==
    /\ pc[r] = "list"
    /\ clusters[name[r]] # None
    /\ built' = [built EXCEPT ![r] = clusters[name[r]]]
    /\ Goto(r, "build")
    /\ UNCHANGED <<clusters, current, informers, name, old, returned, edits, alone>>

FindClusterFails(r) ==
    /\ pc[r] = "list"
    /\ Goto(r, "err")
    /\ UNCHANGED <<clusters, current, informers, built, name, old, returned, edits, alone>>

\* buildClusterManager starts the informers of the manager it returns.
Build(r) ==
    /\ pc[r] = "build"
    /\ IF built[r] \in Buildable
         THEN informers' = [informers EXCEPT ![r] = "running"] /\ Goto(r, "permission")
         ELSE UNCHANGED informers /\ Goto(r, "err")
    /\ UNCHANGED <<clusters, current, built, name, old, returned, edits, alone>>

\* Mutant: the old manager is replaced and not stopped.
CheckPermissionKeepsOld(r) ==
    /\ pc[r] = "permission"
    /\ Goto(r, "assign") \/ Goto(r, "denied")
    /\ UNCHANGED <<clusters, current, informers, built, name, old, returned, edits, alone>>

\* Mutant: the old manager is stopped before the permission is checked.
CheckPermissionStopsOld(r) ==
    /\ pc[r] = "permission"
    /\ informers' = [m \in Requests |-> IF m = current THEN "stopped" ELSE informers[m]]
    /\ Goto(r, "assign") \/ Goto(r, "denied")
    /\ UNCHANGED <<clusters, current, built, name, old, returned, edits, alone>>

\* Mutant: the new manager is stopped whether or not the cluster refused it.
CheckPermissionStopsNew(r) ==
    /\ pc[r] = "permission"
    /\ informers' = [informers EXCEPT ![r] = "stopped"]
    /\ Goto(r, IF current = None THEN "assign" ELSE "pick") \/ Goto(r, "denied")
    /\ UNCHANGED <<clusters, current, built, name, old, returned, edits, alone>>

\* Listing the namespaces succeeds, or fails and leaves the new manager
\* running with nobody to stop it.
CheckPermission(r) ==
    /\ pc[r] = "permission"
    /\ \/ Goto(r, IF current = None THEN "assign" ELSE "pick")
       \/ Goto(r, "denied")
    /\ UNCHANGED <<clusters, current, informers, built, name, old, returned, edits, alone>>

\* currentManagerSet.KubeClient.Stop(): the variable is read, then the stop
\* channel of what was read is closed; closing it a second time panics.
PickOld(r) ==
    /\ pc[r] = "pick"
    /\ old' = [old EXCEPT ![r] = current]
    /\ Goto(r, "stopOld")
    /\ UNCHANGED <<clusters, current, informers, built, name, returned, edits, alone>>

StopOld(r) ==
    /\ pc[r] = "stopOld"
    /\ informers' = [informers EXCEPT ![old[r]] = "stopped"]
    /\ Goto(r, IF informers[old[r]] = "stopped" THEN "panic" ELSE "assign")
    /\ UNCHANGED <<clusters, current, built, name, old, returned, edits, alone>>

\* Mutant: the variable gets the name of the cluster.
AssignName(r) ==
    /\ pc[r] = "assign"
    /\ current' = name[r]
    /\ Goto(r, "sync")
    /\ UNCHANGED <<clusters, informers, built, name, old, returned, edits, alone>>

Assign(r) ==
    /\ pc[r] = "assign"
    /\ current' = r
    /\ Goto(r, "sync")
    /\ UNCHANGED <<clusters, informers, built, name, old, returned, edits, alone>>

\* WaitForCacheSync ends when the caches are filled or after ten seconds.
Sync(r) ==
    /\ pc[r] = "sync"
    /\ returned' = [returned EXCEPT ![r] = r]
    /\ Goto(r, "ok")
    /\ UNCHANGED <<clusters, current, informers, built, name, old, edits, alone>>

Step(r) ==
    \/ Call(r) \/ Check(r) \/ ReturnCached(r)
    \/ FindCluster(r) \/ FindClusterFails(r) \/ Build(r) \/ CheckPermission(r)
    \/ PickOld(r) \/ StopOld(r) \/ Assign(r) \/ Sync(r)

Next == EditClusters \/ \E r \in Requests : Step(r)

Spec == Init /\ [][Next]_vars

-----------------------------------------------------------------------------
(***************************************************************************)
(* Properties that hold however the calls interleave.                      *)
(***************************************************************************)
Quiet == InFlight = {}

\* The desktop application does not get stuck with a dead manager: when no call
\* is running, the current manager is one whose informers run.  Two calls may
\* stop the same manager (the second panics) or stop each other's; the
\* last one to put its manager in place has stopped another.
CurrentRuns == Quiet /\ current # None => informers[current] = "running"

\* What takes the place of the current manager is alive and can be reached: no
\* call stops a manager before it was current, not even two calls that stop
\* each other's.
SwitchesToRunning ==
    [][current' # current => current' # None /\ informers[current'] = "running"]_vars

\* A call that no other call overlaps gives the handler a manager of the
\* cluster it asked for, whatever overlapping calls did before it.
AloneGetsRightManager ==
    \A r \in Requests : alone[r] /\ pc[r] = "ok" => NameOf(returned[r]) = name[r]

\* A call that no other call overlaps does not panic, and when no two calls
\* ever overlapped every manager that was replaced has been stopped: what else
\* runs belongs to calls that the cluster refused.
OneManagerRuns ==
    Quiet => \A m \in Requests :
        /\ pc[m] = "panic" => ~ alone[m]
        /\ (\A r \in Requests : alone[r]) /\ informers[m] = "running"
              => m = current \/ pc[m] = "denied"

(***************************************************************************)
(* What the program says of itself and does not do.                        *)
(***************************************************************************)

\* The handlers are documented to answer with objects of the cluster named in
\* the request.  With two calls at the same time one may get the other's
\* manager: the fast path reads the variable twice.
RightManager ==
    \A r \in Requests : pc[r] = "ok" => NameOf(returned[r]) = name[r]

=============================================================================
