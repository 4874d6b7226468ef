---------------------------- MODULE ClustersPage ----------------------------
(***************************************************************************)
(* The page that manages clusters (ui/src/pages/ClustersManage): a table, a  *)
(* modal that creates a cluster and one that edits the cluster the server    *)
(* was asked for.  Both modals share a loading flag and a handler that       *)
(* closes whichever of them its closure saw open.                            *)
(***************************************************************************)
EXTENDS Naturals, FiniteSets

CONSTANTS Clusters,     \* names of clusters
          Static,       \* those of a kubeconfig file, which cannot be edited
          ClusterCalls, \* bound: nobody clicks while more requests are under way
          None

VARIABLE cl     \* the state of useClusters, the forms, and the requests

Ops  == {"list", "get", "delete"}
Call == [op : Ops, name : Clusters \cup {None}]
\* a submission, with the modals that its callback saw open
Submission == [method : {"POST", "PUT"}, create : BOOLEAN, update : BOOLEAN]

ClustersAssumption ==
    Static \subseteq Clusters /\ None \notin Clusters \cup Submission /\ ClusterCalls \in Nat

ClustersTypeOK ==
    cl \in [clusters : SUBSET Clusters, editorCluster : Clusters \cup {None},
            openCreate : BOOLEAN, openUpdate : BOOLEAN, confirm : Clusters \cup {None},
            form : Clusters \cup {None},          \* the cluster the update form was filled with
            submitLoading : BOOLEAN, submission : Submission \cup {None},
            toasts : SUBSET {"get", "delete"},    \* cluster-info and cluster-delete, while they say loading
            calls : SUBSET Call]

Request(c, op, name) == [c EXCEPT !.calls = @ \cup {[op |-> op, name |-> name]}]
GetClusters(c) == Request(c, "list", None)

\* UpdateClusterModal's effects: fill the form, or forget it
Fill(c) == [c EXCEPT !.form = IF ~c.openUpdate THEN None
                              ELSE IF c.editorCluster # None THEN c.editorCluster ELSE @]
Become(c) == cl' = Fill(c)

\* quickCreated in the address opens the modal at once
ClustersInit ==
    \E quick \in BOOLEAN :
        cl = GetClusters([clusters |-> {}, editorCluster |-> None, openCreate |-> quick,
                          openUpdate |-> FALSE, confirm |-> None, form |-> None, submitLoading |-> FALSE,
                          submission |-> None, toasts |-> {}, calls |-> {}])

-----------------------------------------------------------------------------
Few == Cardinality(cl.calls) <= ClusterCalls
\* A modal covers the table.
TableFree == ~cl.openCreate /\ ~cl.openUpdate /\ cl.confirm = None /\ Few

\* ClusterOptions of a row
Editable(name) == TableFree /\ name \in cl.clusters \ Static

OpenCreateModal ==
    /\ TableFree
    /\ Become([cl EXCEPT !.openCreate = TRUE])

\* The menu of the desktop application changes the address, whatever is open.
QuickCreate ==
    /\ ~cl.openCreate
    /\ Become([cl EXCEPT !.openCreate = TRUE])

OpenUpdateModal(name) ==
    /\ Editable(name)
    /\ Become(Request([cl EXCEPT !.toasts = @ \cup {"get"}], "get", name))

ClickDelete(name) ==
    /\ Editable(name)
    /\ Become([cl EXCEPT !.confirm = name])

DeleteCluster ==
    /\ cl.confirm # None
    /\ Become(Request([cl EXCEPT !.confirm = None, !.toasts = @ \cup {"delete"}], "delete", cl.confirm))

KeepCluster ==
    /\ cl.confirm # None
    /\ Become([cl EXCEPT !.confirm = None])

\* handleCancelModal of a rendering in which create and update say what was open
CancelModal(c, create, update) ==
    [c EXCEPT !.openCreate = @ /\ ~create, !.openUpdate = @ /\ ~update]

\* One handler for both modals: closing one closes both.
Cancel ==
    /\ cl.openCreate \/ cl.openUpdate
    /\ Become(CancelModal(cl, cl.openCreate, cl.openUpdate))

\* CreateClusterModal and UpdateClusterModal; the buttons of both are loading after a submission.
CanCreate == cl.openCreate /\ ~cl.submitLoading
CanUpdate == cl.openUpdate /\ ~cl.submitLoading

\* handleClusterFormSubmit of a filled form
SubmitForm(method) ==
    /\ IF method = "POST" THEN CanCreate ELSE CanUpdate
    /\ Become([cl EXCEPT !.submitLoading = TRUE,
                         !.submission = [method |-> method, create |-> cl.openCreate,
                                         update |-> cl.openUpdate]])

\* .then with code 0, then .finally
SubmitArrives ==
    /\ cl.submission # None
    /\ LET c == CancelModal(cl, cl.submission.create, cl.submission.update)
       IN  Become(GetClusters([c EXCEPT !.editorCluster = None, !.submitLoading = FALSE,
                                        !.submission = None]))

SubmitFails ==
    /\ cl.submission # None
    /\ Become([cl EXCEPT !.submitLoading = FALSE, !.submission = None])

\* A message of a key replaces the one before it.
Answered(call) == [cl EXCEPT !.calls = @ \ {call}, !.toasts = @ \ {call.op}]

ListArrives(call) ==
    /\ call.op = "list"
    /\ \E names \in SUBSET Clusters : Become([Answered(call) EXCEPT !.clusters = names])

ClusterArrives(call) ==
    /\ call.op = "get"
    /\ Become([Answered(call) EXCEPT !.editorCluster = call.name, !.openUpdate = TRUE])

DeleteArrives(call) ==
    /\ call.op = "delete"
    /\ Become(GetClusters(Answered(call)))

CallFails(call) == Become(Answered(call))

ClustersNext ==
    \/ OpenCreateModal \/ QuickCreate \/ DeleteCluster \/ KeepCluster \/ Cancel
    \/ \E name \in cl.clusters : OpenUpdateModal(name) \/ ClickDelete(name)
    \/ \E method \in {"POST", "PUT"} : SubmitForm(method)
    \/ SubmitArrives \/ SubmitFails
    \/ \E call \in cl.calls :
        ListArrives(call) \/ ClusterArrives(call) \/ DeleteArrives(call) \/ CallFails(call)

ClustersSpec == ClustersInit /\ [][ClustersNext]_cl

-----------------------------------------------------------------------------
(* Properties                                                                *)

\* While the update modal names a cluster, its form is that cluster's, also when a second
\* cluster arrives in an open modal: what is submitted is not written over another cluster.
UpdateFormShowsCluster ==
    cl.openUpdate /\ cl.editorCluster # None => cl.form = cl.editorCluster

\* A message or button that says it is loading waits for an answer.
ClustersSpinnersEnd ==
    /\ cl.submitLoading => cl.submission # None
    /\ \A op \in cl.toasts : \E call \in cl.calls : call.op = op
=============================================================================
