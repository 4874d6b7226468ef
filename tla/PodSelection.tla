---------------------------- MODULE PodSelection ----------------------------
(***************************************************************************)
(* The frame of the tool pages: which tool is open and what it works on.    *)
(*                                                                          *)
(* ui/src/hooks/usePodSelect.ts fills the three selects of PodSelectCard    *)
(* (cluster, namespace, pod or ConfigMap) from requests whose answers come  *)
(* back in any order; models/pod.ts holds the choice for the whole          *)
(* application and mirrors it in the local storage; pages/Tools/index.tsx   *)
(* opens a tool on it.  The choice outlives the page, the card outlives a   *)
(* change of tool, and only the local storage outlives a reload.            *)
(*                                                                          *)
(* A handler is an operator on the record ui.  An action is a handler       *)
(* followed by the effects that React runs before the next event.           *)
(***************************************************************************)
EXTENDS Naturals, FiniteSets

CONSTANTS Clusters,     \* names of clusters
          Namespaces,   \* names of namespaces, the same in every cluster that has them
          HasNamespace, \* the pairs <<cluster, namespace>> that exist
          MaxCalls,     \* bound: nobody clicks while more requests are under way
          PodTools,     \* paths of the tools that work on a pod
          None          \* undefined, and the empty string of the local storage

SelectionAssumption ==
    /\ HasNamespace \subseteq Clusters \X Namespaces
    /\ None \notin Clusters \cup Namespaces
    /\ MaxCalls \in Nat
    /\ PodTools \subseteq {"/terminal", "/tcpdump", "/files", "/profiling-go", "/pod-http-proxy", "/debug"}

VARIABLES ui,       \* what React and the local storage hold
          drifted   \* history: the choice was changed behind the back of a page, see Drift

selectionVars == <<ui, drifted>>

ToolPaths == PodTools \cup {"/config-map"}
Paths     == ToolPaths \cup {"/", "/manage/cluster"}
Selects   == {"cluster", "namespace", "detail"}

IsConfigMap(path) == path = "/config-map"
Kind(path) == IF IsConfigMap(path) THEN "configmap" ELSE "pod"

\* One pod and one ConfigMap per namespace are enough to tell selections apart.
Item == [kind : {"pod", "configmap"}, cluster : Clusters, namespace : Namespaces]
Call == [select : Selects, kind : {"pod", "configmap", None}, cluster : Clusters \cup {None},
         namespace : Namespaces \cup {None}, focus : BOOLEAN]

NoChoice == [cluster |-> None, namespace |-> None, pod |-> None, configmap |-> None]
EmptyCard == [clusters |-> FALSE, namespaces |-> {}, details |-> {}, detail |-> None,
              open |-> {}, loading |-> {}]

SelectionTypeOK ==
    LET Choice == [cluster : Clusters \cup {None}, namespace : Namespaces \cup {None},
                   pod : Item \cup {None}, configmap : Item \cup {None}]
    IN  /\ ui \in [path : Paths, choice : Choice, stored : Choice, tool : ToolPaths \cup {None},
                   card : [clusters : BOOLEAN, namespaces : SUBSET Namespaces, details : SUBSET Item,
                           detail : Item \cup {None}, open : SUBSET Selects, loading : SUBSET Selects],
                   calls : SUBSET Call]
        /\ drifted \in BOOLEAN

-----------------------------------------------------------------------------
(* models/pod.ts: every setter writes the state and the local storage.      *)

Update(u, key, value) == [u EXCEPT !.choice[key] = value, !.stored[key] = value]
Clear(u, key) == Update(u, key, None)
ClearPodOrConfigMap(u) == Clear(u, Kind(u.path))

(* usePodSelect.ts: the requests.                                            *)

Request(u, call) == [u EXCEPT !.calls = @ \cup {call}, !.card.loading = @ \cup {call.select}]
GetClusters(u, focus) ==
    Request(u, [select |-> "cluster", kind |-> None, cluster |-> None, namespace |-> None, focus |-> focus])
GetNamespaces(u, c, focus) ==
    Request(u, [select |-> "namespace", kind |-> None, cluster |-> c, namespace |-> None, focus |-> focus])
GetPodsOrConfigmap(u, c, n, focus) ==
    Request(u, [select |-> "detail", kind |-> Kind(u.path), cluster |-> c, namespace |-> n, focus |-> focus])

(* usePodSelect.ts: the handlers of the selects.                             *)

ChangeCluster(u) ==
    ClearPodOrConfigMap([Clear(u, "namespace") EXCEPT !.card.namespaces = {}, !.card.details = {},
                                                      !.card.detail = None])
SelectCluster(u, c) ==
    GetNamespaces([Update(u, "cluster", c) EXCEPT !.card.open = @ \ {"cluster"}], c, FALSE)

\* Mutant: the chosen pod or ConfigMap is kept.
ChangeNamespaceKeepsDetail(u) == [u EXCEPT !.card.details = {}, !.card.detail = None]

ChangeNamespace(u) ==
    ClearPodOrConfigMap([u EXCEPT !.card.details = {}, !.card.detail = None])
\* c is the cluster of the rendering the callback belongs to
SelectNamespace(u, n, c) ==
    IF c = None THEN u
    ELSE GetPodsOrConfigmap([Update(u, "namespace", n) EXCEPT !.card.open = @ \ {"namespace"}], c, n, FALSE)
SelectDetail(u, item) ==
    Update([u EXCEPT !.card.detail = item, !.card.open = @ \ {"detail"}], Kind(u.path), item)

\* initSelect, an effect: choose again what the local storage remembers
InitSelect(u) ==
    LET s == u.stored
        item == s[Kind(u.path)]
        a == IF s.cluster # None THEN SelectCluster(u, s.cluster) ELSE u
        b == IF s.cluster # None /\ s.namespace # None
             THEN SelectNamespace(a, s.namespace, u.choice.cluster) ELSE a
    IN  IF item # None /\ s.cluster # None /\ s.namespace # None THEN SelectDetail(b, item) ELSE b

\* Mutant: the effect runs once, when the card is mounted.
RerunNever(before, u) == u

\* The effect runs again when the cluster its callbacks were made for changes.
Rerun(before, u) == IF u.choice.cluster = before.choice.cluster THEN u ELSE InitSelect(u)
Effects(before, u) ==
    LET v == Rerun(before, u) IN Rerun(u, v)

\* PodSelectCard is mounted, or the location below it changes.
Enter(u) == LET v == InitSelect(u) IN Rerun(u, v)
Mount(u) == Enter(GetClusters([u EXCEPT !.card = EmptyCard, !.calls = {}], FALSE))

-----------------------------------------------------------------------------
(* pages/Tools/index.tsx, hooks/useTools.ts, components/PageHeader.          *)

(* The location becomes path.  The old page's clean-up forgets the tool and  *)
(* the effect of the new page remembers its own; the start page forgets it   *)
(* once more.                                                                *)
At(u, path) ==
    LET v == [u EXCEPT !.path = path, !.tool = IF path \in ToolPaths THEN path ELSE None]
    IN  IF path \notin ToolPaths THEN [v EXCEPT !.card = EmptyCard, !.calls = {}]
        ELSE IF u.path \in ToolPaths THEN Enter(v)
        ELSE Mount(v)

\* ToolCard: what the open tool works on.
Shown(u) ==
    IF u.path \in ToolPaths THEN u.choice[Kind(u.path)] ELSE None

OfChoice(item, choice) == item.cluster = choice.cluster /\ item.namespace = choice.namespace

\* The choice and the remembered item of the other kind of page part company, or the list of
\* the select does not belong to the choice and the page.
Drift(u) ==
    LET other == u.stored[IF IsConfigMap(u.path) THEN "pod" ELSE "configmap"]
    IN  \/ other # None /\ ~OfChoice(other, u.choice)
        \/ u.path \in ToolPaths /\ \E item \in u.card.details :
               item.kind # Kind(u.path) \/ ~OfChoice(item, u.choice)

Become(u) == ui' = u /\ drifted' = (drifted \/ Drift(u))

-----------------------------------------------------------------------------
SelectionInit ==
    /\ ui = [path |-> "/", choice |-> NoChoice, stored |-> NoChoice, tool |-> None,
             card |-> EmptyCard, calls |-> {}]
    /\ drifted = FALSE

\* Somebody looks at the card and not too much is under way.
Idle == ui.path \in ToolPaths /\ Cardinality(ui.calls) <= MaxCalls

\* The start page's and the menu's buttons remember the tool before the location changes.
ClickTool(path) ==
    /\ path # ui.path /\ ui.path # "/manage/cluster"
    /\ Become(At([ui EXCEPT !.tool = path], path))

\* The menu of the desktop application does the same from any page, but goes home without
\* forgetting the tool.
HandleElectronMessage(path) ==
    /\ path # ui.path
    /\ Become(At(IF path \in ToolPaths THEN [ui EXCEPT !.tool = path] ELSE ui, path))

\* The location changes by the address bar, by going back, by 返回首页 or the settings button.
Visit(path) ==
    /\ path # ui.path
    /\ Become(At(IF path = "/" THEN [ui EXCEPT !.tool = None] ELSE ui, path))

Reload ==
    LET fresh == [ui EXCEPT !.choice = NoChoice, !.card = EmptyCard, !.calls = {}]
    IN  Become(IF ui.path \in ToolPaths
               THEN Mount(fresh) ELSE fresh)

\* antd calls onChange, when the value changes, before onSelect.
PickCluster(c) ==
    /\ Idle /\ ui.card.clusters /\ "cluster" \in ui.card.open
    /\ LET u == IF c # ui.choice.cluster THEN ChangeCluster(ui) ELSE ui
       IN  Become(Effects(ui, SelectCluster(u, c)))
PickNamespace(n) ==
    /\ Idle /\ ui.choice.cluster # None /\ "namespace" \in ui.card.open /\ n \in ui.card.namespaces
    /\ LET u == IF n # ui.choice.namespace THEN ChangeNamespace(ui) ELSE ui
       IN  Become(SelectNamespace(u, n, ui.choice.cluster))
PickDetail(item) ==
    /\ Idle /\ ui.choice.cluster # None /\ ui.choice.namespace # None
    /\ "detail" \in ui.card.open /\ item \in ui.card.details
    /\ Become(SelectDetail(ui, item))

\* antd calls onClear before onChange.
ClearCluster ==
    /\ Idle /\ ui.choice.cluster # None
    /\ Become(Effects(ui, ChangeCluster(Clear(ui, "cluster"))))
ClearNamespace ==
    /\ Idle /\ ui.choice.cluster # None /\ ui.choice.namespace # None
    /\ Become(ChangeNamespace(Clear(ui, "namespace")))
ClearDetail ==
    /\ Idle /\ ui.choice.cluster # None /\ ui.choice.namespace # None /\ ui.card.detail # None
    /\ Become(ClearPodOrConfigMap([ui EXCEPT !.card.detail = None]))

MouseDown(select) ==
    /\ Idle /\ select \notin ui.card.open
    /\ select # "cluster" => ui.choice.cluster # None
    /\ select = "detail" => ui.choice.namespace # None
    /\ Become(CASE select = "cluster"   -> GetClusters(ui, TRUE)
                [] select = "namespace" -> GetNamespaces(ui, ui.choice.cluster, TRUE)
                [] select = "detail"    -> GetPodsOrConfigmap(ui, ui.choice.cluster, ui.choice.namespace, TRUE))
Blur(select) ==
    /\ select \in ui.card.open
    /\ Become([ui EXCEPT !.card.open = @ \ {select}])

\* finally: the first answer ends the spinner of its select
Answered(u, call) ==
    [u EXCEPT !.calls = @ \ {call}, !.card.loading = @ \ {call.select}]

\* .then with code 0
Answer(call) ==
    LET u == Answered(ui, call)
        v == CASE call.select = "cluster"   -> [u EXCEPT !.card.clusters = TRUE]
               [] call.select = "namespace" ->
                    [u EXCEPT !.card.namespaces = {n \in Namespaces : <<call.cluster, n>> \in HasNamespace}]
               [] call.select = "detail"    ->
                    [u EXCEPT !.card.details =
                        {i \in Item : i.kind = call.kind /\ OfChoice(i, call)
                                      /\ <<i.cluster, i.namespace>> \in HasNamespace}]
    IN  Become(IF call.focus THEN [v EXCEPT !.card.open = @ \cup {call.select}] ELSE v)

\* .then with another code, or .catch
Refused(call) == Become(Answered(ui, call))

SelectionNext ==
    \/ \E path \in ToolPaths : ClickTool(path)
    \/ \E path \in Paths : Visit(path) \/ HandleElectronMessage(path)
    \/ Reload
    \/ \E c \in Clusters : PickCluster(c)
    \/ \E n \in Namespaces : PickNamespace(n)
    \/ \E item \in ui.card.details : PickDetail(item)
    \/ ClearCluster \/ ClearNamespace \/ ClearDetail
    \/ \E select \in Selects : MouseDown(select) \/ Blur(select)
    \/ \E call \in ui.calls : Answer(call) \/ Refused(call)

SelectionSpec == SelectionInit /\ [][SelectionNext]_selectionVars

-----------------------------------------------------------------------------
(* Properties                                                                *)

\* The pod or ConfigMap that the open tool works on is one of the cluster and namespace that the
\* selects show, unless the cluster or namespace was changed on a page of the other kind, or a
\* late answer filled the list (usePodSelect.ts:140 takes any answer).
ToolWorksOnChoice ==
    ~drifted /\ Shown(ui) # None => Shown(ui).kind = Kind(ui.path) /\ OfChoice(Shown(ui), ui.choice)

\* A reload of a tool page, at any moment, brings back what was chosen: initSelect needs the
\* cluster of its own first run to restore the namespace in its second.
ReloadRestoresChoice ==
    ui.path \in ToolPaths =>
        LET v == Mount([ui EXCEPT !.choice = NoChoice])
        IN  /\ v.choice.cluster = ui.choice.cluster
            /\ v.choice.namespace = ui.choice.namespace
            /\ ui.choice.namespace # None => Shown(v) = Shown(ui)

\* A select that says it is loading waits for an answer (setLoading, .finally), however the
\* answers of several requests for it and the moves between pages are ordered.
SelectSpinnersEnd == \A select \in ui.card.loading : \E call \in ui.calls : call.select = select
=============================================================================
