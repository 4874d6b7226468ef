---------------------------- MODULE WorkbenchProofs ----------------------------
(***************************************************************************)
(* The pages of the browser, the wrapped transport of the proxy, the files   *)
(* of a diff and the downloads of the desktop, for any number of clusters,   *)
(* pods, files, requests and answers.                                        *)
(*                                                                          *)
(* A part per page: the records its state is in, its inductive invariant, a  *)
(* lemma per group of its actions, and the theorem about what a run checks.  *)
(* In the whole, a page is explored only when it is open: its invariant is   *)
(* that of a page, XPage == page = "x" => XInv.  The last part puts the      *)
(* pages together.                                                          *)
(***************************************************************************)
EXTENDS Workbench, SequenceTheorems, FiniteSetTheorems, WellFoundedInduction, TLAPS

-----------------------------------------------------------------------------
\* Every set of natural numbers that is not empty has a least one.
LEMMA LeastNumber ==
  ASSUME NEW T \in SUBSET Nat, T # {}
  PROVE  \E m \in T : \A k \in T : ~ (k < m)
<1> DEFINE R == {pair \in Nat \X Nat : pair[1] < pair[2]}
<1>1. IsWellFoundedOn(R, Nat)
  BY NatLessThanWellFounded DEF OpToRel
<1> HIDE DEF R
<1>2. \E m \in T : \A k \in T : ~ (<<k, m>> \in R)
  BY <1>1, WFMin
<1> QED BY <1>2 DEF R

-----------------------------------------------------------------------------
(***************************************************************************)
(* The frame of the tool pages (PodSelection).                              *)
(***************************************************************************)
Choices == [cluster : Clusters \cup {None}, namespace : Namespaces \cup {None},
            pod : Selection!Item \cup {None}, configmap : Selection!Item \cup {None}]

Cards == [clusters : BOOLEAN, namespaces : SUBSET Namespaces, details : SUBSET Selection!Item,
          detail : Selection!Item \cup {None}, open : SUBSET Selection!Selects,
          loading : SUBSET Selection!Selects]

UiRecord == [path : Selection!Paths, choice : Choices, stored : Choices,
             tool : Selection!ToolPaths \cup {None}, card : Cards, calls : SUBSET Selection!Call]

Kinds == {"pod", "configmap"}
Keys  == {"cluster", "namespace"} \cup Kinds

Fits(key, value) ==
    /\ key = "cluster"   => value \in Clusters \cup {None}
    /\ key = "namespace" => value \in Namespaces \cup {None}
    /\ key \in Kinds     => value \in Selection!Item \cup {None}

\* A select that is loading waits for an answer.
Spins(u) == \A select \in u.card.loading : \E request \in u.calls : request.select = select

UiSound(u) == u \in UiRecord /\ Spins(u)

\* What is chosen is remembered.
Remembers(u) ==
    /\ \A key \in Keys : u.choice[key] \in {None, u.stored[key]}
    /\ u.choice.cluster = None => u.choice.namespace = None

\* What is remembered, for the kind of page that is open, is chosen.
Restored(u) ==
    /\ u.choice.cluster = u.stored.cluster
    /\ u.choice.cluster # None => u.choice.namespace = u.stored.namespace
    /\ u.choice.namespace # None =>
           u.choice[Selection!Kind(u.path)] = u.stored[Selection!Kind(u.path)]

\* The items that are remembered are of the cluster and namespace that are remembered.
StoredTogether(u) ==
    \A kind \in Kinds :
        u.stored[kind] # None => /\ u.stored[kind].kind = kind
                                 /\ Selection!OfChoice(u.stored[kind], u.stored)

SelectionInv ==
    /\ UiSound(ui) /\ Remembers(ui)
    /\ ui.path \in Selection!ToolPaths => Restored(ui)
    /\ drifted \in BOOLEAN
    /\ ~drifted => ~Selection!Drift(ui) /\ StoredTogether(ui)

\* One part of the choice is set, and remembered; the card may change.
Puts(u, r, key, value) ==
    /\ UiSound(r) /\ r.path = u.path
    /\ r.choice[key] = value /\ r.stored[key] = value
    /\ \A k \in Keys : k # key => r.choice[k] = u.choice[k] /\ r.stored[k] = u.stored[k]

\* Nothing of the choice changes.
SameChoice(u, r) == UiSound(r) /\ r.path = u.path /\ r.choice = u.choice /\ r.stored = u.stored

-----------------------------------------------------------------------------
(* The parts of the handlers.                                                *)

LEMMA KindIsKey == \A path : Selection!Kind(path) \in Kinds /\ Selection!Kind(path) \in Keys
BY DEF Selection!Kind, Kinds, Keys

LEMMA ChoiceIsPut ==
  ASSUME NEW c \in Choices, NEW key \in Keys, NEW value, Fits(key, value)
  PROVE  LET r == [c EXCEPT ![key] = value]
         IN  /\ r \in Choices /\ r[key] = value
             /\ \A k \in Keys : k # key => r[k] = c[k]
<1>1. CASE key = "cluster"
  <2>1. value \in Clusters \cup {None}
    BY <1>1 DEF Fits
  <2> QED BY <1>1, <2>1 DEF Choices, Keys, Kinds
<1>2. CASE key = "namespace"
  <2>1. value \in Namespaces \cup {None}
    BY <1>2 DEF Fits
  <2> QED BY <1>2, <2>1 DEF Choices, Keys, Kinds
<1>3. CASE key \in Kinds
  <2>1. value \in Selection!Item \cup {None}
    BY <1>3 DEF Fits
  <2> QED BY <1>3, <2>1 DEF Choices, Keys, Kinds
<1> QED BY <1>1, <1>2, <1>3 DEF Keys

LEMMA UpdatePuts ==
  ASSUME NEW u, UiSound(u), NEW key \in Keys, NEW value, Fits(key, value)
  PROVE  LET r == Selection!Update(u, key, value)
         IN  Puts(u, r, key, value) /\ r.card = u.card
<1> DEFINE choice == [u.choice EXCEPT ![key] = value]
           stored == [u.stored EXCEPT ![key] = value]
           r == [u EXCEPT !.choice = choice, !.stored = stored]
<1>1. r = Selection!Update(u, key, value)
  BY Zenon DEF Selection!Update
<1>2. u.choice \in Choices /\ u.stored \in Choices
  BY DEF UiSound, UiRecord
<1>3. /\ choice \in Choices /\ choice[key] = value
      /\ \A k \in Keys : k # key => choice[k] = u.choice[k]
  BY <1>2, ChoiceIsPut
<1>4. /\ stored \in Choices /\ stored[key] = value
      /\ \A k \in Keys : k # key => stored[k] = u.stored[k]
  BY <1>2, ChoiceIsPut
<1> HIDE DEF choice, stored
<1>5. /\ r \in UiRecord /\ r.path = u.path /\ r.choice = choice /\ r.stored = stored
      /\ r.card = u.card /\ r.calls = u.calls
  BY <1>3, <1>4 DEF UiSound, UiRecord
<1> HIDE DEF r
<1>6. Puts(u, r, key, value)
  BY <1>3, <1>4, <1>5 DEF Puts, UiSound, Spins
<1> QED BY <1>1, <1>5, <1>6

\* The card changes but for what is loading.
LEMMA CardChanges ==
  ASSUME NEW u, UiSound(u), NEW card \in Cards, card.loading = u.card.loading
  PROVE  SameChoice(u, [u EXCEPT !.card = card])
<1> DEFINE r == [u EXCEPT !.card = card]
<1>1. /\ r \in UiRecord /\ r.path = u.path /\ r.choice = u.choice /\ r.stored = u.stored
      /\ r.card = card /\ r.calls = u.calls
  BY DEF UiSound, UiRecord
<1> HIDE DEF r
<1>2. SameChoice(u, r)
  BY <1>1 DEF SameChoice, UiSound, Spins
<1> QED BY <1>2 DEF r

LEMMA SelectCloses ==
  ASSUME NEW u, UiSound(u), NEW select
  PROVE  SameChoice(u, [u EXCEPT !.card.open = u.card.open \ {select}])
<1> DEFINE card == [u.card EXCEPT !.open = u.card.open \ {select}]
<1>1. u.card \in Cards
  BY DEF UiSound, UiRecord
<1>2. card \in Cards /\ card.loading = u.card.loading
  BY <1>1 DEF Cards
<1>3. [u EXCEPT !.card.open = u.card.open \ {select}] = [u EXCEPT !.card = card]
  BY Zenon
<1> HIDE DEF card
<1>4. SameChoice(u, [u EXCEPT !.card = card])
  BY <1>2, CardChanges
<1> QED BY <1>3, <1>4

\* A request is sent, and its select is loading.
LEMMA RequestSpins ==
  ASSUME NEW u, UiSound(u), NEW request \in Selection!Call
  PROVE  SameChoice(u, Selection!Request(u, request))
<1> DEFINE calls == u.calls \cup {request}
           loading == u.card.loading \cup {request.select}
           card == [u.card EXCEPT !.loading = loading]
           r == [u EXCEPT !.calls = calls, !.card = card]
<1>1. r = Selection!Request(u, request)
  BY Zenon DEF Selection!Request
<1>2. u.card \in Cards /\ u.calls \subseteq Selection!Call /\ request.select \in Selection!Selects
  BY DEF UiSound, UiRecord, Selection!Call
<1>3. calls \subseteq Selection!Call
  BY <1>2
<1>4. loading \subseteq Selection!Selects
  BY <1>2 DEF Cards
<1>5. \A select \in loading : \E other \in calls : other.select = select
  BY DEF UiSound, Spins
<1> HIDE DEF calls, loading
<1>6. card \in Cards /\ card.loading = loading
  BY <1>2, <1>4 DEF Cards
<1> HIDE DEF card
<1>7. /\ r \in UiRecord /\ r.path = u.path /\ r.choice = u.choice /\ r.stored = u.stored
      /\ r.card = card /\ r.calls = calls
  BY <1>3, <1>6 DEF UiSound, UiRecord
<1> HIDE DEF r
<1>8. SameChoice(u, r)
  BY <1>5, <1>6, <1>7 DEF SameChoice, UiSound, Spins
<1> QED BY <1>1, <1>8

LEMMA ListsAreAsked ==
  ASSUME NEW u, UiSound(u), NEW c \in Clusters \cup {None}, NEW n \in Namespaces \cup {None},
         NEW focus \in BOOLEAN
  PROVE  /\ SameChoice(u, Selection!GetClusters(u, focus))
         /\ SameChoice(u, Selection!GetNamespaces(u, c, focus))
         /\ SameChoice(u, Selection!GetPodsOrConfigmap(u, c, n, focus))
<1>1. Selection!Kind(u.path) \in Kinds
  BY KindIsKey
<1>2. ASSUME NEW select \in Selection!Selects, NEW kind \in Kinds \cup {None},
             NEW d \in Clusters \cup {None}, NEW m \in Namespaces \cup {None}
      PROVE  [select |-> select, kind |-> kind, cluster |-> d, namespace |-> m, focus |-> focus]
                 \in Selection!Call
  BY DEF Selection!Call, Kinds
<1>3. {"cluster", "namespace", "detail"} \subseteq Selection!Selects
  BY DEF Selection!Selects
<1>4. /\ [select |-> "cluster", kind |-> None, cluster |-> None, namespace |-> None, focus |-> focus]
             \in Selection!Call
      /\ [select |-> "namespace", kind |-> None, cluster |-> c, namespace |-> None, focus |-> focus]
             \in Selection!Call
      /\ [select |-> "detail", kind |-> Selection!Kind(u.path), cluster |-> c, namespace |-> n,
          focus |-> focus] \in Selection!Call
  BY <1>1, <1>2, <1>3
<1> QED BY <1>4, RequestSpins DEF Selection!GetClusters, Selection!GetNamespaces, Selection!GetPodsOrConfigmap

\* The page and what is remembered stay; what is remembered is chosen.
Restores(u, r) ==
    /\ UiSound(r) /\ Remembers(r) /\ Restored(r) /\ r.path = u.path
    /\ \A k \in Keys : r.stored[k] = u.stored[k]

LEMMA NoneIsNobody ==
  /\ \A c \in Clusters : c # None
  /\ \A n \in Namespaces : n # None
  /\ \A item \in Selection!Item : item.cluster \in Clusters /\ item.namespace \in Namespaces
BY SelectionAssumed DEF Selection!SelectionAssumption, Selection!Item

LEMMA Chosen ==
  ASSUME NEW u, UiSound(u)
  PROVE  /\ u.choice.cluster \in Clusters \cup {None} /\ u.stored.cluster \in Clusters \cup {None}
         /\ u.choice.namespace \in Namespaces \cup {None}
         /\ u.stored.namespace \in Namespaces \cup {None}
         /\ \A kind \in Kinds : /\ u.stored[kind] \in Selection!Item \cup {None}
                                /\ u.choice[kind] \in Selection!Item \cup {None}
         /\ u.path \in Selection!Paths
BY DEF UiSound, UiRecord, Choices, Kinds

\* Choosing a cluster or a namespace closes the select and asks for the next list.
LEMMA ClusterIsPut ==
  ASSUME NEW u, UiSound(u), NEW c \in Clusters \cup {None}
  PROVE  Puts(u, Selection!SelectCluster(u, c), "cluster", c)
<1> DEFINE a == Selection!Update(u, "cluster", c)
           b == [a EXCEPT !.card.open = a.card.open \ {"cluster"}]
           r == Selection!GetNamespaces(b, c, FALSE)
<1>1. r = Selection!SelectCluster(u, c)
  BY Zenon DEF Selection!SelectCluster
<1>2. Fits("cluster", c) /\ "cluster" \in Keys
  BY DEF Fits, Kinds, Keys
<1>3. Puts(u, a, "cluster", c)
  BY <1>2, UpdatePuts
<1> HIDE DEF a
<1>4. SameChoice(a, b)
  BY <1>3, SelectCloses DEF Puts
<1> HIDE DEF b
<1>5. UiSound(b)
  BY <1>4 DEF SameChoice
<1>6. SameChoice(b, r)
  BY <1>5, ListsAreAsked
<1> HIDE DEF r
<1>7. Puts(u, r, "cluster", c)
  BY <1>3, <1>4, <1>6 DEF Puts, SameChoice
<1> QED BY <1>1, <1>7

LEMMA NamespaceIsPut ==
  ASSUME NEW u, UiSound(u), NEW c \in Clusters, NEW n \in Namespaces \cup {None}
  PROVE  Puts(u, Selection!SelectNamespace(u, n, c), "namespace", n)
<1> DEFINE a == Selection!Update(u, "namespace", n)
           b == [a EXCEPT !.card.open = a.card.open \ {"namespace"}]
           r == Selection!GetPodsOrConfigmap(b, c, n, FALSE)
<1>0. c # None
  BY NoneIsNobody
<1>1. r = Selection!SelectNamespace(u, n, c)
  BY <1>0, Zenon DEF Selection!SelectNamespace
<1>2. Fits("namespace", n) /\ "namespace" \in Keys
  BY DEF Fits, Kinds, Keys
<1>3. Puts(u, a, "namespace", n)
  BY <1>2, UpdatePuts
<1> HIDE DEF a
<1>4. SameChoice(a, b)
  BY <1>3, SelectCloses DEF Puts
<1> HIDE DEF b
<1>5. UiSound(b)
  BY <1>4 DEF SameChoice
<1>6. SameChoice(b, r)
  BY <1>5, ListsAreAsked
<1> HIDE DEF r
<1>7. Puts(u, r, "namespace", n)
  BY <1>3, <1>4, <1>6 DEF Puts, SameChoice
<1> QED BY <1>1, <1>7

LEMMA DetailIsPut ==
  ASSUME NEW u, UiSound(u), NEW item \in Selection!Item
  PROVE  Puts(u, Selection!SelectDetail(u, item), Selection!Kind(u.path), item)
<1> DEFINE key == Selection!Kind(u.path)
           card == [u.card EXCEPT !.detail = item, !.open = u.card.open \ {"detail"}]
           a == [u EXCEPT !.card = card]
           r == Selection!Update(a, key, item)
<1>1. [u EXCEPT !.card.detail = item, !.card.open = u.card.open \ {"detail"}] = a
  BY Zenon
<1>2. r = Selection!SelectDetail(u, item)
  BY <1>1, Zenon DEF Selection!SelectDetail
<1>3. u.card \in Cards
  BY DEF UiSound, UiRecord
<1>4. card \in Cards /\ card.loading = u.card.loading
  BY <1>3 DEF Cards
<1> HIDE DEF card
<1>5. SameChoice(u, a)
  BY <1>4, CardChanges
<1> HIDE DEF a
<1>6. Fits(key, item) /\ key \in Keys
  BY KindIsKey DEF Fits, Kinds
<1> HIDE DEF key
<1>7. Puts(a, r, key, item)
  BY <1>5, <1>6, UpdatePuts DEF SameChoice
<1> HIDE DEF r
<1>8. Puts(u, r, key, item)
  BY <1>5, <1>7 DEF Puts, SameChoice
<1> QED BY <1>2, <1>8 DEF key

LEMMA DetailIsCleared ==
  ASSUME NEW u, UiSound(u)
  PROVE  Puts(u, Selection!ClearPodOrConfigMap(u), Selection!Kind(u.path), None)
<1>1. Fits(Selection!Kind(u.path), None) /\ Selection!Kind(u.path) \in Keys
  BY KindIsKey DEF Fits, Kinds
<1>2. Puts(u, Selection!Update(u, Selection!Kind(u.path), None), Selection!Kind(u.path), None)
  BY <1>1, UpdatePuts
<1> QED BY <1>2 DEF Selection!ClearPodOrConfigMap, Selection!Clear

\* A changed namespace clears the pod or ConfigMap, a changed cluster the namespace too.
LEMMA NamespaceChanges ==
  ASSUME NEW u, UiSound(u)
  PROVE  Puts(u, Selection!ChangeNamespace(u), Selection!Kind(u.path), None)
<1> DEFINE card == [u.card EXCEPT !.details = {}, !.detail = None]
           a == [u EXCEPT !.card = card]
           r == Selection!ClearPodOrConfigMap(a)
<1>1. [u EXCEPT !.card.details = {}, !.card.detail = None] = a
  BY Zenon
<1>2. r = Selection!ChangeNamespace(u)
  BY <1>1, Zenon DEF Selection!ChangeNamespace
<1>3. u.card \in Cards
  BY DEF UiSound, UiRecord
<1>4. card \in Cards /\ card.loading = u.card.loading
  BY <1>3 DEF Cards
<1> HIDE DEF card
<1>5. SameChoice(u, a)
  BY <1>4, CardChanges
<1> HIDE DEF a
<1>7. Puts(a, r, Selection!Kind(a.path), None)
  BY <1>5, DetailIsCleared DEF SameChoice
<1> HIDE DEF r
<1>8. Puts(u, r, Selection!Kind(u.path), None)
  BY <1>5, <1>7 DEF Puts, SameChoice
<1> QED BY <1>2, <1>8

LEMMA ClusterChanges ==
  ASSUME NEW u, UiSound(u)
  PROVE  LET r == Selection!ChangeCluster(u)
         IN  /\ UiSound(r) /\ r.path = u.path
             /\ r.choice.namespace = None /\ r.stored.namespace = None
             /\ r.choice[Selection!Kind(u.path)] = None /\ r.stored[Selection!Kind(u.path)] = None
             /\ \A k \in Keys \ {"namespace", Selection!Kind(u.path)} :
                    r.choice[k] = u.choice[k] /\ r.stored[k] = u.stored[k]
<1> DEFINE a == Selection!Clear(u, "namespace")
           card == [a.card EXCEPT !.namespaces = {}, !.details = {}, !.detail = None]
           b == [a EXCEPT !.card = card]
           r == Selection!ClearPodOrConfigMap(b)
<1>1. [a EXCEPT !.card.namespaces = {}, !.card.details = {}, !.card.detail = None] = b
  BY Zenon
<1>2. r = Selection!ChangeCluster(u)
  BY <1>1, Zenon DEF Selection!ChangeCluster
<1>3. Fits("namespace", None) /\ "namespace" \in Keys
  BY DEF Fits, Kinds, Keys
<1>4. Puts(u, a, "namespace", None)
  BY <1>3, UpdatePuts DEF Selection!Clear
<1> HIDE DEF a
<1>5. a.card \in Cards
  BY <1>4 DEF Puts, UiSound, UiRecord
<1>6. card \in Cards /\ card.loading = a.card.loading
  BY <1>5 DEF Cards
<1> HIDE DEF card
<1>7. SameChoice(a, b)
  BY <1>4, <1>6, CardChanges DEF Puts
<1> HIDE DEF b
<1>8. Puts(b, r, Selection!Kind(b.path), None)
  BY <1>7, DetailIsCleared DEF SameChoice
<1> HIDE DEF r
<1>9. /\ UiSound(r) /\ r.path = u.path
      /\ r.choice[Selection!Kind(u.path)] = None /\ r.stored[Selection!Kind(u.path)] = None
      /\ \A k \in Keys \ {"namespace", Selection!Kind(u.path)} :
             r.choice[k] = u.choice[k] /\ r.stored[k] = u.stored[k]
  BY <1>4, <1>7, <1>8 DEF Puts, SameChoice
<1>10. "namespace" # Selection!Kind(u.path)
  BY KindIsKey DEF Kinds
<1>11. r.choice.namespace = None /\ r.stored.namespace = None
  BY <1>3, <1>4, <1>7, <1>8, <1>10 DEF Puts, SameChoice
<1> QED BY <1>2, <1>9, <1>11

-----------------------------------------------------------------------------
(* initSelect restores the choice in one run when its cluster is known and in *)
(* two when it is not.                                                         *)

LEMMA InitSelects ==
  ASSUME NEW u, UiSound(u), Remembers(u)
  PROVE  LET r == Selection!InitSelect(u)
         IN  /\ UiSound(r) /\ Remembers(r) /\ r.path = u.path
             /\ \A k \in Keys : r.stored[k] = u.stored[k]
             /\ r.choice.cluster = u.stored.cluster
             /\ u.choice.cluster # None \/ u.stored.cluster = None => Restored(r)
<1> DEFINE s == u.stored
           kind == Selection!Kind(u.path)
           item == s[kind]
           c == s.cluster
           n == s.namespace
           a == IF c # None THEN Selection!SelectCluster(u, c) ELSE u
           b == IF c # None /\ n # None
                THEN Selection!SelectNamespace(a, n, u.choice.cluster) ELSE a
           r == IF item # None /\ c # None /\ n # None THEN Selection!SelectDetail(b, item) ELSE b
<1>1. r = Selection!InitSelect(u)
  BY Zenon DEF Selection!InitSelect
<1>2. kind \in Kinds /\ kind \in Keys
  BY KindIsKey
<1>3. /\ c \in Clusters \cup {None} /\ n \in Namespaces \cup {None} /\ item \in Selection!Item \cup {None}
      /\ u.choice.cluster \in Clusters \cup {None}
      /\ u.choice.namespace \in Namespaces \cup {None}
  BY <1>2, Chosen
<1>4. /\ {"cluster", "namespace", kind} \subseteq Keys /\ kind \notin {"cluster", "namespace"}
      /\ "pod" \in Keys /\ "configmap" \in Keys
  BY <1>2 DEF Keys, Kinds
<1>5. /\ UiSound(a) /\ a.path = u.path
      /\ \A k \in Keys : /\ a.stored[k] = u.stored[k]
                         /\ k # "cluster" => a.choice[k] = u.choice[k]
      /\ a.choice.cluster = c
  <2>1. CASE c # None
    <3>1. Puts(u, a, "cluster", c)
      BY <1>3, <2>1, ClusterIsPut
    <3> QED BY <3>1 DEF Puts
  <2>2. CASE c = None
    <3>1. u.choice.cluster = None
      BY <1>4, <2>2 DEF Remembers
    <3> QED BY <2>2, <3>1
  <2> QED BY <2>1, <2>2
<1> HIDE DEF a
<1>6. /\ UiSound(b) /\ b.path = u.path
      /\ \A k \in Keys : /\ b.stored[k] = u.stored[k]
                         /\ k \notin {"cluster", "namespace"} => b.choice[k] = u.choice[k]
      /\ b.choice.cluster = c
      /\ b.choice.namespace \in {u.choice.namespace, n}
      /\ c # None /\ u.choice.cluster # None => b.choice.namespace = n
      /\ c = None => b.choice.namespace = u.choice.namespace
  <2>1. CASE c # None /\ n # None /\ u.choice.cluster # None
    <3>1. Puts(a, b, "namespace", n)
      BY <1>3, <1>5, <2>1, NamespaceIsPut
    <3> QED BY <1>4, <1>5, <3>1 DEF Puts
  <2>2. CASE c # None /\ n # None /\ u.choice.cluster = None
    <3>1. b = a
      BY <2>2, Zenon DEF Selection!SelectNamespace
    <3> QED BY <1>4, <1>5, <2>2, <3>1
  <2>3. CASE ~(c # None /\ n # None)
    <3>1. b = a
      BY <2>3
    <3>2. n = None => u.choice.namespace = None
      BY <1>4 DEF Remembers
    <3> QED BY <1>4, <1>5, <2>3, <3>1, <3>2
  <2> QED BY <2>1, <2>2, <2>3
<1> HIDE DEF b
<1>7. /\ UiSound(r) /\ r.path = u.path
      /\ \A k \in Keys : /\ r.stored[k] = u.stored[k]
                         /\ k # kind => r.choice[k] = b.choice[k]
      /\ r.choice[kind] \in {u.choice[kind], item}
      /\ c # None /\ n # None /\ item # None => r.choice[kind] = item
  <2>1. CASE item # None /\ c # None /\ n # None
    <3>1. Puts(b, r, kind, item)
      BY <1>3, <1>6, <2>1, DetailIsPut
    <3> QED BY <1>4, <1>6, <2>1, <3>1 DEF Puts
  <2>2. CASE ~(item # None /\ c # None /\ n # None)
    BY <1>4, <1>6, <2>2
  <2> QED BY <2>1, <2>2
<1> HIDE DEF r
<1>8. /\ r.choice.cluster = c /\ r.choice.namespace = b.choice.namespace
      /\ r.stored.cluster = c /\ r.stored.namespace = n /\ r.stored[kind] = item
  BY <1>4, <1>6, <1>7
<1>9. c = None => u.choice.cluster = None
  BY <1>4 DEF Remembers
<1>10. u.choice.namespace \in {None, n} /\ u.choice[kind] \in {None, item}
       /\ (u.choice.cluster = None => u.choice.namespace = None)
  BY <1>4 DEF Remembers
<1>11. Remembers(r)
  <2>1. \A k \in Keys : r.choice[k] \in {None, r.stored[k]}
    <3>1. ASSUME NEW k \in Keys, k \notin {"cluster", "namespace", kind}
          PROVE  r.choice[k] \in {None, r.stored[k]}
      BY <1>6, <1>7, <3>1 DEF Remembers
    <3> QED BY <1>6, <1>7, <1>8, <1>10, <3>1
  <2>2. r.choice.cluster = None => r.choice.namespace = None
    BY <1>6, <1>8, <1>9, <1>10
  <2> QED BY <2>1, <2>2 DEF Remembers
<1>12. u.choice.cluster # None \/ c = None => Restored(r)
  <2> SUFFICES ASSUME u.choice.cluster # None \/ c = None PROVE Restored(r)
    OBVIOUS
  <2>1. r.choice.cluster # None => r.choice.namespace = n
    BY <1>6, <1>8
  <2>2. r.choice.namespace # None => r.choice[kind] = item
    BY <1>7, <1>8, <1>10, <1>11, <2>1 DEF Remembers
  <2> QED BY <1>7, <1>8, <2>1, <2>2 DEF Restored
<1> QED BY <1>1, <1>7, <1>8, <1>11, <1>12

LEMMA EnterRestores ==
  ASSUME NEW u, UiSound(u), Remembers(u)
  PROVE  Restores(u, Selection!Enter(u))
<1> DEFINE v == Selection!InitSelect(u)
           r == IF v.choice.cluster = u.choice.cluster THEN v ELSE Selection!InitSelect(v)
<1>1. r = Selection!Enter(u)
  BY Zenon DEF Selection!Enter, Selection!Rerun
<1>2. /\ UiSound(v) /\ Remembers(v) /\ v.path = u.path
      /\ \A k \in Keys : v.stored[k] = u.stored[k]
      /\ v.choice.cluster = u.stored.cluster
      /\ u.choice.cluster # None \/ u.stored.cluster = None => Restored(v)
  BY InitSelects
<1> HIDE DEF v
<1>3. u.choice.cluster \in {None, u.stored.cluster}
  BY DEF Remembers, Keys
<1>4. CASE v.choice.cluster = u.choice.cluster
  BY <1>1, <1>2, <1>4 DEF Restores
<1>5. CASE v.choice.cluster # u.choice.cluster
  <2>1. v.choice.cluster # None
    BY <1>2, <1>3, <1>5
  <2>2. Restores(v, Selection!InitSelect(v))
    BY <1>2, <2>1, InitSelects DEF Restores
  <2> QED BY <1>1, <1>2, <1>5, <2>2 DEF Restores
<1> QED BY <1>4, <1>5

\* The card is mounted empty and asks for the clusters.
LEMMA CardIsEmptied ==
  ASSUME NEW u, UiSound(u)
  PROVE  SameChoice(u, [u EXCEPT !.card = Selection!EmptyCard, !.calls = {}])
<1> DEFINE r == [u EXCEPT !.card = Selection!EmptyCard, !.calls = {}]
<1>1. Selection!EmptyCard \in Cards /\ Selection!EmptyCard.loading = {}
  BY DEF Cards, Selection!EmptyCard
<1>2. /\ r \in UiRecord /\ r.path = u.path /\ r.choice = u.choice /\ r.stored = u.stored
      /\ r.card = Selection!EmptyCard /\ r.calls = {}
  BY <1>1 DEF UiSound, UiRecord
<1> HIDE DEF r
<1>3. SameChoice(u, r)
  BY <1>1, <1>2 DEF SameChoice, UiSound, Spins
<1> QED BY <1>3 DEF r

LEMMA SameRemembers ==
  ASSUME NEW u, NEW r, SameChoice(u, r), Remembers(u)
  PROVE  Remembers(r)
BY DEF SameChoice, Remembers

LEMMA MountRestores ==
  ASSUME NEW u, UiSound(u), Remembers(u)
  PROVE  Restores(u, Selection!Mount(u))
<1> DEFINE a == [u EXCEPT !.card = Selection!EmptyCard, !.calls = {}]
           b == Selection!GetClusters(a, FALSE)
           r == Selection!Enter(b)
<1>1. r = Selection!Mount(u)
  BY Zenon DEF Selection!Mount
<1>2. SameChoice(u, a)
  BY CardIsEmptied, Zenon
<1> HIDE DEF a
<1>3. SameChoice(a, b)
  BY <1>2, ListsAreAsked DEF SameChoice
<1> HIDE DEF b
<1>4. SameChoice(u, b)
  BY <1>2, <1>3 DEF SameChoice
<1>5. UiSound(b) /\ Remembers(b)
  BY <1>4, SameRemembers DEF SameChoice
<1>6. Restores(b, r)
  BY <1>5, EnterRestores
<1> HIDE DEF r
<1>7. Restores(u, r)
  BY <1>4, <1>6 DEF SameChoice, Restores
<1> QED BY <1>1, <1>7

LEMMA EffectsRestore ==
  ASSUME NEW before, NEW u, UiSound(u), Remembers(u), Restored(u)
  PROVE  Restores(u, Selection!Effects(before, u))
<1> DEFINE Again(x, y) == IF y.choice.cluster = x.choice.cluster THEN y ELSE Selection!InitSelect(y)
           v == Again(before, u)
           r == Again(u, v)
<1>1. r = Selection!Effects(before, u)
  BY Zenon DEF Selection!Effects, Selection!Rerun
<1>2. ASSUME NEW x, NEW y, UiSound(y), Remembers(y), Restored(y)
      PROVE  Restores(y, Again(x, y))
  <2>1. y.choice.cluster # None \/ y.stored.cluster = None
    BY <1>2 DEF Restored
  <2>2. CASE y.choice.cluster = x.choice.cluster
    BY <1>2, <2>2 DEF Restores
  <2>3. CASE y.choice.cluster # x.choice.cluster
    <3>1. Restores(y, Selection!InitSelect(y))
      BY <1>2, <2>1, InitSelects DEF Restores
    <3> QED BY <2>3, <3>1
  <2> QED BY <2>2, <2>3
<1>3. Restores(u, v)
  BY <1>2
<1> HIDE DEF v
<1>4. Restores(v, r)
  BY <1>2, <1>3 DEF Restores
<1> HIDE DEF r
<1>5. Restores(u, r)
  BY <1>3, <1>4 DEF Restores
<1> QED BY <1>1, <1>5

\* Another location: what is remembered stays, and a tool page restores it.
LEMMA AtRestores ==
  ASSUME NEW u, UiSound(u), Remembers(u), NEW path \in Selection!Paths
  PROVE  LET r == Selection!At(u, path)
         IN  /\ UiSound(r) /\ Remembers(r) /\ r.path = path
             /\ \A k \in Keys : r.stored[k] = u.stored[k]
             /\ path \in Selection!ToolPaths => Restored(r)
<1> DEFINE tool == IF path \in Selection!ToolPaths THEN path ELSE None
           v == [u EXCEPT !.path = path, !.tool = tool]
           r == Selection!At(u, path)
<1>1. tool \in Selection!ToolPaths \cup {None}
  OBVIOUS
<1>2. ASSUME path \notin Selection!ToolPaths
      PROVE  r = [v EXCEPT !.card = Selection!EmptyCard, !.calls = {}]
  BY <1>2, Zenon DEF Selection!At
<1>3. path \in Selection!ToolPaths => r \in {Selection!Enter(v), Selection!Mount(v)}
  BY Zenon DEF Selection!At
<1> HIDE DEF tool
<1>4. /\ v \in UiRecord /\ v.path = path /\ v.choice = u.choice /\ v.stored = u.stored
      /\ v.card = u.card /\ v.calls = u.calls
  BY <1>1 DEF UiSound, UiRecord
<1> HIDE DEF v, r
<1>5. UiSound(v) /\ Remembers(v)
  BY <1>4 DEF UiSound, Spins, Remembers
<1>6. CASE path \notin Selection!ToolPaths
  <2>1. SameChoice(v, r)
    <3>1. SameChoice(v, [v EXCEPT !.card = Selection!EmptyCard, !.calls = {}])
      BY <1>5, CardIsEmptied, Zenon
    <3> QED BY <1>2, <1>6, <3>1, Zenon
  <2>2. Remembers(r)
    BY <1>5, <2>1, SameRemembers
  <2> QED BY <1>4, <1>6, <2>1, <2>2 DEF SameChoice, r
<1>7. CASE path \in Selection!ToolPaths
  <2>1. Restores(v, r)
    BY <1>3, <1>5, <1>7, EnterRestores, MountRestores
  <2> QED BY <1>4, <2>1 DEF Restores, r
<1> QED BY <1>6, <1>7

-----------------------------------------------------------------------------
(* What is remembered stays together.                                         *)

LEMMA SameTogether ==
  ASSUME NEW w, StoredTogether(w), NEW u, \A k \in Keys : u.stored[k] = w.stored[k]
  PROVE  StoredTogether(u)
<1>1. u.stored.cluster = w.stored.cluster /\ u.stored.namespace = w.stored.namespace
  BY DEF Keys
<1>2. \A kind \in Kinds : u.stored[kind] = w.stored[kind]
  BY DEF Keys
<1> QED BY <1>1, <1>2 DEF StoredTogether, Selection!OfChoice

\* The item of the page's own kind is as it should be; were that of the other kind not, the
\* choice would have drifted.
LEMMA OtherTogether ==
  ASSUME NEW w, StoredTogether(w), NEW u, UiSound(u), Restored(u), ~Selection!Drift(u),
         \A kind \in Kinds \ {Selection!Kind(u.path)} : u.stored[kind] = w.stored[kind],
         LET item == u.stored[Selection!Kind(u.path)]
         IN  item # None => /\ item.kind = Selection!Kind(u.path)
                            /\ Selection!OfChoice(item, u.stored)
  PROVE  StoredTogether(u)
<1> SUFFICES ASSUME NEW kind \in Kinds, kind # Selection!Kind(u.path), u.stored[kind] # None
             PROVE  /\ u.stored[kind].kind = kind
                    /\ Selection!OfChoice(u.stored[kind], u.stored)
  BY DEF StoredTogether
<1> DEFINE other == u.stored[kind]
<1>1. other.kind = kind
  BY DEF StoredTogether
<1>2. Selection!OfChoice(other, u.choice)
  BY DEF Selection!Drift, Selection!Kind, Kinds
<1>3. other \in Selection!Item
  BY Chosen
<1>4. u.choice.cluster # None
  BY <1>2, <1>3, NoneIsNobody DEF Selection!OfChoice
<1>5. u.choice.cluster = u.stored.cluster /\ u.choice.namespace = u.stored.namespace
  BY <1>4 DEF Restored
<1> QED BY <1>1, <1>2, <1>5 DEF Selection!OfChoice

LEMMA Becomes ==
  ASSUME SelectionInv, NEW u, UiSound(u), Remembers(u), u.path \in Selection!ToolPaths => Restored(u),
         Selection!Become(u), ~drifted /\ ~Selection!Drift(u) => StoredTogether(u)
  PROVE  SelectionInv'
<1>1. ui' = u
  BY DEF Selection!Become
<1>2. drifted' = (drifted \/ Selection!Drift(u))
  BY DEF Selection!Become
<1>3. drifted' \in BOOLEAN
  <2>1. (drifted \/ Selection!Drift(u)) \in BOOLEAN
    BY Zenon
  <2> QED BY <1>2, <2>1
<1>4. ~drifted' => ~Selection!Drift(u) /\ StoredTogether(u)
  BY <1>2
<1>5. /\ UiSound(ui') /\ Remembers(ui')
      /\ ui'.path \in Selection!ToolPaths => Restored(ui')
      /\ ~drifted' => ~Selection!Drift(ui') /\ StoredTogether(ui')
  BY <1>1, <1>4
<1> QED BY <1>3, <1>5, Zenon DEF SelectionInv

\* Nothing of the choice changes.
LEMMA NothingChosen ==
  ASSUME SelectionInv, NEW u, SameChoice(ui, u), Selection!Become(u)
  PROVE  SelectionInv'
<1>1. UiSound(u) /\ Remembers(u)
  BY SameRemembers DEF SelectionInv, SameChoice
<1>2. u.path \in Selection!ToolPaths => Restored(u)
  BY DEF SelectionInv, SameChoice, Restored
<1>3. ~drifted => StoredTogether(u)
  BY SameTogether DEF SelectionInv, SameChoice
<1> QED BY <1>1, <1>2, <1>3, Becomes

\* The location changes.
LEMMA Goes ==
  ASSUME SelectionInv, NEW v, SameChoice(ui, v), NEW path \in Selection!Paths,
         Selection!Become(Selection!At(v, path))
  PROVE  SelectionInv'
<1> DEFINE u == Selection!At(v, path)
<1>1. UiSound(v) /\ Remembers(v)
  BY SameRemembers DEF SelectionInv, SameChoice
<1>2. /\ UiSound(u) /\ Remembers(u) /\ u.path = path
      /\ \A k \in Keys : u.stored[k] = v.stored[k]
      /\ path \in Selection!ToolPaths => Restored(u)
  BY <1>1, AtRestores
<1> HIDE DEF u
<1>3. ~drifted => StoredTogether(u)
  BY <1>2, SameTogether DEF SelectionInv, SameChoice
<1> QED BY <1>2, <1>3, Becomes DEF u

LEMMA ToolIsNoted ==
  ASSUME NEW u, UiSound(u), NEW tool \in Selection!ToolPaths \cup {None}
  PROVE  SameChoice(u, [u EXCEPT !.tool = tool])
<1> DEFINE r == [u EXCEPT !.tool = tool]
<1>1. /\ r \in UiRecord /\ r.path = u.path /\ r.choice = u.choice /\ r.stored = u.stored
      /\ r.card = u.card /\ r.calls = u.calls
  BY DEF UiSound, UiRecord
<1> HIDE DEF r
<1>2. SameChoice(u, r)
  BY <1>1 DEF SameChoice, UiSound, Spins
<1> QED BY <1>2 DEF r

LEMMA ClickToolKeeps ==
  ASSUME SelectionInv, NEW path \in Selection!ToolPaths, Selection!ClickTool(path)
  PROVE  SelectionInv'
<1> DEFINE v == [ui EXCEPT !.tool = path]
<1>1. Selection!Become(Selection!At(v, path))
  BY Zenon DEF Selection!ClickTool
<1>2. SameChoice(ui, v)
  BY ToolIsNoted, Zenon DEF SelectionInv
<1>3. path \in Selection!Paths
  BY DEF Selection!Paths
<1> HIDE DEF v
<1> QED BY <1>1, <1>2, <1>3, Goes

LEMMA HandleElectronMessageKeeps ==
  ASSUME SelectionInv, NEW path \in Selection!Paths, Selection!HandleElectronMessage(path)
  PROVE  SelectionInv'
<1> DEFINE w == [ui EXCEPT !.tool = path]
           v == IF path \in Selection!ToolPaths THEN w ELSE ui
<1>1. Selection!Become(Selection!At(v, path))
  BY Zenon DEF Selection!HandleElectronMessage
<1>2. path \in Selection!ToolPaths => SameChoice(ui, w)
  BY ToolIsNoted, Zenon DEF SelectionInv
<1>3. SameChoice(ui, ui)
  BY DEF SameChoice, SelectionInv
<1> HIDE DEF w
<1>4. SameChoice(ui, v)
  BY <1>2, <1>3
<1> HIDE DEF v
<1> QED BY <1>1, <1>4, Goes

LEMMA VisitKeeps ==
  ASSUME SelectionInv, NEW path \in Selection!Paths, Selection!Visit(path)
  PROVE  SelectionInv'
<1> DEFINE w == [ui EXCEPT !.tool = None]
           v == IF path = "/" THEN w ELSE ui
<1>1. Selection!Become(Selection!At(v, path))
  BY Zenon DEF Selection!Visit
<1>2. SameChoice(ui, w)
  BY ToolIsNoted, Zenon DEF SelectionInv
<1>3. SameChoice(ui, ui)
  BY DEF SameChoice, SelectionInv
<1> HIDE DEF w
<1>4. SameChoice(ui, v)
  BY <1>2, <1>3
<1> HIDE DEF v
<1> QED BY <1>1, <1>4, Goes

LEMMA ReloadKeeps ==
  ASSUME SelectionInv, Selection!Reload
  PROVE  SelectionInv'
<1> DEFINE a == [ui EXCEPT !.choice = Selection!NoChoice]
           v == [a EXCEPT !.card = Selection!EmptyCard, !.calls = {}]
           u == IF ui.path \in Selection!ToolPaths THEN Selection!Mount(v) ELSE v
<1>1. v = [ui EXCEPT !.choice = Selection!NoChoice, !.card = Selection!EmptyCard, !.calls = {}]
  BY Zenon
<1>2. Selection!Become(u)
  BY <1>1, Zenon DEF Selection!Reload
<1>3. Selection!NoChoice \in Choices
      /\ \A k \in Keys : Selection!NoChoice[k] = None
  BY DEF Choices, Selection!NoChoice, Keys, Kinds
<1>4. UiSound(ui)
  BY DEF SelectionInv
<1>5. /\ a \in UiRecord /\ a.path = ui.path /\ a.choice = Selection!NoChoice /\ a.stored = ui.stored
      /\ a.card = ui.card /\ a.calls = ui.calls
  BY <1>3, <1>4 DEF UiSound, UiRecord
<1> HIDE DEF a
<1>6. UiSound(a)
  BY <1>4, <1>5 DEF UiSound, Spins
<1>7. Remembers(a)
  BY <1>3, <1>5 DEF Remembers, Keys
<1>8. SameChoice(a, v)
  BY <1>6, CardIsEmptied, Zenon
<1> HIDE DEF v
<1>9. UiSound(v) /\ Remembers(v)
  BY <1>7, <1>8, SameRemembers DEF SameChoice
<1>10. CASE ui.path \in Selection!ToolPaths
  <2>1. Restores(v, u)
    BY <1>9, <1>10, MountRestores
  <2> HIDE DEF u
  <2>2. ~drifted => StoredTogether(u)
    BY <1>5, <1>8, <2>1, SameTogether DEF SelectionInv, SameChoice, Restores
  <2> QED BY <1>2, <2>1, <2>2, Becomes DEF Restores
<1>11. CASE ui.path \notin Selection!ToolPaths
  <2>1. u = v
    BY <1>11
  <2> HIDE DEF u
  <2>2. ~drifted => StoredTogether(u)
    BY <1>5, <1>8, <2>1, SameTogether DEF SelectionInv, SameChoice
  <2> QED BY <1>2, <1>5, <1>8, <1>9, <1>11, <2>1, <2>2, Becomes DEF SameChoice
<1> QED BY <1>10, <1>11

-----------------------------------------------------------------------------
(* The selects.                                                               *)

\* A choice is made on a page: the remembered item of the other kind stays.
LEMMA Chooses ==
  ASSUME SelectionInv, NEW u, UiSound(u), Remembers(u), Restored(u), u.path = ui.path,
         \A kind \in Kinds \ {Selection!Kind(ui.path)} : u.stored[kind] = ui.stored[kind],
         ~drifted /\ u.stored[Selection!Kind(ui.path)] # None =>
             /\ u.stored[Selection!Kind(ui.path)].kind = Selection!Kind(ui.path)
             /\ Selection!OfChoice(u.stored[Selection!Kind(ui.path)], u.stored),
         Selection!Become(u)
  PROVE  SelectionInv'
<1>1. ~drifted /\ ~Selection!Drift(u) => StoredTogether(u)
  BY OtherTogether DEF SelectionInv
<1> QED BY <1>1, Becomes

LEMMA PageKeys ==
  ASSUME NEW path
  PROVE  /\ Keys = {"cluster", "namespace", "pod", "configmap"}
         /\ Kinds = {"pod", "configmap"}
         /\ Selection!Kind(path) \in Kinds
BY DEF Keys, Kinds, Selection!Kind

LEMMA PickClusterKeeps ==
  ASSUME SelectionInv, NEW c \in Clusters, Selection!PickCluster(c)
  PROVE  SelectionInv'
<1> DEFINE kind == Selection!Kind(ui.path)
           d == Selection!ChangeCluster(ui)
           w == IF c # ui.choice.cluster THEN d ELSE ui
           x == Selection!SelectCluster(w, c)
           u == Selection!Effects(ui, x)
<1>1. ui.path \in Selection!ToolPaths /\ Selection!Become(u)
  BY Zenon DEF Selection!PickCluster, Selection!Idle
<1>2. /\ UiSound(ui) /\ Remembers(ui) /\ Restored(ui) /\ (~drifted => StoredTogether(ui))
  BY <1>1 DEF SelectionInv
<1>3. /\ UiSound(d) /\ d.path = ui.path
      /\ d.choice.namespace = None /\ d.stored.namespace = None
      /\ d.choice[kind] = None /\ d.stored[kind] = None
      /\ \A k \in Keys \ {"namespace", kind} :
             d.choice[k] = ui.choice[k] /\ d.stored[k] = ui.stored[k]
  BY <1>2, ClusterChanges
<1> HIDE DEF d
<1>4. UiSound(w) /\ w.path = ui.path
  BY <1>2, <1>3
<1>5. Puts(w, x, "cluster", c)
  BY <1>4, ClusterIsPut
<1> HIDE DEF x
<1>6. c # None
  BY NoneIsNobody
<1>keys. Keys = {"cluster", "namespace", "pod", "configmap"} /\ Kinds = {"pod", "configmap"} /\ kind \in Kinds
  BY PageKeys
<1> HIDE DEF kind
<1>7. CASE c # ui.choice.cluster
  <2>1. /\ UiSound(x) /\ x.path = ui.path
        /\ x.choice.cluster = c /\ x.stored.cluster = c
        /\ x.choice.namespace = None /\ x.stored.namespace = None
        /\ x.choice[kind] = None /\ x.stored[kind] = None
        /\ \A k \in Kinds \ {kind} : x.choice[k] = ui.choice[k] /\ x.stored[k] = ui.stored[k]
    BY <1>3, <1>5, <1>7, <1>keys DEF Puts
  <2>2. \A k \in Keys : x.choice[k] \in {None, x.stored[k]}
    BY <1>2, <1>keys, <2>1 DEF Remembers
  <2>3. Remembers(x) /\ Restored(x)
    BY <2>1, <2>2, Zenon DEF Remembers, Restored, kind
  <2>4. Restores(x, u)
    BY <2>1, <2>3, EffectsRestore
  <2> HIDE DEF u
  <2>5. /\ u.stored[kind] = None
        /\ \A k \in Kinds \ {kind} : u.stored[k] = ui.stored[k]
    BY <1>keys, <2>1, <2>4 DEF Restores
  <2> QED BY <1>1, <2>1, <2>4, <2>5, Chooses DEF Restores, kind
<1>8. CASE c = ui.choice.cluster
  <2>1. /\ UiSound(x) /\ x.path = ui.path
        /\ \A k \in Keys : x.choice[k] = ui.choice[k] /\ x.stored[k] = ui.stored[k]
    BY <1>2, <1>5, <1>8, <1>keys DEF Puts, Restored
  <2>2. Remembers(x) /\ Restored(x)
    BY <1>2, <1>keys, <2>1 DEF Remembers, Restored, kind
  <2>4. Restores(x, u)
    BY <2>1, <2>2, EffectsRestore
  <2> HIDE DEF u
  <2>5. \A k \in Keys : u.stored[k] = ui.stored[k]
    BY <2>1, <2>4 DEF Restores
  <2>6. ~drifted => StoredTogether(u)
    BY <1>2, <2>5, SameTogether
  <2> QED BY <1>1, <2>1, <2>4, <2>6, Becomes DEF Restores
<1> QED BY <1>7, <1>8

LEMMA PickNamespaceKeeps ==
  ASSUME SelectionInv, NEW n \in Namespaces, Selection!PickNamespace(n)
  PROVE  SelectionInv'
<1> DEFINE kind == Selection!Kind(ui.path)
           c == ui.choice.cluster
           d == Selection!ChangeNamespace(ui)
           w == IF n # ui.choice.namespace THEN d ELSE ui
           u == Selection!SelectNamespace(w, n, c)
<1>1. ui.path \in Selection!ToolPaths /\ c # None /\ Selection!Become(u)
  BY Zenon DEF Selection!PickNamespace, Selection!Idle
<1>2. /\ UiSound(ui) /\ Remembers(ui) /\ Restored(ui) /\ (~drifted => StoredTogether(ui))
  BY <1>1 DEF SelectionInv
<1>3. Puts(ui, d, kind, None)
  BY <1>2, NamespaceChanges
<1> HIDE DEF d
<1>4. UiSound(w) /\ w.path = ui.path /\ c \in Clusters
  BY <1>1, <1>2, <1>3, Chosen DEF Puts
<1>5. Puts(w, u, "namespace", n)
  BY <1>4, NamespaceIsPut
<1> HIDE DEF u
<1>6. n # None
  BY NoneIsNobody
<1>keys. Keys = {"cluster", "namespace", "pod", "configmap"} /\ Kinds = {"pod", "configmap"} /\ kind \in Kinds
  BY PageKeys
<1> HIDE DEF kind
<1>7. CASE n # ui.choice.namespace
  <2>1. /\ UiSound(u) /\ u.path = ui.path
        /\ u.choice.namespace = n /\ u.stored.namespace = n
        /\ u.choice[kind] = None /\ u.stored[kind] = None
        /\ \A k \in Keys \ {"namespace", kind} :
               u.choice[k] = ui.choice[k] /\ u.stored[k] = ui.stored[k]
    BY <1>3, <1>5, <1>7, <1>keys DEF Puts
  <2>2. u.choice.cluster = c /\ u.stored.cluster = c
    BY <1>2, <1>keys, <2>1 DEF Restored
  <2>3. \A k \in Keys : u.choice[k] \in {None, u.stored[k]}
    BY <1>2, <1>keys, <2>1 DEF Remembers
  <2>4. Remembers(u) /\ Restored(u)
    BY <1>1, <2>1, <2>2, <2>3, Zenon DEF Remembers, Restored, kind
  <2>5. \A k \in Kinds \ {kind} : u.stored[k] = ui.stored[k]
    BY <1>keys, <2>1
  <2> QED BY <1>1, <2>1, <2>4, <2>5, Chooses DEF kind
<1>8. CASE n = ui.choice.namespace
  <2>1. /\ UiSound(u) /\ u.path = ui.path
        /\ \A k \in Keys : u.choice[k] = ui.choice[k] /\ u.stored[k] = ui.stored[k]
    BY <1>1, <1>2, <1>5, <1>8, <1>keys DEF Puts, Restored
  <2>2. Remembers(u) /\ Restored(u)
    BY <1>2, <1>keys, <2>1 DEF Remembers, Restored, kind
  <2>6. ~drifted => StoredTogether(u)
    BY <1>2, <2>1, SameTogether
  <2> QED BY <1>1, <2>1, <2>2, <2>6, Becomes
<1> QED BY <1>7, <1>8

LEMMA PickDetailKeeps ==
  ASSUME SelectionInv, NEW item \in ui.card.details, Selection!PickDetail(item)
  PROVE  SelectionInv'
<1> DEFINE kind == Selection!Kind(ui.path)
           u == Selection!SelectDetail(ui, item)
<1>1. /\ ui.path \in Selection!ToolPaths /\ ui.choice.cluster # None
      /\ ui.choice.namespace # None /\ Selection!Become(u)
  BY Zenon DEF Selection!PickDetail, Selection!Idle
<1>2. /\ UiSound(ui) /\ Remembers(ui) /\ Restored(ui) /\ (~drifted => ~Selection!Drift(ui))
  BY <1>1 DEF SelectionInv
<1>3. item \in Selection!Item
  BY <1>2 DEF UiSound, UiRecord, Cards
<1>4. Puts(ui, u, kind, item)
  BY <1>2, <1>3, DetailIsPut
<1> HIDE DEF u
<1>5. Keys = {"cluster", "namespace", "pod", "configmap"} /\ Kinds = {"pod", "configmap"} /\ kind \in Kinds
  BY PageKeys
<1>6. ~drifted => item.kind = kind /\ Selection!OfChoice(item, ui.choice)
  BY <1>1, <1>2 DEF Selection!Drift
<1> HIDE DEF kind
<1>7. /\ UiSound(u) /\ u.path = ui.path /\ u.choice[kind] = item /\ u.stored[kind] = item
      /\ \A k \in Keys \ {kind} : u.choice[k] = ui.choice[k] /\ u.stored[k] = ui.stored[k]
      /\ u.choice.cluster = ui.choice.cluster /\ u.choice.namespace = ui.choice.namespace
      /\ u.stored.cluster = ui.stored.cluster /\ u.stored.namespace = ui.stored.namespace
  BY <1>4, <1>5 DEF Puts
<1>8. \A k \in Keys : u.choice[k] \in {None, u.stored[k]}
  BY <1>2, <1>5, <1>7 DEF Remembers
<1>9. ui.choice.cluster = ui.stored.cluster /\ ui.choice.namespace = ui.stored.namespace
  BY <1>1, <1>2 DEF Restored
<1>10. Remembers(u) /\ Restored(u)
  BY <1>1, <1>7, <1>8, <1>9, Zenon DEF Remembers, Restored, kind
<1>11. ~drifted => item.kind = kind /\ Selection!OfChoice(item, u.stored)
  BY <1>6, <1>7, <1>9 DEF Selection!OfChoice
<1>12. \A k \in Kinds \ {kind} : u.stored[k] = ui.stored[k]
  BY <1>5, <1>7
<1> QED BY <1>1, <1>7, <1>10, <1>11, <1>12, Chooses DEF kind

LEMMA ClearClusterKeeps ==
  ASSUME SelectionInv, Selection!ClearCluster
  PROVE  SelectionInv'
<1> DEFINE kind == Selection!Kind(ui.path)
           a == Selection!Clear(ui, "cluster")
           x == Selection!ChangeCluster(a)
           u == Selection!Effects(ui, x)
<1>1. ui.path \in Selection!ToolPaths /\ Selection!Become(u)
  BY Zenon DEF Selection!ClearCluster, Selection!Idle
<1>2. UiSound(ui) /\ Remembers(ui)
  BY DEF SelectionInv
<1>3. Fits("cluster", None) /\ "cluster" \in Keys
  BY DEF Fits, Keys, Kinds
<1>4. Puts(ui, a, "cluster", None)
  BY <1>2, <1>3, UpdatePuts DEF Selection!Clear
<1> HIDE DEF a
<1>5. /\ UiSound(x) /\ x.path = a.path
      /\ x.choice.namespace = None /\ x.stored.namespace = None
      /\ x.choice[kind] = None /\ x.stored[kind] = None
      /\ \A k \in Keys \ {"namespace", kind} :
             x.choice[k] = a.choice[k] /\ x.stored[k] = a.stored[k]
  BY <1>4, ClusterChanges DEF Puts
<1> HIDE DEF x
<1>6. Keys = {"cluster", "namespace", "pod", "configmap"} /\ Kinds = {"pod", "configmap"} /\ kind \in Kinds
  BY PageKeys
<1> HIDE DEF kind
<1>7. /\ x.path = ui.path /\ x.choice.cluster = None /\ x.stored.cluster = None
      /\ \A k \in Kinds \ {kind} : x.choice[k] = ui.choice[k] /\ x.stored[k] = ui.stored[k]
  BY <1>4, <1>5, <1>6 DEF Puts
<1>8. \A k \in Keys : x.choice[k] \in {None, x.stored[k]}
  BY <1>2, <1>5, <1>6, <1>7 DEF Remembers
<1>9. Remembers(x) /\ Restored(x)
  BY <1>5, <1>7, <1>8, Zenon DEF Remembers, Restored
<1>10. Restores(x, u)
  BY <1>5, <1>9, EffectsRestore
<1> HIDE DEF u
<1>11. /\ u.stored[kind] = None
       /\ \A k \in Kinds \ {kind} : u.stored[k] = ui.stored[k]
  BY <1>5, <1>6, <1>7, <1>10 DEF Restores
<1> QED BY <1>1, <1>7, <1>10, <1>11, Chooses DEF Restores, kind

LEMMA ClearNamespaceKeeps ==
  ASSUME SelectionInv, Selection!ClearNamespace
  PROVE  SelectionInv'
<1> DEFINE kind == Selection!Kind(ui.path)
           a == Selection!Clear(ui, "namespace")
           u == Selection!ChangeNamespace(a)
<1>1. ui.path \in Selection!ToolPaths /\ Selection!Become(u)
  BY Zenon DEF Selection!ClearNamespace, Selection!Idle
<1>2. UiSound(ui) /\ Remembers(ui) /\ Restored(ui)
  BY <1>1 DEF SelectionInv
<1>3. Fits("namespace", None) /\ "namespace" \in Keys
  BY DEF Fits, Keys, Kinds
<1>4. Puts(ui, a, "namespace", None)
  BY <1>2, <1>3, UpdatePuts DEF Selection!Clear
<1> HIDE DEF a
<1>5. Puts(a, u, Selection!Kind(a.path), None)
  BY <1>4, NamespaceChanges DEF Puts
<1> HIDE DEF u
<1>6. Keys = {"cluster", "namespace", "pod", "configmap"} /\ Kinds = {"pod", "configmap"} /\ kind \in Kinds
  BY PageKeys
<1>7. Puts(a, u, kind, None) /\ a.path = ui.path
  BY <1>4, <1>5 DEF Puts
<1> HIDE DEF kind
<1>8. /\ UiSound(u) /\ u.path = ui.path
      /\ u.choice.namespace = None /\ u.stored.namespace = None
      /\ u.choice[kind] = None /\ u.stored[kind] = None
      /\ \A k \in Keys \ {"namespace", kind} :
             u.choice[k] = ui.choice[k] /\ u.stored[k] = ui.stored[k]
  BY <1>4, <1>6, <1>7 DEF Puts
<1>9. \A k \in Keys : u.choice[k] \in {None, u.stored[k]}
  BY <1>2, <1>6, <1>8 DEF Remembers
<1>10. u.choice.cluster = u.stored.cluster
  BY <1>2, <1>6, <1>8 DEF Restored
<1>11. Remembers(u) /\ Restored(u)
  BY <1>8, <1>9, <1>10, Zenon DEF Remembers, Restored
<1>12. \A k \in Kinds \ {kind} : u.stored[k] = ui.stored[k]
  BY <1>6, <1>8
<1> QED BY <1>1, <1>8, <1>11, <1>12, Chooses DEF kind

LEMMA ClearDetailKeeps ==
  ASSUME SelectionInv, Selection!ClearDetail
  PROVE  SelectionInv'
<1> DEFINE kind == Selection!Kind(ui.path)
           card == [ui.card EXCEPT !.detail = None]
           a == [ui EXCEPT !.card = card]
           u == Selection!ClearPodOrConfigMap(a)
<1>1. [ui EXCEPT !.card.detail = None] = a
  BY Zenon
<1>2. ui.path \in Selection!ToolPaths /\ Selection!Become(u)
  BY <1>1, Zenon DEF Selection!ClearDetail, Selection!Idle
<1>3. UiSound(ui) /\ Remembers(ui) /\ Restored(ui)
  BY <1>2 DEF SelectionInv
<1>4. ui.card \in Cards
  BY <1>3 DEF UiSound, UiRecord
<1>5. card \in Cards /\ card.loading = ui.card.loading
  BY <1>4 DEF Cards
<1> HIDE DEF card
<1>6. SameChoice(ui, a)
  BY <1>3, <1>5, CardChanges, Zenon
<1> HIDE DEF a
<1>7. Puts(a, u, Selection!Kind(a.path), None)
  BY <1>6, DetailIsCleared DEF SameChoice
<1> HIDE DEF u
<1>8. Keys = {"cluster", "namespace", "pod", "configmap"} /\ Kinds = {"pod", "configmap"} /\ kind \in Kinds
  BY PageKeys
<1>9. Puts(ui, u, kind, None)
  BY <1>6, <1>7 DEF Puts, SameChoice
<1> HIDE DEF kind
<1>10. /\ UiSound(u) /\ u.path = ui.path
       /\ u.choice[kind] = None /\ u.stored[kind] = None
       /\ \A k \in Keys \ {kind} :
              u.choice[k] = ui.choice[k] /\ u.stored[k] = ui.stored[k]
       /\ u.choice.cluster = ui.choice.cluster /\ u.choice.namespace = ui.choice.namespace
       /\ u.stored.cluster = ui.stored.cluster /\ u.stored.namespace = ui.stored.namespace
  BY <1>8, <1>9 DEF Puts
<1>11. \A k \in Keys : u.choice[k] \in {None, u.stored[k]}
  BY <1>3, <1>8, <1>10 DEF Remembers
<1>12. Remembers(u) /\ Restored(u)
  <2>1. u.choice.cluster = None => u.choice.namespace = None
    BY <1>3, <1>10 DEF Remembers
  <2>2. u.choice.cluster = u.stored.cluster
    BY <1>3, <1>10 DEF Restored
  <2>3. u.choice.cluster # None => u.choice.namespace = u.stored.namespace
    BY <1>3, <1>10 DEF Restored
  <2> QED BY <1>10, <1>11, <2>1, <2>2, <2>3, Zenon DEF Remembers, Restored, kind
<1>13. \A k \in Kinds \ {kind} : u.stored[k] = ui.stored[k]
  BY <1>8, <1>10
<1> QED BY <1>2, <1>10, <1>12, <1>13, Chooses DEF kind

LEMMA MouseDownKeeps ==
  ASSUME SelectionInv, NEW select \in Selection!Selects, Selection!MouseDown(select)
  PROVE  SelectionInv'
<1> DEFINE c == ui.choice.cluster
           n == ui.choice.namespace
           x == Selection!GetClusters(ui, TRUE)
           y == Selection!GetNamespaces(ui, c, TRUE)
           z == Selection!GetPodsOrConfigmap(ui, c, n, TRUE)
<1>1. UiSound(ui)
  BY DEF SelectionInv
<1>2. c \in Clusters \cup {None} /\ n \in Namespaces \cup {None}
  BY <1>1, Chosen
<1>3. SameChoice(ui, x) /\ SameChoice(ui, y) /\ SameChoice(ui, z)
  BY <1>1, <1>2, ListsAreAsked
<1>4. CASE select = "cluster"
  <2>1. Selection!Become(x)
    BY <1>4, Zenon DEF Selection!MouseDown
  <2> HIDE DEF x
  <2> QED BY <1>3, <2>1, NothingChosen
<1>5. CASE select = "namespace"
  <2>1. Selection!Become(y)
    BY <1>5, Zenon DEF Selection!MouseDown
  <2> HIDE DEF y
  <2> QED BY <1>3, <2>1, NothingChosen
<1>6. CASE select = "detail"
  <2>1. Selection!Become(z)
    BY <1>6, Zenon DEF Selection!MouseDown
  <2> HIDE DEF z
  <2> QED BY <1>3, <2>1, NothingChosen
<1> QED BY <1>4, <1>5, <1>6 DEF Selection!Selects

LEMMA BlurKeeps ==
  ASSUME SelectionInv, NEW select, Selection!Blur(select)
  PROVE  SelectionInv'
<1> DEFINE u == [ui EXCEPT !.card.open = ui.card.open \ {select}]
<1>1. Selection!Become(u)
  BY Zenon DEF Selection!Blur
<1>2. UiSound(ui)
  BY DEF SelectionInv
<1>3. SameChoice(ui, u)
  BY <1>2, SelectCloses, Zenon
<1> HIDE DEF u
<1> QED BY <1>1, <1>3, NothingChosen

\* An answer ends the spinner of its select; every other spinner has its own request.
LEMMA AnsweredKeeps ==
  ASSUME NEW u, UiSound(u), NEW request
  PROVE  SameChoice(u, Selection!Answered(u, request))
<1> DEFINE calls == u.calls \ {request}
           loading == u.card.loading \ {request.select}
           card == [u.card EXCEPT !.loading = loading]
           r == [u EXCEPT !.calls = calls, !.card = card]
<1>1. r = Selection!Answered(u, request)
  BY Zenon DEF Selection!Answered
<1>2. u.card \in Cards /\ u.calls \subseteq Selection!Call
  BY DEF UiSound, UiRecord
<1>3. calls \subseteq Selection!Call
  BY <1>2
<1>4. loading \subseteq Selection!Selects
  BY <1>2 DEF Cards
<1>5. \A select \in loading : \E other \in calls : other.select = select
  BY DEF UiSound, Spins
<1> HIDE DEF calls, loading
<1>6. card \in Cards /\ card.loading = loading
  BY <1>2, <1>4 DEF Cards
<1> HIDE DEF card
<1>7. /\ r \in UiRecord /\ r.path = u.path /\ r.choice = u.choice /\ r.stored = u.stored
      /\ r.card = card /\ r.calls = calls
  BY <1>3, <1>6 DEF UiSound, UiRecord
<1> HIDE DEF r
<1>8. SameChoice(u, r)
  BY <1>5, <1>6, <1>7 DEF SameChoice, UiSound, Spins
<1> QED BY <1>1, <1>8

LEMMA RefusedKeeps ==
  ASSUME SelectionInv, NEW request \in ui.calls, Selection!Refused(request)
  PROVE  SelectionInv'
<1>1. Selection!Become(Selection!Answered(ui, request))
  BY DEF Selection!Refused
<1>2. SameChoice(ui, Selection!Answered(ui, request))
  BY AnsweredKeeps DEF SelectionInv
<1> QED BY <1>1, <1>2, NothingChosen

LEMMA ListAnswerKeeps ==
  ASSUME SelectionInv, NEW request \in ui.calls, Selection!Answer(request)
  PROVE  SelectionInv'
<1> DEFINE u == Selection!Answered(ui, request)
           namespaces == {n \in Namespaces : <<request.cluster, n>> \in HasNamespace}
           details == {i \in Selection!Item : /\ i.kind = request.kind /\ Selection!OfChoice(i, request)
                                              /\ <<i.cluster, i.namespace>> \in HasNamespace}
           known == [u.card EXCEPT !.clusters = TRUE]
           spaces == [u.card EXCEPT !.namespaces = namespaces]
           items == [u.card EXCEPT !.details = details]
           filled == CASE request.select = "cluster"   -> [u EXCEPT !.card = known]
                       [] request.select = "namespace" -> [u EXCEPT !.card = spaces]
                       [] request.select = "detail"    -> [u EXCEPT !.card = items]
           open == filled.card.open \cup {request.select}
           shown == [filled.card EXCEPT !.open = open]
           r == IF request.focus THEN [filled EXCEPT !.card = shown] ELSE filled
<1>1. Selection!Become(r)
  BY Zenon DEF Selection!Answer
<1>2. UiSound(ui) /\ request.select \in Selection!Selects
  BY DEF SelectionInv, UiSound, UiRecord, Selection!Call
<1>3. SameChoice(ui, u)
  BY <1>2, AnsweredKeeps
<1> HIDE DEF u
<1>4. UiSound(u) /\ u.card \in Cards
  BY <1>3 DEF SameChoice, UiSound, UiRecord
<1>5. namespaces \in SUBSET Namespaces /\ details \in SUBSET Selection!Item
  OBVIOUS
<1> HIDE DEF namespaces, details
<1>6. /\ known \in Cards /\ known.loading = u.card.loading
      /\ spaces \in Cards /\ spaces.loading = u.card.loading
      /\ items \in Cards /\ items.loading = u.card.loading
  BY <1>4, <1>5 DEF Cards
<1> HIDE DEF known, spaces, items
<1>7. /\ SameChoice(u, [u EXCEPT !.card = known])
      /\ SameChoice(u, [u EXCEPT !.card = spaces])
      /\ SameChoice(u, [u EXCEPT !.card = items])
  BY <1>4, <1>6, CardChanges, Zenon
<1>8. filled \in {[u EXCEPT !.card = known], [u EXCEPT !.card = spaces], [u EXCEPT !.card = items]}
  <2>1. CASE request.select = "cluster"
    BY <2>1
  <2>2. CASE request.select = "namespace"
    BY <2>2
  <2>3. CASE request.select = "detail"
    BY <2>3
  <2> QED BY <1>2, <2>1, <2>2, <2>3 DEF Selection!Selects
<1>9. SameChoice(u, filled)
  BY <1>7, <1>8, Zenon
<1> HIDE DEF filled
<1>10. UiSound(filled) /\ filled.card \in Cards
  BY <1>9 DEF SameChoice, UiSound, UiRecord
<1>11. shown \in Cards /\ shown.loading = filled.card.loading
  BY <1>2, <1>10 DEF Cards
<1> HIDE DEF shown
<1>12. SameChoice(filled, [filled EXCEPT !.card = shown])
  BY <1>10, <1>11, CardChanges, Zenon
<1>13. SameChoice(filled, r)
  <2>1. SameChoice(filled, filled)
    BY <1>10 DEF SameChoice
  <2> QED BY <1>12, <2>1, Zenon
<1> HIDE DEF r
<1>14. SameChoice(ui, r)
  BY <1>3, <1>9, <1>13 DEF SameChoice
<1> QED BY <1>1, <1>14, NothingChosen

-----------------------------------------------------------------------------
SelectionPage == page = "selection" => SelectionInv

LEMMA SelectionStarts == ASSUME Selection!SelectionInit PROVE SelectionInv
<1>1. Selection!NoChoice \in Choices /\ \A k \in Keys : Selection!NoChoice[k] = None
  BY DEF Choices, Selection!NoChoice, Keys, Kinds
<1>2. Selection!EmptyCard \in Cards /\ Selection!EmptyCard.loading = {}
      /\ Selection!EmptyCard.details = {}
  BY DEF Cards, Selection!EmptyCard
<1>3. /\ ui.path = "/" /\ ui.choice = Selection!NoChoice /\ ui.stored = Selection!NoChoice
      /\ ui.tool = None /\ ui.card = Selection!EmptyCard /\ ui.calls = {} /\ drifted = FALSE
      /\ ui \in [path : {"/"}, choice : {Selection!NoChoice}, stored : {Selection!NoChoice},
                 tool : {None}, card : {Selection!EmptyCard}, calls : {{}}]
  BY DEF Selection!SelectionInit
<1>4. "/" \in Selection!Paths /\ "/" \notin Selection!ToolPaths
  BY SelectionAssumed DEF Selection!SelectionAssumption, Selection!Paths, Selection!ToolPaths
<1>5. ui \in UiRecord
  BY <1>1, <1>2, <1>3, <1>4 DEF UiRecord
<1>6. UiSound(ui) /\ Remembers(ui)
  BY <1>1, <1>2, <1>3, <1>5 DEF UiSound, Spins, Remembers, Selection!NoChoice
<1>7. StoredTogether(ui)
  BY <1>1, <1>3 DEF StoredTogether, Keys
<1>8. ~Selection!Drift(ui)
  BY <1>1, <1>3, <1>4 DEF Selection!Drift, Keys, Kinds
<1> QED BY <1>3, <1>4, <1>6, <1>7, <1>8 DEF SelectionInv

LEMMA SelectionSteps == ASSUME SelectionInv, Selection!SelectionNext PROVE SelectionInv'
<1>1. ASSUME NEW path \in Selection!ToolPaths, Selection!ClickTool(path) PROVE SelectionInv'
  BY <1>1, ClickToolKeeps
<1>2. ASSUME NEW path \in Selection!Paths,
             Selection!Visit(path) \/ Selection!HandleElectronMessage(path)
      PROVE  SelectionInv'
  BY <1>2, VisitKeeps, HandleElectronMessageKeeps
<1>3. ASSUME NEW c \in Clusters, Selection!PickCluster(c) PROVE SelectionInv'
  BY <1>3, PickClusterKeeps
<1>4. ASSUME NEW n \in Namespaces, Selection!PickNamespace(n) PROVE SelectionInv'
  BY <1>4, PickNamespaceKeeps
<1>5. ASSUME NEW item \in ui.card.details, Selection!PickDetail(item) PROVE SelectionInv'
  BY <1>5, PickDetailKeeps
<1>6. ASSUME NEW select \in Selection!Selects, Selection!MouseDown(select) \/ Selection!Blur(select)
      PROVE  SelectionInv'
  BY <1>6, MouseDownKeeps, BlurKeeps
<1>7. ASSUME NEW request \in ui.calls, Selection!Answer(request) \/ Selection!Refused(request)
      PROVE  SelectionInv'
  BY <1>7, ListAnswerKeeps, RefusedKeeps
<1> QED BY <1>1, <1>2, <1>3, <1>4, <1>5, <1>6, <1>7, ReloadKeeps, ClearClusterKeeps,
           ClearNamespaceKeeps, ClearDetailKeeps, Zenon DEF Selection!SelectionNext

LEMMA SelectionHolds == Spec => []SelectionPage
<1>1. Init => SelectionPage
  BY SelectionStarts DEF Init, SelectionPage
<1>2. SelectionPage /\ [Next]_vars => SelectionPage'
  <2> SUFFICES ASSUME SelectionPage, [Next]_vars, page' = "selection" PROVE SelectionInv'
    BY DEF SelectionPage
  <2>1. CASE Next
    <3>1. SelectionInv /\ Selection!SelectionNext
      BY <2>1 DEF Next, SelectionPage
    <3> QED BY <3>1, SelectionSteps
  <2>2. CASE UNCHANGED vars
    BY <2>2 DEF vars, selection, SelectionPage, SelectionInv, UiSound, Spins, Remembers, Restored,
       StoredTogether, Selection!Drift
  <2> QED BY <2>1, <2>2
<1> QED BY <1>1, <1>2, PTL DEF Spec

-----------------------------------------------------------------------------
\* The pod or ConfigMap that the open tool works on is of the page's kind and of the cluster and
\* namespace that the selects show, whatever order the lists and the moves between pages come in,
\* unless a page of the other kind or a late answer changed the choice behind it.
THEOREM ToolsWorkOnChoice == Spec => []ToolWorksOnChoice
<1>1. SelectionPage => ToolWorksOnChoice
  <2> SUFFICES ASSUME SelectionInv, ~drifted, Selection!Shown(ui) # None
               PROVE  /\ Selection!Shown(ui).kind = Selection!Kind(ui.path)
                      /\ Selection!OfChoice(Selection!Shown(ui), ui.choice)
    BY DEF SelectionPage, ToolWorksOnChoice, Selection!ToolWorksOnChoice
  <2> DEFINE kind == Selection!Kind(ui.path)
  <2>1. ui.path \in Selection!ToolPaths /\ Selection!Shown(ui) = ui.choice[kind] /\ ui.choice[kind] # None
    BY DEF Selection!Shown
  <2>2. kind \in Kinds /\ kind \in Keys
    BY KindIsKey
  <2> HIDE DEF kind
  <2>3. UiSound(ui) /\ Remembers(ui) /\ Restored(ui) /\ StoredTogether(ui)
    BY <2>1 DEF SelectionInv
  <2>4. ui.choice[kind] = ui.stored[kind]
    BY <2>1, <2>2, <2>3 DEF Remembers
  <2>5. /\ ui.choice[kind].kind = kind /\ Selection!OfChoice(ui.choice[kind], ui.stored)
        /\ ui.choice[kind] \in Selection!Item
    BY <2>1, <2>2, <2>3, <2>4, Chosen DEF StoredTogether
  <2>6. ui.choice.cluster = ui.stored.cluster /\ ui.stored.cluster # None
    BY <2>3, <2>5, NoneIsNobody DEF Restored, Selection!OfChoice
  <2>7. ui.choice.namespace = ui.stored.namespace
    BY <2>3, <2>6 DEF Restored
  <2> QED BY <2>1, <2>5, <2>6, <2>7 DEF Selection!OfChoice, kind
<1> QED BY <1>1, SelectionHolds, PTL

\* A reload of a tool page at any moment, while lists are under way too, brings back the cluster,
\* the namespace and the item that were chosen (initSelect).
THEOREM ReloadsRestore == Spec => []ReloadRestoresChoice
<1>1. SelectionPage => ReloadRestoresChoice
  <2> SUFFICES ASSUME SelectionInv, ui.path \in Selection!ToolPaths
               PROVE  Selection!ReloadRestoresChoice
    BY DEF SelectionPage, ReloadRestoresChoice, Selection!ReloadRestoresChoice
  <2> DEFINE kind == Selection!Kind(ui.path)
             a == [ui EXCEPT !.choice = Selection!NoChoice]
             v == Selection!Mount(a)
  <2>1. Selection!NoChoice \in Choices /\ \A k \in Keys : Selection!NoChoice[k] = None
    BY DEF Choices, Selection!NoChoice, Keys, Kinds
  <2>2. UiSound(ui) /\ Remembers(ui) /\ Restored(ui)
    BY DEF SelectionInv
  <2>3. /\ a \in UiRecord /\ a.path = ui.path /\ a.choice = Selection!NoChoice
        /\ a.stored = ui.stored /\ a.card = ui.card /\ a.calls = ui.calls
    BY <2>1, <2>2 DEF UiSound, UiRecord
  <2> HIDE DEF a
  <2>4. UiSound(a) /\ Remembers(a)
    BY <2>1, <2>2, <2>3 DEF UiSound, Spins, Remembers, Keys
  <2>5. Restores(a, v)
    BY <2>4, MountRestores
  <2> HIDE DEF v
  <2>6. /\ Remembers(v) /\ Restored(v) /\ v.path = ui.path
        /\ \A k \in Keys : v.stored[k] = ui.stored[k]
    BY <2>3, <2>5 DEF Restores
  <2>7. kind \in Keys /\ v.stored.cluster = ui.stored.cluster
        /\ v.stored.namespace = ui.stored.namespace /\ v.stored[kind] = ui.stored[kind]
    BY <2>6, KindIsKey DEF Keys
  <2>8. v.choice.cluster = ui.choice.cluster
    BY <2>2, <2>6, <2>7 DEF Restored
  <2>9. v.choice.namespace = ui.choice.namespace
    BY <2>2, <2>6, <2>7, <2>8 DEF Restored, Remembers
  <2>10. ui.choice.namespace # None => v.choice[kind] = ui.choice[kind]
    BY <2>2, <2>6, <2>7, <2>9 DEF Restored
  <2>11. Selection!Shown(v) = v.choice[kind] /\ Selection!Shown(ui) = ui.choice[kind]
    BY <2>6 DEF Selection!Shown
  <2>12. v.choice.cluster = ui.choice.cluster /\ v.choice.namespace = ui.choice.namespace
         /\ (ui.choice.namespace # None => Selection!Shown(v) = Selection!Shown(ui))
    BY <2>8, <2>9, <2>10, <2>11
  <2> QED BY <2>12, Zenon DEF Selection!ReloadRestoresChoice, v, a
<1> QED BY <1>1, SelectionHolds, PTL

-----------------------------------------------------------------------------
(***************************************************************************)
(* The page that manages clusters (ClustersPage).                           *)
(***************************************************************************)
AllClusters == Clusters \cup Static

ClustersRecord ==
    [clusters : SUBSET AllClusters, editorCluster : AllClusters \cup {None},
     openCreate : BOOLEAN, openUpdate : BOOLEAN, confirm : AllClusters \cup {None},
     form : AllClusters \cup {None}, submitLoading : BOOLEAN,
     submission : Management!Submission \cup {None}, toasts : SUBSET {"get", "delete"},
     calls : SUBSET Management!Call]

\* A button that is loading waits for the answer to a submission.
Submits(c) == c.submitLoading => c.submission # None

\* A message that says loading waits for an answer.
Toasted(c) == \A op \in c.toasts : \E request \in c.calls : request.op = op

ClustersInv ==
    cl \in ClustersRecord /\ Submits(cl) /\ Toasted(cl) /\ Management!UpdateFormShowsCluster

\* It is enough to look at the page before the form is filled.
LEMMA ClustersBecome ==
  ASSUME NEW c \in ClustersRecord, Submits(c), Toasted(c), Management!Become(c)
  PROVE  ClustersInv'
<1> DEFINE form == IF ~c.openUpdate THEN None
                   ELSE IF c.editorCluster # None THEN c.editorCluster ELSE c.form
<1>1. cl' = [c EXCEPT !.form = form]
  BY DEF Management!Become, Management!Fill
<1>2. form \in AllClusters \cup {None}
  BY DEF ClustersRecord
<1>3. c.openUpdate /\ c.editorCluster # None => form = c.editorCluster
  OBVIOUS
<1> HIDE DEF form
<1>4. /\ cl' \in ClustersRecord /\ cl'.form = form /\ cl'.openUpdate = c.openUpdate
      /\ cl'.editorCluster = c.editorCluster
      /\ cl'.submitLoading = c.submitLoading /\ cl'.submission = c.submission
      /\ cl'.toasts = c.toasts /\ cl'.calls = c.calls
  BY <1>1, <1>2 DEF ClustersRecord
<1> QED BY <1>3, <1>4 DEF ClustersInv, Submits, Toasted, Management!UpdateFormShowsCluster

\* A request is sent; a message may be waiting for it already.
LEMMA RequestIsSent ==
  ASSUME NEW c \in ClustersRecord, NEW op \in {"list", "get", "delete"}, NEW name \in AllClusters \cup {None},
         Submits(c), \A o \in c.toasts : o = op \/ \E request \in c.calls : request.op = o
  PROVE  /\ Management!Request(c, op, name) \in ClustersRecord
         /\ Submits(Management!Request(c, op, name)) /\ Toasted(Management!Request(c, op, name))
<1> DEFINE new == [op |-> op, name |-> name]
           r == [c EXCEPT !.calls = c.calls \cup {new}]
<1>1. r = Management!Request(c, op, name)
  BY DEF Management!Request
<1>2. new \in Management!Call /\ new.op = op
  BY DEF Management!Call, Management!Ops, AllClusters
<1> HIDE DEF new
<1>3. /\ r \in ClustersRecord /\ r.calls = c.calls \cup {new} /\ r.toasts = c.toasts
      /\ r.submitLoading = c.submitLoading /\ r.submission = c.submission
  BY <1>2 DEF ClustersRecord
<1> HIDE DEF r
<1>4. Submits(r)
  BY <1>3 DEF Submits
<1>5. Toasted(r)
  BY <1>2, <1>3 DEF Toasted
<1> QED BY <1>1, <1>3, <1>4, <1>5

LEMMA ListIsAsked ==
  ASSUME NEW c \in ClustersRecord, Submits(c), Toasted(c), Management!Become(Management!GetClusters(c))
  PROVE  ClustersInv'
<1> DEFINE r == Management!Request(c, "list", None)
<1>1. r \in ClustersRecord /\ Submits(r) /\ Toasted(r)
  BY RequestIsSent DEF Toasted
<1>2. Management!Become(r)
  BY DEF Management!GetClusters
<1> HIDE DEF r
<1> QED BY <1>1, <1>2, ClustersBecome

LEMMA ClustersBegin ==
  ASSUME Management!ClustersInit
  PROVE  ClustersInv
<1>1. PICK quick \in BOOLEAN :
        cl = Management!GetClusters(
               [clusters |-> {}, editorCluster |-> None, openCreate |-> quick, openUpdate |-> FALSE,
                confirm |-> None, form |-> None, submitLoading |-> FALSE, submission |-> None,
                toasts |-> {}, calls |-> {}])
  BY Zenon DEF Management!ClustersInit
<1> DEFINE c == [clusters |-> {}, editorCluster |-> None, openCreate |-> quick, openUpdate |-> FALSE,
                 confirm |-> None, form |-> None, submitLoading |-> FALSE, submission |-> None,
                 toasts |-> {}, calls |-> {}]
<1>2. c \in ClustersRecord /\ Submits(c) /\ Toasted(c) /\ ~c.openUpdate
  BY DEF ClustersRecord, Submits, Toasted
<1>3. cl = [c EXCEPT !.calls = c.calls \cup {[op |-> "list", name |-> None]}]
  BY <1>1 DEF Management!GetClusters, Management!Request
<1>4. cl = Management!Request(c, "list", None)
  BY <1>1, Zenon DEF Management!GetClusters
<1> HIDE DEF c
<1>5. cl \in ClustersRecord /\ Submits(cl) /\ Toasted(cl)
  BY <1>2, <1>4, RequestIsSent DEF Toasted
<1>6. cl.openUpdate = c.openUpdate
  BY <1>2, <1>3 DEF ClustersRecord
<1> QED BY <1>2, <1>5, <1>6 DEF ClustersInv, Management!UpdateFormShowsCluster

\* The modals and what the user says; nothing is asked of the server, or one request is.
LEMMA UserKeepsClusters ==
  ASSUME ClustersInv,
         \/ Management!OpenCreateModal \/ Management!QuickCreate \/ Management!DeleteCluster
         \/ Management!KeepCluster \/ Management!Cancel
         \/ \E name \in cl.clusters : Management!OpenUpdateModal(name) \/ Management!ClickDelete(name)
  PROVE  ClustersInv'
<1>1. cl \in ClustersRecord /\ Submits(cl) /\ Toasted(cl)
  BY DEF ClustersInv
<1>2. /\ cl.clusters \subseteq AllClusters /\ cl.confirm \in AllClusters \cup {None}
      /\ cl.openCreate \in BOOLEAN /\ cl.openUpdate \in BOOLEAN /\ cl.toasts \subseteq {"get", "delete"}
  BY <1>1 DEF ClustersRecord
\* Nothing but the modals is touched.
<1>3. ASSUME NEW c \in ClustersRecord, Management!Become(c),
             c.submitLoading = cl.submitLoading, c.submission = cl.submission,
             c.toasts = cl.toasts, c.calls = cl.calls
      PROVE  ClustersInv'
  <2>1. Submits(c) /\ Toasted(c)
    BY <1>1, <1>3 DEF Submits, Toasted
  <2> QED BY <1>3, <2>1, ClustersBecome
<1>4. CASE Management!OpenCreateModal \/ Management!QuickCreate
  <2> DEFINE c == [cl EXCEPT !.openCreate = TRUE]
  <2>1. Management!Become(c)
    BY <1>4, Zenon DEF Management!OpenCreateModal, Management!QuickCreate
  <2>2. /\ c \in ClustersRecord /\ c.submitLoading = cl.submitLoading /\ c.submission = cl.submission
        /\ c.toasts = cl.toasts /\ c.calls = cl.calls
    BY <1>1 DEF ClustersRecord
  <2> HIDE DEF c
  <2> QED BY <1>3, <2>1, <2>2
<1>5. CASE Management!KeepCluster
  <2> DEFINE c == [cl EXCEPT !.confirm = None]
  <2>1. Management!Become(c)
    BY <1>5, Zenon DEF Management!KeepCluster
  <2>2. /\ c \in ClustersRecord /\ c.submitLoading = cl.submitLoading /\ c.submission = cl.submission
        /\ c.toasts = cl.toasts /\ c.calls = cl.calls
    BY <1>1 DEF ClustersRecord
  <2> HIDE DEF c
  <2> QED BY <1>3, <2>1, <2>2
<1>6. CASE Management!Cancel
  <2> DEFINE create == cl.openCreate /\ ~cl.openCreate
             update == cl.openUpdate /\ ~cl.openUpdate
             c == [cl EXCEPT !.openCreate = create, !.openUpdate = update]
  <2>1. Management!Become(c)
    BY <1>6, Zenon DEF Management!Cancel, Management!CancelModal
  <2>2. create \in BOOLEAN /\ update \in BOOLEAN
    BY <1>2
  <2> HIDE DEF create, update
  <2>3. /\ c \in ClustersRecord /\ c.submitLoading = cl.submitLoading /\ c.submission = cl.submission
        /\ c.toasts = cl.toasts /\ c.calls = cl.calls
    BY <1>1, <2>2 DEF ClustersRecord
  <2> HIDE DEF c
  <2> QED BY <1>3, <2>1, <2>3
<1>7. ASSUME NEW name \in cl.clusters, Management!ClickDelete(name)
      PROVE  ClustersInv'
  <2> DEFINE c == [cl EXCEPT !.confirm = name]
  <2>1. Management!Become(c)
    BY <1>7, Zenon DEF Management!ClickDelete
  <2>2. /\ c \in ClustersRecord /\ c.submitLoading = cl.submitLoading /\ c.submission = cl.submission
        /\ c.toasts = cl.toasts /\ c.calls = cl.calls
    BY <1>1, <1>2 DEF ClustersRecord
  <2> HIDE DEF c
  <2> QED BY <1>3, <2>1, <2>2
\* A message says loading and a request is sent.
<1>8. ASSUME NEW c \in ClustersRecord, NEW op \in {"get", "delete"}, NEW name \in AllClusters \cup {None},
             c.submitLoading = cl.submitLoading, c.submission = cl.submission,
             c.toasts = cl.toasts \cup {op}, c.calls = cl.calls,
             Management!Become(Management!Request(c, op, name))
      PROVE  ClustersInv'
  <2> DEFINE r == Management!Request(c, op, name)
  <2>1. Submits(c) /\ \A o \in c.toasts : o = op \/ \E request \in c.calls : request.op = o
    BY <1>1, <1>8 DEF Submits, Toasted
  <2>2. r \in ClustersRecord /\ Submits(r) /\ Toasted(r)
    BY <1>8, <2>1, RequestIsSent
  <2>3. Management!Become(r)
    BY <1>8
  <2> HIDE DEF r
  <2> QED BY <2>2, <2>3, ClustersBecome
<1>9. ASSUME NEW name \in cl.clusters, Management!OpenUpdateModal(name)
      PROVE  ClustersInv'
  <2> DEFINE c == [cl EXCEPT !.toasts = cl.toasts \cup {"get"}]
  <2>1. Management!Become(Management!Request(c, "get", name))
    BY <1>9, Zenon DEF Management!OpenUpdateModal
  <2>2. /\ c \in ClustersRecord /\ c.submitLoading = cl.submitLoading /\ c.submission = cl.submission
        /\ c.toasts = cl.toasts \cup {"get"} /\ c.calls = cl.calls
    BY <1>1, <1>2 DEF ClustersRecord
  <2> HIDE DEF c
  <2> QED BY <1>2, <1>8, <2>1, <2>2
<1>10. CASE Management!DeleteCluster
  <2> DEFINE c == [cl EXCEPT !.confirm = None, !.toasts = cl.toasts \cup {"delete"}]
  <2>1. Management!Become(Management!Request(c, "delete", cl.confirm))
    BY <1>10, Zenon DEF Management!DeleteCluster
  <2>2. /\ c \in ClustersRecord /\ c.submitLoading = cl.submitLoading /\ c.submission = cl.submission
        /\ c.toasts = cl.toasts \cup {"delete"} /\ c.calls = cl.calls
    BY <1>1, <1>2 DEF ClustersRecord
  <2> HIDE DEF c
  <2> QED BY <1>2, <1>8, <2>1, <2>2
<1> QED BY <1>4, <1>5, <1>6, <1>7, <1>9, <1>10

LEMMA SubmitKeepsClusters ==
  ASSUME ClustersInv,
         \/ \E method \in {"POST", "PUT"} : Management!SubmitForm(method)
         \/ Management!SubmitArrives \/ Management!SubmitFails
  PROVE  ClustersInv'
<1>1. cl \in ClustersRecord /\ Submits(cl) /\ Toasted(cl) /\ cl.openCreate \in BOOLEAN /\ cl.openUpdate \in BOOLEAN
  BY DEF ClustersInv, ClustersRecord
<1>2. ASSUME NEW method \in {"POST", "PUT"}, Management!SubmitForm(method)
      PROVE  ClustersInv'
  <2> DEFINE new == [method |-> method, create |-> cl.openCreate, update |-> cl.openUpdate]
             c == [cl EXCEPT !.submitLoading = TRUE, !.submission = new]
  <2>1. Management!Become(c)
    BY <1>2, Zenon DEF Management!SubmitForm
  <2>2. new \in Management!Submission /\ new # None
    BY <1>1, ClustersAssumed DEF Management!Submission, Management!ClustersAssumption
  <2> HIDE DEF new
  <2>3. /\ c \in ClustersRecord /\ c.submission = new /\ c.toasts = cl.toasts /\ c.calls = cl.calls
    BY <1>1, <2>2 DEF ClustersRecord
  <2> HIDE DEF c
  <2>4. Submits(c) /\ Toasted(c)
    BY <1>1, <2>2, <2>3 DEF Submits, Toasted
  <2> QED BY <2>1, <2>3, <2>4, ClustersBecome
<1>3. CASE Management!SubmitArrives
  <2> DEFINE create == cl.openCreate /\ ~cl.submission.create
             update == cl.openUpdate /\ ~cl.submission.update
             b == [cl EXCEPT !.openCreate = create, !.openUpdate = update]
             c == [b EXCEPT !.editorCluster = None, !.submitLoading = FALSE, !.submission = None]
  <2>1. Management!Become(Management!GetClusters(c))
    BY <1>3, Zenon DEF Management!SubmitArrives, Management!CancelModal
  <2>2. create \in BOOLEAN /\ update \in BOOLEAN
    BY <1>1
  <2> HIDE DEF create, update
  <2>3. b \in ClustersRecord /\ b.toasts = cl.toasts /\ b.calls = cl.calls
    BY <1>1, <2>2 DEF ClustersRecord
  <2> HIDE DEF b
  <2>4. c \in ClustersRecord /\ c.submitLoading = FALSE /\ c.toasts = cl.toasts /\ c.calls = cl.calls
    BY <2>3 DEF ClustersRecord
  <2> HIDE DEF c
  <2>5. Submits(c) /\ Toasted(c)
    BY <1>1, <2>4 DEF Submits, Toasted
  <2> QED BY <2>1, <2>4, <2>5, ListIsAsked
<1>4. CASE Management!SubmitFails
  <2> DEFINE c == [cl EXCEPT !.submitLoading = FALSE, !.submission = None]
  <2>1. Management!Become(c)
    BY <1>4, Zenon DEF Management!SubmitFails
  <2>2. c \in ClustersRecord /\ c.submitLoading = FALSE /\ c.toasts = cl.toasts /\ c.calls = cl.calls
    BY <1>1 DEF ClustersRecord
  <2> HIDE DEF c
  <2>3. Submits(c) /\ Toasted(c)
    BY <1>1, <2>2 DEF Submits, Toasted
  <2> QED BY <2>1, <2>2, <2>3, ClustersBecome
<1> QED BY <1>2, <1>3, <1>4

LEMMA AnswersKeepClusters ==
  ASSUME ClustersInv, NEW request \in cl.calls,
         \/ Management!ListArrives(request) \/ Management!ClusterArrives(request)
         \/ Management!DeleteArrives(request) \/ Management!CallFails(request)
  PROVE  ClustersInv'
<1>1. /\ cl \in ClustersRecord /\ Submits(cl) /\ Toasted(cl)
      /\ request \in Management!Call /\ cl.toasts \subseteq {"get", "delete"}
      /\ cl.calls \subseteq Management!Call
  BY DEF ClustersInv, ClustersRecord
<1>2. request.name \in AllClusters \cup {None}
  BY <1>1 DEF Management!Call, AllClusters
<1> DEFINE a == Management!Answered(request)
<1>3. a = [cl EXCEPT !.calls = cl.calls \ {request}, !.toasts = cl.toasts \ {request.op}]
  BY DEF Management!Answered
<1> HIDE DEF a
<1>4. /\ a \in ClustersRecord /\ a.calls = cl.calls \ {request} /\ a.toasts = cl.toasts \ {request.op}
      /\ a.submitLoading = cl.submitLoading /\ a.submission = cl.submission
  BY <1>1, <1>3 DEF ClustersRecord
<1>5. Submits(a) /\ Toasted(a)
  BY <1>1, <1>4 DEF Submits, Toasted
<1>6. CASE Management!CallFails(request)
  <2>1. Management!Become(a)
    BY <1>6, Zenon DEF Management!CallFails, a
  <2> QED BY <1>4, <1>5, <2>1, ClustersBecome
<1>7. CASE Management!DeleteArrives(request)
  <2>1. Management!Become(Management!GetClusters(a))
    BY <1>7, Zenon DEF Management!DeleteArrives, a
  <2> QED BY <1>4, <1>5, <2>1, ListIsAsked
<1>8. CASE Management!ListArrives(request)
  <2>1. PICK names \in SUBSET AllClusters : Management!Become([a EXCEPT !.clusters = names])
    BY <1>8, Zenon DEF Management!ListArrives, a, AllClusters
  <2> DEFINE c == [a EXCEPT !.clusters = names]
  <2>2. /\ c \in ClustersRecord /\ c.submitLoading = a.submitLoading /\ c.submission = a.submission
        /\ c.toasts = a.toasts /\ c.calls = a.calls
    BY <1>4 DEF ClustersRecord
  <2>3. Management!Become(c)
    BY <2>1
  <2> HIDE DEF c
  <2>4. Submits(c) /\ Toasted(c)
    BY <1>5, <2>2 DEF Submits, Toasted
  <2> QED BY <2>2, <2>3, <2>4, ClustersBecome
<1>9. CASE Management!ClusterArrives(request)
  <2> DEFINE c == [a EXCEPT !.editorCluster = request.name, !.openUpdate = TRUE]
  <2>1. Management!Become(c)
    BY <1>9, Zenon DEF Management!ClusterArrives, a
  <2>2. /\ c \in ClustersRecord /\ c.submitLoading = a.submitLoading /\ c.submission = a.submission
        /\ c.toasts = a.toasts /\ c.calls = a.calls
    BY <1>2, <1>4 DEF ClustersRecord
  <2> HIDE DEF c
  <2>3. Submits(c) /\ Toasted(c)
    BY <1>5, <2>2 DEF Submits, Toasted
  <2> QED BY <2>1, <2>2, <2>3, ClustersBecome
<1> QED BY <1>6, <1>7, <1>8, <1>9

LEMMA ClustersStep ==
  ASSUME ClustersInv, Management!ClustersNext
  PROVE  ClustersInv'
BY UserKeepsClusters, SubmitKeepsClusters, AnswersKeepClusters DEF Management!ClustersNext

ManagementPage == page = "management" => ClustersInv

LEMMA ClustersHold == Spec => []ManagementPage
<1>1. Init => ManagementPage
  BY ClustersBegin DEF Init, ManagementPage
<1>2. ManagementPage /\ [Next]_vars => ManagementPage'
  <2>1. CASE Next
    BY <2>1, ClustersStep DEF Next, ManagementPage
  <2>2. CASE UNCHANGED vars
    BY <2>2 DEF vars, ManagementPage, ClustersInv, Submits, Toasted, Management!UpdateFormShowsCluster
  <2> QED BY <2>1, <2>2
<1> QED BY <1>1, <1>2, PTL DEF Spec

-----------------------------------------------------------------------------
(***************************************************************************)
(* The ConfigMap page (ConfigMapEditor).                                    *)
(***************************************************************************)
EditorRecord ==
    [cm : ConfigMaps, ref : Names \cup {None}, selectFile : Editor!File \cup {None}, same : BOOLEAN,
     newFile : Editor!File \cup {None}, files : SUBSET Editor!File, isNeedSave : BOOLEAN,
     loading : BOOLEAN, context : Editor!Context \cup {None}, base : Editor!Context \cup {None},
     modal : Editor!Modal, calls : SUBSET Editor!Request]

\* An editor that is loading waits for a text.
TextAwaited(e) == e.loading => \E request \in e.calls : request.op = "content"

\* The text is of the file that is selected and that the reference names.
TextOfSelected(e) ==
    e.selectFile # None /\ e.context # None /\ e.ref = e.selectFile.name
        => e.context.of.name = e.selectFile.name

\* A text is compared with one of the same file.
TextHasBase(e) == e.context # None => e.base \in Editor!Context /\ e.base.of = e.context.of

\* Modals and requests that are about a file name it.
FilesNamed(e) ==
    /\ e.modal.kind \in {"abandon", "delete"} => e.modal.file \in Editor!File
    /\ \A request \in e.calls : request.op # "list" => request.file \in Editor!File

EditorSound(e) ==
    e \in EditorRecord /\ TextAwaited(e) /\ TextOfSelected(e) /\ TextHasBase(e) /\ FilesNamed(e)

CleanText(e) == ~e.isNeedSave /\ e.context # None => e.context = e.base

EditorInv == EditorSound(ed) /\ saved \in BOOLEAN /\ (~saved => CleanText(ed))

\* It is enough to look at the state that is next.
LEMMA EditorBecomes ==
  ASSUME NEW e, EditorSound(e), ed' = e, saved' \in BOOLEAN, ~saved' => CleanText(e)
  PROVE  EditorInv'
BY DEF EditorInv, EditorSound, TextAwaited, TextOfSelected, TextHasBase, FilesNamed, CleanText

\* A ConfigMap is shown: its files are asked for, and nothing is selected.
LEMMA FilesAreAsked ==
  ASSUME NEW e \in EditorRecord, TextAwaited(e), FilesNamed(e)
  PROVE  LET r == Editor!GetConfigmapFiles(e)
         IN  EditorSound(r) /\ r.context = None
<1> DEFINE new == [op |-> "list", cm |-> e.cm, file |-> None, flag |-> FALSE]
           calls == e.calls \cup {new}
           r == [e EXCEPT !.ref = None, !.selectFile = None, !.isNeedSave = FALSE, !.context = None,
                          !.base = None, !.calls = calls]
<1>1. r = Editor!GetConfigmapFiles(e)
  BY Zenon DEF Editor!GetConfigmapFiles
<1>2. new \in Editor!Request /\ new.op = "list"
  BY DEF Editor!Request, Editor!Ops, EditorRecord
<1> HIDE DEF new
<1>3. calls \subseteq Editor!Request /\ \A request \in calls : request \in e.calls \/ request.op = "list"
  BY <1>2 DEF EditorRecord
<1>4. e.calls \subseteq calls
  OBVIOUS
<1> HIDE DEF calls
<1>5. /\ r \in EditorRecord /\ r.context = None /\ r.loading = e.loading /\ r.calls = calls
      /\ r.modal = e.modal
  BY <1>3 DEF EditorRecord
<1> HIDE DEF r
<1>6. EditorSound(r)
  BY <1>3, <1>4, <1>5 DEF EditorSound, TextAwaited, TextOfSelected, TextHasBase, FilesNamed
<1> QED BY <1>1, <1>5, <1>6

LEMMA EditorBegins ==
  ASSUME Editor!EditorInit
  PROVE  EditorInv
<1>1. PICK cm \in ConfigMaps :
        ed = Editor!GetConfigmapFiles(
            [cm |-> cm, ref |-> None, selectFile |-> None, same |-> FALSE, newFile |-> None, files |-> {},
             isNeedSave |-> FALSE, loading |-> FALSE, context |-> None, base |-> None,
             modal |-> Editor!NoModal, calls |-> {}])
  BY Zenon DEF Editor!EditorInit
<1> DEFINE e == [cm |-> cm, ref |-> None, selectFile |-> None, same |-> FALSE, newFile |-> None,
                 files |-> {}, isNeedSave |-> FALSE, loading |-> FALSE, context |-> None, base |-> None,
                 modal |-> Editor!NoModal, calls |-> {}]
<1>2. Editor!NoModal \in Editor!Modal /\ Editor!NoModal.kind = "none"
  BY DEF Editor!NoModal, Editor!Modal
<1>3. e \in EditorRecord /\ TextAwaited(e) /\ FilesNamed(e)
  BY <1>2 DEF EditorRecord, TextAwaited, FilesNamed
<1>4. ed = Editor!GetConfigmapFiles(e)
  BY <1>1
<1> HIDE DEF e
<1>5. EditorSound(ed) /\ ed.context = None
  BY <1>3, <1>4, FilesAreAsked
<1>6. saved = FALSE
  BY DEF Editor!EditorInit
<1> QED BY <1>5, <1>6 DEF EditorInv, CleanText

\* A request about a file is sent.
LEMMA RequestAboutFile ==
  ASSUME EditorSound(ed), NEW e \in EditorRecord, NEW op \in {"content", "save", "delete"},
         NEW f \in Editor!File, NEW flag \in BOOLEAN,
         e.loading => op = "content" \/ \E request \in e.calls : request.op = "content",
         TextOfSelected(e), TextHasBase(e), FilesNamed(e)
  PROVE  LET r == Editor!Send(e, op, f, flag)
         IN  /\ EditorSound(r) /\ r.context = e.context /\ r.base = e.base
             /\ r.isNeedSave = e.isNeedSave
<1> DEFINE new == Editor!Call(op, f, flag)
           calls == e.calls \cup {new}
           r == [e EXCEPT !.calls = calls]
<1>1. r = Editor!Send(e, op, f, flag)
  BY Zenon DEF Editor!Send
<1>2. new \in Editor!Request /\ new.op = op /\ new.file = f
  BY DEF Editor!Call, Editor!Request, Editor!Ops, EditorSound, EditorRecord
<1> HIDE DEF new
<1>3. /\ calls \subseteq Editor!Request
      /\ \A request \in calls : request \in e.calls \/ request.file \in Editor!File
      /\ e.loading => \E request \in calls : request.op = "content"
  BY <1>2 DEF EditorRecord
<1> HIDE DEF calls
<1>4. /\ r \in EditorRecord /\ r.loading = e.loading /\ r.calls = calls /\ r.modal = e.modal
      /\ r.context = e.context /\ r.base = e.base /\ r.selectFile = e.selectFile /\ r.ref = e.ref
      /\ r.isNeedSave = e.isNeedSave
  BY <1>3 DEF EditorRecord
<1> HIDE DEF r
<1>5. EditorSound(r)
  BY <1>3, <1>4 DEF EditorSound, TextAwaited, TextOfSelected, TextHasBase, FilesNamed
<1> QED BY <1>1, <1>4, <1>5

\* Another file is selected: its text is asked for, and there is none until it comes.
LEMMA FileIsSelected ==
  ASSUME EditorSound(ed), NEW e, EditorSound(e), NEW f \in Editor!File, NEW new \in Editor!File \cup {None}
  PROVE  LET r == Editor!ChangeSelectFile(e, f, new)
         IN  EditorSound(r) /\ r.context = None
<1> DEFINE list == IF new = None THEN e.files ELSE {other \in e.files : other.name # new.name}
           newFile == IF new = None THEN e.newFile ELSE None
           s == [e EXCEPT !.ref = f.name, !.selectFile = f, !.same = TRUE, !.isNeedSave = FALSE,
                          !.loading = TRUE, !.context = None, !.files = list, !.newFile = newFile]
           r == Editor!Send(s, "content", f, FALSE)
<1>1. r = Editor!ChangeSelectFile(e, f, new)
  BY Zenon DEF Editor!ChangeSelectFile
<1>2. list \subseteq Editor!File /\ newFile \in Editor!File \cup {None} /\ f.name \in Names
  BY DEF EditorSound, EditorRecord, Editor!File
<1> HIDE DEF list, newFile
<1>3. /\ s \in EditorRecord /\ s.context = None /\ s.modal = e.modal /\ s.calls = e.calls
  BY <1>2 DEF EditorSound, EditorRecord
<1> HIDE DEF s
<1>4. TextOfSelected(s) /\ TextHasBase(s) /\ FilesNamed(s)
  BY <1>3 DEF EditorSound, TextOfSelected, TextHasBase, FilesNamed
<1>5. EditorSound(r) /\ r.context = s.context
  BY <1>3, <1>4, RequestAboutFile
<1> QED BY <1>1, <1>3, <1>5

-----------------------------------------------------------------------------
(* What the user does.                                                       *)

\* Only the modal changes.
LEMMA ModalChanges ==
  ASSUME EditorInv, NEW m \in Editor!Modal, m.kind \in {"abandon", "delete"} => m.file \in Editor!File
  PROVE  LET e == [ed EXCEPT !.modal = m]
         IN  EditorSound(e) /\ (CleanText(ed) => CleanText(e)) /\ e.modal = m
<1> DEFINE e == [ed EXCEPT !.modal = m]
<1>1. EditorSound(ed)
  BY DEF EditorInv
<1>2. /\ e \in EditorRecord /\ e.loading = ed.loading /\ e.calls = ed.calls /\ e.modal = m
      /\ e.context = ed.context /\ e.base = ed.base /\ e.selectFile = ed.selectFile /\ e.ref = ed.ref
      /\ e.isNeedSave = ed.isNeedSave
  BY <1>1 DEF EditorSound, EditorRecord
<1> HIDE DEF e
<1>3. EditorSound(e)
  BY <1>1, <1>2 DEF EditorSound, TextAwaited, TextOfSelected, TextHasBase, FilesNamed
<1>4. CleanText(ed) => CleanText(e)
  BY <1>2 DEF CleanText
<1> QED BY <1>2, <1>3, <1>4 DEF e

LEMMA ModalsKeepEditor ==
  ASSUME EditorInv, NEW m \in Editor!Modal, m.kind \in {"abandon", "delete"} => m.file \in Editor!File,
         Editor!Keep([ed EXCEPT !.modal = m])
  PROVE  EditorInv'
<1> DEFINE e == [ed EXCEPT !.modal = m]
<1>1. EditorSound(e) /\ (CleanText(ed) => CleanText(e))
  BY ModalChanges
<1>2. ed' = e /\ saved' = saved
  BY DEF Editor!Keep
<1> HIDE DEF e
<1> QED BY <1>1, <1>2, EditorBecomes DEF EditorInv

LEMMA SelectsKeepEditor ==
  ASSUME EditorInv,
         \/ \E cm \in ConfigMaps : Editor!SwitchConfigMap(cm)
         \/ \E f \in ed.files : Editor!ClickFile(f) \/ Editor!ClickDelete(f)
         \/ Editor!ConfirmAbandon \/ Editor!ConfirmDelete
  PROVE  EditorInv'
<1>1. /\ EditorSound(ed) /\ ed \in EditorRecord /\ ed.files \subseteq Editor!File /\ ed.same \in BOOLEAN
      /\ ed.newFile \in Editor!File \cup {None} /\ ed.modal \in Editor!Modal
  BY DEF EditorInv, EditorSound, EditorRecord
<1>2. ASSUME NEW cm \in ConfigMaps, Editor!SwitchConfigMap(cm)
      PROVE  EditorInv'
  <2> DEFINE e == [ed EXCEPT !.cm = cm]
             r == Editor!GetConfigmapFiles(e)
  <2>1. ed' = r /\ saved' = FALSE
    BY <1>2, Zenon DEF Editor!SwitchConfigMap
  <2>2. e \in EditorRecord /\ e.loading = ed.loading /\ e.calls = ed.calls /\ e.modal = ed.modal
    BY <1>1 DEF EditorRecord
  <2> HIDE DEF e
  <2>3. TextAwaited(e) /\ FilesNamed(e)
    BY <1>1, <2>2 DEF EditorSound, TextAwaited, FilesNamed
  <2>4. EditorSound(r) /\ r.context = None
    BY <2>2, <2>3, FilesAreAsked
  <2> HIDE DEF r
  <2>5. CleanText(r)
    BY <2>4 DEF CleanText
  <2> QED BY <2>1, <2>4, <2>5, EditorBecomes
<1>3. ASSUME NEW e, EditorSound(e), NEW f \in Editor!File, NEW new \in Editor!File \cup {None},
             ed' = Editor!ChangeSelectFile(e, f, new), saved' = FALSE
      PROVE  EditorInv'
  <2> DEFINE r == Editor!ChangeSelectFile(e, f, new)
  <2>1. EditorSound(r) /\ r.context = None
    BY <1>1, <1>3, FileIsSelected
  <2>2. ed' = r
    BY <1>3
  <2> HIDE DEF r
  <2>3. CleanText(r)
    BY <2>1 DEF CleanText
  <2> QED BY <1>3, <2>1, <2>2, <2>3, EditorBecomes
<1>4. ASSUME NEW f \in ed.files, Editor!ClickFile(f)
      PROVE  EditorInv'
  <2>1. CASE ed.isNeedSave
    <3> DEFINE m == [kind |-> "abandon", file |-> f, newFile |-> ed.newFile, flag |-> FALSE]
    <3>1. m \in Editor!Modal /\ m.file \in Editor!File
      BY <1>1 DEF Editor!Modal
    <3>2. Editor!Keep([ed EXCEPT !.modal = m])
      BY <1>4, <2>1, Zenon DEF Editor!ClickFile
    <3> HIDE DEF m
    <3> QED BY <3>1, <3>2, ModalsKeepEditor
  <2>2. CASE ~ed.isNeedSave
    <3>1. ed' = Editor!ChangeSelectFile(ed, f, ed.newFile) /\ saved' = FALSE
      BY <1>4, <2>2, Zenon DEF Editor!ClickFile
    <3> QED BY <1>1, <1>3, <3>1
  <2> QED BY <2>1, <2>2
<1>5. ASSUME NEW f \in ed.files, Editor!ClickDelete(f)
      PROVE  EditorInv'
  <2> DEFINE flag == ed.same /\ f = ed.selectFile
             m == [kind |-> "delete", file |-> f, newFile |-> None, flag |-> flag]
  <2>1. flag \in BOOLEAN
    BY <1>1
  <2>2. Editor!Keep([ed EXCEPT !.modal = m])
    BY <1>5, Zenon DEF Editor!ClickDelete
  <2> HIDE DEF flag
  <2>3. m \in Editor!Modal /\ m.file \in Editor!File
    BY <1>1, <2>1 DEF Editor!Modal
  <2> HIDE DEF m
  <2> QED BY <2>2, <2>3, ModalsKeepEditor
<1>6. CASE Editor!ConfirmAbandon
  <2> DEFINE e == [ed EXCEPT !.modal = Editor!NoModal]
  <2>1. Editor!NoModal \in Editor!Modal /\ Editor!NoModal.kind = "none"
    BY DEF Editor!NoModal, Editor!Modal
  <2>2. EditorSound(e)
    BY <2>1, ModalChanges
  <2>3. ed.modal.file \in Editor!File /\ ed.modal.newFile \in Editor!File \cup {None}
    BY <1>1, <1>6 DEF Editor!ConfirmAbandon, EditorSound, FilesNamed, Editor!Modal
  <2>4. ed' = Editor!ChangeSelectFile(e, ed.modal.file, ed.modal.newFile) /\ saved' = FALSE
    BY <1>6, Zenon DEF Editor!ConfirmAbandon
  <2> HIDE DEF e
  <2> QED BY <1>3, <2>2, <2>3, <2>4
<1>7. CASE Editor!ConfirmDelete
  <2> DEFINE r == Editor!Send(ed, "delete", ed.modal.file, ed.modal.flag)
  <2>1. ed.modal.file \in Editor!File /\ ed.modal.flag \in BOOLEAN
    BY <1>1, <1>7 DEF Editor!ConfirmDelete, EditorSound, FilesNamed, Editor!Modal
  <2>2. ed' = r /\ saved' = saved
    BY <1>7, Zenon DEF Editor!ConfirmDelete, Editor!Keep
  <2>3. EditorSound(r) /\ r.context = ed.context /\ r.base = ed.base /\ r.isNeedSave = ed.isNeedSave
    BY <1>1, <2>1, RequestAboutFile DEF EditorSound, TextAwaited
  <2> HIDE DEF r
  <2>4. CleanText(ed) => CleanText(r)
    BY <2>3 DEF CleanText
  <2> QED BY <2>2, <2>3, <2>4, EditorBecomes DEF EditorInv
<1> QED BY <1>2, <1>4, <1>5, <1>6, <1>7

LEMMA EditsKeepEditor ==
  ASSUME EditorInv,
         \/ Editor!ClickSave \/ Editor!ConfirmSave \/ Editor!OpenCreated \/ Editor!CancelModal
         \/ \E text \in Texts : Editor!Type(text)
         \/ \E name \in Names : Editor!AddFile(name)
  PROVE  EditorInv'
<1>1. /\ EditorSound(ed) /\ ed \in EditorRecord /\ ed.files \subseteq Editor!File /\ ed.cm \in ConfigMaps
      /\ ed.context \in Editor!Context \cup {None} /\ ed.modal \in Editor!Modal
      /\ ed.selectFile \in Editor!File \cup {None}
  BY DEF EditorInv, EditorSound, EditorRecord
<1>2. Editor!NoModal \in Editor!Modal /\ Editor!NoModal.kind = "none"
  BY DEF Editor!NoModal, Editor!Modal
\* A modal is opened that names no file.
<1>3. ASSUME NEW kind \in {"diff", "create"}, Editor!Keep([ed EXCEPT !.modal.kind = kind])
      PROVE  EditorInv'
  <2> DEFINE m == [ed.modal EXCEPT !.kind = kind]
  <2>1. m \in Editor!Modal /\ m.kind = kind
    BY <1>1 DEF Editor!Modal
  <2>2. Editor!Keep([ed EXCEPT !.modal = m])
    BY <1>3, Zenon
  <2> HIDE DEF m
  <2> QED BY <2>1, <2>2, ModalsKeepEditor
<1>4. CASE Editor!ClickSave
  <2>1. Editor!Keep([ed EXCEPT !.modal.kind = "diff"])
    BY <1>4, Zenon DEF Editor!ClickSave
  <2> QED BY <1>3, <2>1, Zenon
<1>5. CASE Editor!OpenCreated
  <2>1. Editor!Keep([ed EXCEPT !.modal.kind = "create"])
    BY <1>5, Zenon DEF Editor!OpenCreated
  <2> QED BY <1>3, <2>1, Zenon
<1>6. CASE Editor!CancelModal
  <2>1. Editor!Keep([ed EXCEPT !.modal = Editor!NoModal])
    BY <1>6, Zenon DEF Editor!CancelModal
  <2> QED BY <1>2, <2>1, ModalsKeepEditor
<1>7. CASE Editor!ConfirmSave
  <2> DEFINE flag == ed.selectFile = ed.newFile
             r == Editor!Send(ed, "save", ed.selectFile, flag)
  <2>1. ed.selectFile \in Editor!File /\ flag \in BOOLEAN
    BY <1>1, <1>7 DEF Editor!ConfirmSave
  <2>2. ed' = r /\ saved' = saved
    BY <1>7, Zenon DEF Editor!ConfirmSave, Editor!Keep
  <2> HIDE DEF flag
  <2>3. EditorSound(r) /\ r.context = ed.context /\ r.base = ed.base /\ r.isNeedSave = ed.isNeedSave
    BY <1>1, <2>1, RequestAboutFile DEF EditorSound, TextAwaited
  <2> HIDE DEF r
  <2>4. CleanText(ed) => CleanText(r)
    BY <2>3 DEF CleanText
  <2> QED BY <2>2, <2>3, <2>4, EditorBecomes DEF EditorInv
<1>8. ASSUME NEW text \in Texts, Editor!Type(text)
      PROVE  EditorInv'
  <2> DEFINE context == [ed.context EXCEPT !.text = text]
             need == IF ed.base = None THEN TRUE ELSE text # ed.base.text
             e == [ed EXCEPT !.context = context, !.isNeedSave = need]
  <2>1. ed.context \in Editor!Context /\ ed.context # None
    <3>1. ed.context # None
      BY <1>8, Zenon DEF Editor!Type, Editor!Editable
    <3> QED BY <1>1, <3>1
  <2>2. ed' = e /\ saved' = saved
    BY <1>8, Zenon DEF Editor!Type, Editor!Keep
  <2>3. context \in Editor!Context /\ context.of = ed.context.of /\ context.text = text
    BY <2>1 DEF Editor!Context
  <2>4. need \in BOOLEAN
    OBVIOUS
  <2>5. ed.base \in Editor!Context /\ ed.base.of = ed.context.of
    BY <1>1, <2>1 DEF EditorSound, TextHasBase
  <2>6. ~need => context = ed.base
    BY <2>3, <2>5 DEF Editor!Context
  <2> HIDE DEF need, context
  <2>7. /\ e \in EditorRecord /\ e.loading = ed.loading /\ e.calls = ed.calls /\ e.modal = ed.modal
        /\ e.context = context /\ e.base = ed.base /\ e.selectFile = ed.selectFile /\ e.ref = ed.ref
        /\ e.isNeedSave = need
    BY <1>1, <2>3, <2>4 DEF EditorRecord
  <2> HIDE DEF e
  <2>8. EditorSound(e)
    BY <1>1, <2>1, <2>3, <2>5, <2>7 DEF EditorSound, TextAwaited, TextOfSelected, TextHasBase, FilesNamed
  <2>9. CleanText(e)
    BY <2>6, <2>7 DEF CleanText
  <2> QED BY <2>2, <2>8, <2>9, EditorBecomes DEF EditorInv
<1>9. ASSUME NEW name \in Names, Editor!AddFile(name)
      PROVE  EditorInv'
  <2> DEFINE f == [cm |-> ed.cm, name |-> name]
             context == [of |-> f, text |-> Empty]
             e == [ed EXCEPT !.newFile = f, !.files = ed.files \cup {f}, !.selectFile = f, !.same = TRUE,
                             !.isNeedSave = TRUE, !.context = context, !.base = context,
                             !.modal = Editor!NoModal]
  <2>1. ed' = e /\ saved' = FALSE
    BY <1>9, Zenon DEF Editor!AddFile
  <2>2. f \in Editor!File
    BY <1>1 DEF Editor!File
  <2>3. Empty \in Texts
    BY EditorAssumed DEF Editor!EditorAssumption
  <2> HIDE DEF f
  <2>4. context \in Editor!Context /\ context.of = f
    BY <2>2, <2>3 DEF Editor!Context
  <2> HIDE DEF context
  <2>5. ed.files \cup {f} \subseteq Editor!File
    BY <1>1, <2>2
  <2>6. /\ e \in EditorRecord /\ e.loading = ed.loading /\ e.calls = ed.calls /\ e.modal = Editor!NoModal
        /\ e.context = context /\ e.base = context /\ e.selectFile = f
    BY <1>1, <1>2, <2>2, <2>4, <2>5 DEF EditorRecord
  <2> HIDE DEF e
  <2>7. EditorSound(e)
    BY <1>1, <1>2, <2>4, <2>6 DEF EditorSound, TextAwaited, TextOfSelected, TextHasBase, FilesNamed
  <2>8. CleanText(e)
    BY <2>6 DEF CleanText
  <2> QED BY <2>1, <2>7, <2>8, EditorBecomes
<1> QED BY <1>4, <1>5, <1>6, <1>7, <1>8, <1>9

-----------------------------------------------------------------------------
(* What the server answers.                                                  *)

\* A request is answered, and what is open for its file or was loading for it is closed.
AfterAnswer(request, loading, m) ==
    [ed EXCEPT !.calls = ed.calls \ {request}, !.loading = loading, !.modal = m]

LEMMA RequestIsAnswered ==
  ASSUME EditorInv, NEW request \in ed.calls, NEW loading \in {FALSE, ed.loading},
         request.op = "content" => loading = FALSE, NEW m \in {ed.modal, Editor!NoModal}
  PROVE  LET e == AfterAnswer(request, loading, m)
         IN  /\ EditorSound(e) /\ e.context = ed.context /\ e.base = ed.base /\ e.loading = loading
             /\ e.isNeedSave = ed.isNeedSave /\ e.selectFile = ed.selectFile /\ e.ref = ed.ref
<1> DEFINE calls == ed.calls \ {request}
           e == [ed EXCEPT !.calls = calls, !.loading = loading, !.modal = m]
<1>1. EditorSound(ed) /\ ed \in EditorRecord /\ ed.loading \in BOOLEAN /\ ed.modal \in Editor!Modal
  BY DEF EditorInv, EditorSound, EditorRecord
<1>2. Editor!NoModal \in Editor!Modal /\ Editor!NoModal.kind = "none"
  BY DEF Editor!NoModal, Editor!Modal
<1>3. /\ calls \subseteq Editor!Request
      /\ \A other \in ed.calls : other \in calls \/ other = request
  BY <1>1 DEF EditorRecord
<1>4. calls \subseteq ed.calls
  OBVIOUS
<1> HIDE DEF calls
<1>5. /\ e \in EditorRecord /\ e.loading = loading /\ e.calls = calls /\ e.modal = m
      /\ e.context = ed.context /\ e.base = ed.base /\ e.selectFile = ed.selectFile /\ e.ref = ed.ref
      /\ e.isNeedSave = ed.isNeedSave
  BY <1>1, <1>2, <1>3 DEF EditorRecord
<1> HIDE DEF e
<1>6. TextAwaited(e)
  BY <1>1, <1>3, <1>5 DEF EditorSound, TextAwaited
<1>7. FilesNamed(e)
  BY <1>1, <1>2, <1>4, <1>5 DEF EditorSound, FilesNamed
<1>8. EditorSound(e)
  BY <1>1, <1>5, <1>6, <1>7 DEF EditorSound, TextOfSelected, TextHasBase
<1> QED BY <1>5, <1>8 DEF e, calls, AfterAnswer

\* The list is another one.
LEMMA FilesAreListed ==
  ASSUME NEW e, EditorSound(e), NEW list \in SUBSET Editor!File
  PROVE  LET r == Editor!Listed(e, list)
         IN  EditorSound(r) /\ (CleanText(e) => CleanText(r))
<1> DEFINE r == Editor!Listed(e, list)
<1>1. /\ r \in EditorRecord /\ r.loading = e.loading /\ r.calls = e.calls /\ r.modal = e.modal
      /\ r.context = e.context /\ r.base = e.base /\ r.selectFile = e.selectFile /\ r.ref = e.ref
      /\ r.isNeedSave = e.isNeedSave
  BY DEF EditorSound, EditorRecord, Editor!Listed
<1> HIDE DEF r
<1>2. EditorSound(r)
  BY <1>1 DEF EditorSound, TextAwaited, TextOfSelected, TextHasBase, FilesNamed
<1>3. CleanText(e) => CleanText(r)
  BY <1>1 DEF CleanText
<1> QED BY <1>2, <1>3 DEF r

LEMMA ListsAreFiles == \A cm \in ConfigMaps : Editor!Lists(cm) \subseteq SUBSET Editor!File
BY DEF Editor!Lists, Editor!File

LEMMA AnswersKeepEditor ==
  ASSUME EditorInv, NEW request \in ed.calls,
         \/ Editor!ListArrives(request) \/ Editor!ContentArrives(request)
         \/ Editor!SaveArrives(request) \/ Editor!DeleteArrives(request)
         \/ Editor!RequestFails(request)
  PROVE  EditorInv'
<1>1. /\ EditorSound(ed) /\ ed \in EditorRecord /\ request \in Editor!Request /\ ed.loading \in BOOLEAN
      /\ request.op # "list" => request.file \in Editor!File
  BY DEF EditorInv, EditorSound, EditorRecord, FilesNamed
<1>2. request.cm \in ConfigMaps /\ (request.op # "list" => request.file.cm \in ConfigMaps)
  BY <1>1 DEF Editor!Request, Editor!File
<1>3. ASSUME NEW kind
      PROVE  Editor!ClosedIf(ed.modal, kind) \in {ed.modal, Editor!NoModal}
  BY DEF Editor!ClosedIf
<1>4. CASE Editor!ListArrives(request)
  <2> DEFINE e == AfterAnswer(request, ed.loading, ed.modal)
  <2>1. PICK list \in Editor!Lists(request.cm) : Editor!Keep(Editor!Listed(Editor!Done(request), list))
    BY <1>4, Zenon DEF Editor!ListArrives
  <2>2. request.op = "list"
    BY <1>4 DEF Editor!ListArrives
  <2>3. Editor!Done(request) = e
    BY <1>1 DEF Editor!Done, EditorRecord, AfterAnswer
  <2>4. EditorSound(e) /\ e.context = ed.context /\ e.base = ed.base /\ e.isNeedSave = ed.isNeedSave
    BY RequestIsAnswered, <2>2
  <2> HIDE DEF e
  <2> DEFINE r == Editor!Listed(e, list)
  <2>5. ed' = r /\ saved' = saved
    BY <2>1, <2>3 DEF Editor!Keep
  <2>6. list \in SUBSET Editor!File
    BY <1>2, <2>1, ListsAreFiles
  <2>7. EditorSound(r) /\ (CleanText(e) => CleanText(r))
    BY <2>4, <2>6, FilesAreListed
  <2> HIDE DEF r
  <2>8. CleanText(ed) => CleanText(r)
    BY <2>4, <2>7 DEF CleanText
  <2> QED BY <2>5, <2>7, <2>8, EditorBecomes DEF EditorInv
<1>5. CASE Editor!ContentArrives(request)
  <2> DEFINE e == AfterAnswer(request, FALSE, ed.modal)
  <2>1. PICK text \in Texts :
          LET d == [Editor!Done(request) EXCEPT !.loading = FALSE]
              arrived == [of |-> request.file, text |-> text]
          IN  IF ed.ref = request.file.name
              THEN ed' = [d EXCEPT !.context = arrived, !.base = arrived] /\ saved' = FALSE
              ELSE Editor!Keep(d)
    BY <1>5, Zenon DEF Editor!ContentArrives
  <2>2. request.op = "content"
    BY <1>5, Zenon DEF Editor!ContentArrives
  <2>3. [Editor!Done(request) EXCEPT !.loading = FALSE] = e
    BY <1>1 DEF Editor!Done, EditorRecord, AfterAnswer
  <2>4. /\ EditorSound(e) /\ e.context = ed.context /\ e.base = ed.base /\ e.isNeedSave = ed.isNeedSave
        /\ e.ref = ed.ref
    BY RequestIsAnswered, <2>2
  <2> HIDE DEF e
  <2> DEFINE arrived == [of |-> request.file, text |-> text]
             r == [e EXCEPT !.context = arrived, !.base = arrived]
  <2>5. arrived \in Editor!Context /\ arrived.of = request.file
    BY <1>1, <2>2 DEF Editor!Context
  <2>6. \/ ed' = e /\ saved' = saved
        \/ ed.ref = request.file.name /\ ed' = r /\ saved' = FALSE
    BY <2>1, <2>3 DEF Editor!Keep
  <2>7. CASE ed' = e /\ saved' = saved
    <3>1. CleanText(ed) => CleanText(e)
      BY <2>4 DEF CleanText
    <3> QED BY <2>4, <2>7, <3>1, EditorBecomes DEF EditorInv
  <2> HIDE DEF arrived
  <2>8. CASE ed.ref = request.file.name /\ ed' = r /\ saved' = FALSE
    <3>1. /\ r \in EditorRecord /\ r.loading = e.loading /\ r.calls = e.calls /\ r.modal = e.modal
          /\ r.context = arrived /\ r.base = arrived /\ r.selectFile = e.selectFile /\ r.ref = e.ref
      BY <2>4, <2>5 DEF EditorSound, EditorRecord
    <3>2. r.ref = request.file.name
      BY <2>4, <2>8, <3>1
    <3>3. ed' = r
      BY <2>8
    <3> HIDE DEF r
    <3>4. EditorSound(r)
      BY <2>4, <2>5, <3>1, <3>2 DEF EditorSound, TextAwaited, TextOfSelected, TextHasBase, FilesNamed
    <3>5. CleanText(r)
      BY <3>1 DEF CleanText
    <3> QED BY <2>8, <3>3, <3>4, <3>5, EditorBecomes
  <2> QED BY <2>6, <2>7, <2>8
<1>6. CASE Editor!SaveArrives(request)
  <2> DEFINE m == Editor!ClosedIf(ed.modal, "diff")
             e == AfterAnswer(request, ed.loading, m)
             newFile == IF request.flag THEN None ELSE ed.newFile
             c == [e EXCEPT !.newFile = newFile, !.isNeedSave = FALSE]
  <2>1. PICK list \in Editor!Lists(request.file.cm) :
          /\ ed' = Editor!Listed([Editor!Done(request) EXCEPT
                                    !.newFile = IF request.flag THEN None ELSE ed.newFile,
                                    !.isNeedSave = FALSE,
                                    !.modal = Editor!ClosedIf(ed.modal, "diff")], list)
          /\ saved' = TRUE
    <3>1. Editor!Done(request).newFile = ed.newFile /\ Editor!Done(request).modal = ed.modal
      BY <1>1 DEF Editor!Done, EditorRecord
    <3> QED BY <1>6, <3>1, Zenon DEF Editor!SaveArrives
  <2>2. request.op = "save"
    BY <1>6 DEF Editor!SaveArrives
  <2>3. newFile \in Editor!File \cup {None}
    BY <1>1 DEF EditorRecord
  <2>4. m \in {ed.modal, Editor!NoModal}
    BY <1>3
  <2>5. EditorSound(e)
    BY RequestIsAnswered, <2>2, <2>4
  <2> HIDE DEF newFile, m
  <2>6. c = [Editor!Done(request) EXCEPT !.newFile = newFile, !.isNeedSave = FALSE, !.modal = m]
    BY <1>1 DEF Editor!Done, EditorRecord, AfterAnswer
  <2> HIDE DEF e
  <2>7. /\ c \in EditorRecord /\ c.loading = e.loading /\ c.calls = e.calls /\ c.modal = e.modal
        /\ c.context = e.context /\ c.base = e.base /\ c.selectFile = e.selectFile /\ c.ref = e.ref
    BY <2>3, <2>5 DEF EditorSound, EditorRecord
  <2>8. ed' = Editor!Listed(c, list)
    BY <2>1, <2>6 DEF newFile, m
  <2> HIDE DEF c
  <2>9. EditorSound(c)
    BY <2>5, <2>7 DEF EditorSound, TextAwaited, TextOfSelected, TextHasBase, FilesNamed
  <2>10. list \in SUBSET Editor!File
    BY <1>2, <2>1, <2>2, ListsAreFiles
  <2> DEFINE r == Editor!Listed(c, list)
  <2>11. EditorSound(r)
    BY <2>9, <2>10, FilesAreListed
  <2> HIDE DEF r
  <2> QED BY <2>1, <2>8, <2>11, EditorBecomes DEF r
<1>7. CASE Editor!DeleteArrives(request)
  <2> DEFINE m == Editor!ClosedIf(ed.modal, "delete")
             e == AfterAnswer(request, ed.loading, m)
             closed == [e EXCEPT !.selectFile = None, !.isNeedSave = FALSE, !.context = None, !.base = None]
  <2>1. PICK list \in Editor!Lists(request.file.cm) :
          LET d == [Editor!Done(request) EXCEPT !.modal = Editor!ClosedIf(ed.modal, "delete")]
              gone == [d EXCEPT !.selectFile = None, !.isNeedSave = FALSE, !.context = None, !.base = None]
          IN  Editor!Keep(Editor!Listed(IF request.flag THEN gone ELSE d, list))
    <3>1. Editor!Done(request).modal = ed.modal
      BY <1>1 DEF Editor!Done, EditorRecord
    <3> QED BY <1>7, <3>1, Zenon DEF Editor!DeleteArrives
  <2>2. request.op = "delete"
    BY <1>7 DEF Editor!DeleteArrives
  <2>3. m \in {ed.modal, Editor!NoModal}
    BY <1>3
  <2>4. EditorSound(e) /\ e.context = ed.context /\ e.base = ed.base /\ e.isNeedSave = ed.isNeedSave
    BY RequestIsAnswered, <2>2, <2>3
  <2> HIDE DEF m
  <2>5. [Editor!Done(request) EXCEPT !.modal = m] = e
    BY <1>1 DEF Editor!Done, EditorRecord, AfterAnswer
  <2> HIDE DEF e
  <2>6. /\ closed \in EditorRecord /\ closed.loading = e.loading /\ closed.calls = e.calls
        /\ closed.modal = e.modal /\ closed.context = None
    BY <2>4 DEF EditorSound, EditorRecord
  <2>7. \E s \in {e, closed} : ed' = Editor!Listed(s, list) /\ saved' = saved
    BY <2>1, <2>5, Zenon DEF Editor!Keep, m
  <2> HIDE DEF closed
  <2>8. EditorSound(closed) /\ CleanText(closed)
    BY <2>4, <2>6 DEF EditorSound, TextAwaited, TextOfSelected, TextHasBase, FilesNamed, CleanText
  <2>9. PICK s \in {e, closed} : ed' = Editor!Listed(s, list) /\ saved' = saved
    BY <2>7
  <2>10. EditorSound(s) /\ (CleanText(ed) => CleanText(s))
    BY <2>4, <2>8 DEF CleanText
  <2>11. list \in SUBSET Editor!File
    BY <1>2, <2>1, <2>2, ListsAreFiles
  <2> DEFINE r == Editor!Listed(s, list)
  <2>12. EditorSound(r) /\ (CleanText(s) => CleanText(r))
    BY <2>10, <2>11, FilesAreListed
  <2>13. ed' = r
    BY <2>9
  <2> HIDE DEF r
  <2> QED BY <2>9, <2>10, <2>12, <2>13, EditorBecomes DEF EditorInv
<1>8. CASE Editor!RequestFails(request)
  <2> DEFINE loading == IF request.op = "content" THEN FALSE ELSE ed.loading
             m == IF request.op = "delete" THEN Editor!ClosedIf(ed.modal, "delete") ELSE ed.modal
             e == AfterAnswer(request, loading, m)
  <2>1. /\ ed' = [Editor!Done(request) EXCEPT !.loading = loading, !.modal = m]
        /\ saved' = saved
    <3>1. Editor!Done(request).modal = ed.modal /\ Editor!Done(request).loading = ed.loading
      BY <1>1 DEF Editor!Done, EditorRecord
    <3> QED BY <1>8, <3>1, Zenon DEF Editor!RequestFails, Editor!Keep
  <2>2. m \in {ed.modal, Editor!NoModal}
    BY <1>3
  <2>3. loading \in {FALSE, ed.loading} /\ loading \in BOOLEAN /\ (request.op = "content" => loading = FALSE)
    BY <1>1
  <2> HIDE DEF loading, m
  <2>4. EditorSound(e) /\ e.context = ed.context /\ e.base = ed.base /\ e.isNeedSave = ed.isNeedSave
    BY RequestIsAnswered, <2>2, <2>3
  <2>5. ed' = e
    BY <1>1, <2>1, <2>3 DEF Editor!Done, EditorRecord, AfterAnswer
  <2> HIDE DEF e
  <2>6. CleanText(ed) => CleanText(e)
    BY <2>4 DEF CleanText
  <2> QED BY <2>1, <2>4, <2>5, <2>6, EditorBecomes DEF EditorInv
<1> QED BY <1>4, <1>5, <1>6, <1>7, <1>8

LEMMA EditorStep ==
  ASSUME EditorInv, Editor!EditorNext
  PROVE  EditorInv'
BY SelectsKeepEditor, EditsKeepEditor, AnswersKeepEditor DEF Editor!EditorNext

EditorPage == page = "editor" => EditorInv

LEMMA EditorHolds == Spec => []EditorPage
<1>1. Init => EditorPage
  BY EditorBegins DEF Init, EditorPage
<1>2. EditorPage /\ [Next]_vars => EditorPage'
  <2>1. CASE Next
    BY <2>1, EditorStep DEF Next, EditorPage
  <2>2. CASE UNCHANGED vars
    BY <2>2 DEF vars, editor, EditorPage, EditorInv, EditorSound, TextAwaited, TextOfSelected, TextHasBase,
                FilesNamed, CleanText
  <2> QED BY <2>1, <2>2
<1> QED BY <1>1, <1>2, PTL DEF Spec

\* For any ConfigMaps, files and texts, in whatever order texts, lists, saves and deletions are
\* answered: the editor shows the file it names, a text that is not said to be unsaved is the one
\* that was loaded, and the form that updates a cluster is that of the cluster it names.
THEOREM EditorsAreRight == Spec => []EditorsShowSelected
<1>1. EditorPage => (page = "editor" => Editor!EditorShowsSelected /\ Editor!CleanEditorShowsBase)
  BY DEF EditorPage, EditorInv, EditorSound, TextOfSelected, CleanText, Editor!EditorShowsSelected,
         Editor!CleanEditorShowsBase
<1>2. ManagementPage => (page = "management" => Management!UpdateFormShowsCluster)
  BY DEF ManagementPage, ClustersInv
<1>3. EditorPage /\ ManagementPage => EditorsShowSelected
  BY <1>1, <1>2 DEF EditorsShowSelected
<1> QED BY <1>3, EditorHolds, ClustersHold, PTL

-----------------------------------------------------------------------------
(***************************************************************************)
(* The pod files page (PodFiles).                                           *)
(***************************************************************************)
Paths == Manager!Dirs \cup {Manager!Here}

Listed == [target : Manager!Target, path : Manager!Dirs]

FilesRecord ==
    [pod : Pods, container : Manager!Containers \cup {None}, path : Paths, list : Listed \cup {None},
     loading : BOOLEAN, ref : Manager!Target \cup {None}, search : Paths \cup {None},
     uploading : {"no", "sent", "stuck"}, calls : SUBSET Manager!Listing]

\* The list is that of the path, answers are compared with the container that is shown, and a
\* page without a container asks for nothing.
FilesSound(f) ==
    /\ f \in FilesRecord
    /\ f.loading => f.calls # {}
    /\ f.list # None => f.list.path = f.path
    /\ f.container # None => f.ref = Manager!TargetOf(f)
    /\ f.container = None => f.list = None /\ f.calls = {} /\ f.uploading = "no" /\ ~f.loading

\* The jumps that are under way were under way before.
SameJumps(f, g) == \A request \in g.calls : request.op = "jump" => request \in f.calls

\* What is shown, and what the jumps will show, is of the container that is shown.
FilesAt(f) ==
    /\ f.list # None => f.list.target = Manager!TargetOf(f)
    /\ \A request \in f.calls : request.op = "jump" => request.target = Manager!TargetOf(f)

FilesInv == FilesSound(fm) /\ crossed \in BOOLEAN /\ (~crossed => FilesAt(fm))

-----------------------------------------------------------------------------
(* Paths.                                                                    *)

LEMMA DirsAreShort == \A path : path \in Manager!Dirs <=> path \in Seq(Folders) /\ Len(path) <= MaxDepth
<1>1. MaxDepth \in Nat
  BY FilesAssumed DEF Manager!FilesAssumption
<1>2. ASSUME NEW path \in Manager!Dirs
      PROVE  path \in Seq(Folders) /\ Len(path) <= MaxDepth
  <2>1. PICK n \in 0..MaxDepth : path \in [1..n -> Folders]
    BY <1>2 DEF Manager!Dirs
  <2>2. n \in Nat
    BY <1>1
  <2>3. path \in Seq(Folders) /\ Len(path) = n
    BY <2>1, <2>2
  <2> QED BY <1>1, <2>1, <2>3
<1>3. ASSUME NEW path \in Seq(Folders), Len(path) <= MaxDepth
      PROVE  path \in Manager!Dirs
  <2>1. Len(path) \in 0..MaxDepth /\ path \in [1..Len(path) -> Folders]
    BY <1>1, <1>3
  <2> QED BY <2>1 DEF Manager!Dirs
<1> QED BY <1>2, <1>3

LEMMA ResolvedIsThere == \A path \in Paths : Manager!Resolved(path) \in Manager!Dirs
BY FilesAssumed DEF Manager!FilesAssumption, Manager!Resolved, Paths

LEMMA PartIsPath ==
  ASSUME NEW path \in Seq(Folders), NEW n \in 0..Len(path)
  PROVE  SubSeq(path, 1, n) \in Seq(Folders)
BY SubSeqProperties

-----------------------------------------------------------------------------
(* The containers.                                                           *)

LEMMA ListIsFetched ==
  ASSUME NEW f \in FilesRecord, f.container # None, NEW path \in Paths
  PROVE  LET g == Manager!GetFileList(f, path)
         IN  /\ FilesSound(g) /\ g.list = None /\ g.container = f.container /\ g.pod = f.pod
             /\ SameJumps(f, g)
<1> DEFINE target == Manager!TargetOf(f)
           new == [op |-> "list", target |-> target, path |-> path]
           calls == f.calls \cup {new}
           g == [f EXCEPT !.path = Manager!Here, !.list = None, !.loading = TRUE, !.ref = target,
                          !.calls = calls]
<1>1. g = Manager!GetFileList(f, path)
  BY Zenon DEF Manager!GetFileList
<1>2. target \in Manager!Target
  BY DEF Manager!TargetOf, Manager!Target, FilesRecord
<1>3. new \in Manager!Listing /\ new.op = "list"
  BY <1>2 DEF Manager!Listing, Paths
<1> HIDE DEF target, new
<1>4. calls \subseteq Manager!Listing /\ calls # {}
  BY <1>3 DEF FilesRecord
<1>5. \A request \in calls : request.op = "jump" => request \in f.calls
  BY <1>3
<1> HIDE DEF calls
<1>6. Manager!Here \in Paths
  BY DEF Paths
<1>7. /\ g \in FilesRecord /\ g.pod = f.pod /\ g.container = f.container /\ g.list = None
      /\ g.ref = target /\ g.calls = calls
  BY <1>2, <1>4, <1>6 DEF FilesRecord
<1>8. Manager!TargetOf(g) = target
  BY <1>7 DEF Manager!TargetOf, target
<1> HIDE DEF g
<1>9. FilesSound(g)
  BY <1>4, <1>7, <1>8 DEF FilesSound
<1> QED BY <1>1, <1>5, <1>7, <1>9 DEF SameJumps

\* A page that is mounted anew.
LEMMA FreshIsFresh ==
  ASSUME NEW f \in FilesRecord
  PROVE  LET g == Manager!Fresh(f)
         IN  /\ g \in FilesRecord /\ g.pod = f.pod /\ g.container = f.container
             /\ g.list = None /\ g.calls = {} /\ g.uploading = "no" /\ ~g.loading
BY DEF Manager!Fresh, FilesRecord, Paths

LEMMA ContainerIsSet ==
  ASSUME NEW f, FilesSound(f), NEW c \in Manager!Containers \cup {None}, c # f.container \/ f.list = None
  PROVE  LET r == Manager!SetContainer(f, c)
         IN  FilesSound(r) /\ r.list = None /\ SameJumps(f, r)
<1> DEFINE g == [f EXCEPT !.container = c]
<1>1. g \in FilesRecord /\ g.container = c /\ g.calls = f.calls
  BY DEF FilesSound, FilesRecord
<1>2. CASE c = f.container
  <2>1. Manager!SetContainer(f, c) = f
    BY <1>2 DEF Manager!SetContainer
  <2> QED BY <1>2, <2>1 DEF SameJumps
<1>3. CASE c # f.container /\ c = None
  <2>1. Manager!SetContainer(f, c) = Manager!Fresh(g)
    BY <1>3, Zenon DEF Manager!SetContainer
  <2> HIDE DEF g
  <2> DEFINE r == Manager!Fresh(g)
  <2>2. /\ r \in FilesRecord /\ r.container = None
        /\ r.list = None /\ r.calls = {} /\ r.uploading = "no" /\ ~r.loading
    BY <1>1, <1>3, FreshIsFresh
  <2> HIDE DEF r
  <2>3. FilesSound(r) /\ r.list = None /\ SameJumps(f, r)
    BY <2>2 DEF FilesSound, SameJumps
  <2> QED BY <2>1, <2>3 DEF r
<1>4. CASE c # f.container /\ c # None
  <2>1. PICK h \in {g, Manager!Fresh(g)} :
            Manager!SetContainer(f, c) = Manager!GetFileList(h, Manager!Here)
    <3>1. CASE Manager!Mounted(f)
      <4>1. Manager!SetContainer(f, c) = Manager!GetFileList(g, Manager!Here)
        BY <1>4, <3>1, Zenon DEF Manager!SetContainer
      <4> QED BY <4>1, Zenon
    <3>2. CASE ~Manager!Mounted(f)
      <4>1. Manager!SetContainer(f, c) = Manager!GetFileList(Manager!Fresh(g), Manager!Here)
        BY <1>4, <3>2, Zenon DEF Manager!SetContainer
      <4> QED BY <4>1, Zenon
    <3> QED BY <3>1, <3>2
  <2> HIDE DEF g
  <2>2. h \in FilesRecord /\ h.container = c /\ h.calls \subseteq f.calls
    BY <1>1, <2>1, FreshIsFresh
  <2>3. Manager!Here \in Paths
    BY DEF Paths
  <2> DEFINE r == Manager!GetFileList(h, Manager!Here)
  <2>4. FilesSound(r) /\ r.list = None /\ SameJumps(h, r)
    BY <1>4, <2>2, <2>3, ListIsFetched
  <2> HIDE DEF r
  <2>5. SameJumps(f, r)
    BY <2>2, <2>4 DEF SameJumps
  <2> QED BY <2>1, <2>4, <2>5 DEF r
<1> QED BY <1>2, <1>3, <1>4

LEMMA PodIsSet ==
  ASSUME NEW f, FilesSound(f), NEW p \in Pods
  PROVE  LET r == Manager!SetPod(f, p)
         IN  FilesSound(r) /\ r.list = None /\ SameJumps(f, r)
<1> DEFINE g == [f EXCEPT !.pod = p]
           h == IF Manager!Mounted(g) THEN Manager!GetFileList(g, Manager!Here) ELSE g
<1>1. /\ g \in FilesRecord /\ g.pod = p /\ g.container = f.container /\ g.list = f.list
      /\ g.loading = f.loading /\ g.calls = f.calls /\ g.uploading = f.uploading
  BY DEF FilesSound, FilesRecord
<1>2. Manager!SetPod(f, p) = IF ContainersOf[p] = <<>> THEN h ELSE Manager!SetContainer(h, Head(ContainersOf[p]))
  BY Zenon DEF Manager!SetPod
<1> HIDE DEF g
<1>3. FilesSound(h) /\ h.list = None /\ SameJumps(f, h)
  <2>1. CASE g.container = None
    <3>1. FilesSound(g) /\ g.list = None /\ SameJumps(f, g)
      BY <1>1, <2>1 DEF FilesSound, SameJumps
    <3> QED BY <2>1, <3>1 DEF Manager!Mounted
  <2>2. CASE g.container # None
    <3>1. Manager!Here \in Paths
      BY DEF Paths
    <3> DEFINE r == Manager!GetFileList(g, Manager!Here)
    <3>2. FilesSound(r) /\ r.list = None /\ SameJumps(g, r)
      BY <1>1, <2>2, <3>1, ListIsFetched
    <3>3. h = r
      BY <2>2 DEF Manager!Mounted
    <3> HIDE DEF r, h
    <3> QED BY <1>1, <3>2, <3>3 DEF SameJumps
  <2> QED BY <2>1, <2>2
<1> HIDE DEF h
<1>4. CASE ContainersOf[p] = <<>>
  BY <1>2, <1>3, <1>4
<1>5. CASE ContainersOf[p] # <<>>
  <2>1. ContainersOf[p] \in Seq(Manager!Containers)
    BY FilesAssumed DEF Manager!FilesAssumption
  <2>2. Head(ContainersOf[p]) \in Manager!Containers
    BY <1>5, <2>1
  <2> DEFINE r == Manager!SetContainer(h, Head(ContainersOf[p]))
  <2>3. FilesSound(r) /\ r.list = None /\ SameJumps(h, r)
    BY <1>3, <2>2, ContainerIsSet
  <2>4. Manager!SetPod(f, p) = r
    BY <1>2, <1>5
  <2> HIDE DEF r
  <2>5. SameJumps(f, r)
    BY <1>3, <2>3 DEF SameJumps
  <2> QED BY <2>3, <2>4, <2>5
<1> QED BY <1>4, <1>5

LEMMA FilesBegin ==
  ASSUME Manager!FilesInit
  PROVE  FilesInv
<1>1. PICK p \in Pods :
        fm = Manager!SetPod(Manager!Fresh(
               [pod |-> p, container |-> None, path |-> Manager!Here, list |-> None, loading |-> FALSE,
                ref |-> None, search |-> None, uploading |-> "no", calls |-> {}]), p)
  BY Zenon DEF Manager!FilesInit
<1> DEFINE f == [pod |-> p, container |-> None, path |-> Manager!Here, list |-> None, loading |-> FALSE,
                 ref |-> None, search |-> None, uploading |-> "no", calls |-> {}]
           g == Manager!Fresh(f)
<1>2. f \in FilesRecord /\ f.container = None
  BY DEF FilesRecord, Paths
<1>3. fm = Manager!SetPod(g, p) /\ crossed = FALSE
  BY <1>1 DEF Manager!FilesInit
<1> HIDE DEF f
<1>4. /\ g \in FilesRecord /\ g.container = None /\ g.list = None /\ g.calls = {} /\ g.uploading = "no"
      /\ ~g.loading
  BY <1>2, FreshIsFresh
<1> HIDE DEF g
<1>5. FilesSound(g)
  BY <1>4 DEF FilesSound
<1>6. FilesSound(fm) /\ fm.list = None /\ SameJumps(g, fm)
  BY <1>3, <1>5, PodIsSet
<1>7. FilesAt(fm)
  BY <1>4, <1>6 DEF SameJumps, FilesAt
<1> QED BY <1>3, <1>6, <1>7 DEF FilesInv

-----------------------------------------------------------------------------
(* The steps of the page.                                                    *)

LEMMA SelectsKeepFiles ==
  ASSUME FilesInv,
         \/ \E p \in Pods : Manager!ChangePod(p)
         \/ \E c \in {ContainersOf[fm.pod][i] : i \in DOMAIN ContainersOf[fm.pod]} \cup {None} :
               Manager!ChangeContainer(c)
  PROVE  FilesInv'
<1>1. FilesSound(fm) /\ crossed \in BOOLEAN /\ fm.pod \in Pods
  BY DEF FilesInv, FilesSound, FilesRecord
<1>2. ASSUME FilesSound(fm'), fm'.list = None, crossed' \in BOOLEAN,
             ~crossed' => fm'.container = None \/ ~Manager!Crosses(fm')
      PROVE  FilesInv'
  <2>1. ~crossed' => FilesAt(fm')
    BY <1>2 DEF FilesAt, FilesSound, Manager!Crosses
  <2> QED BY <1>2, <2>1 DEF FilesInv, FilesSound, FilesAt, Manager!TargetOf
<1>3. ASSUME NEW p \in Pods, Manager!ChangePod(p)
      PROVE  FilesInv'
  <2>1. fm' = Manager!SetPod(fm, p) /\ crossed' = (crossed \/ Manager!Crosses(fm'))
    BY <1>3 DEF Manager!ChangePod
  <2>2. FilesSound(fm') /\ fm'.list = None
    BY <1>1, <2>1, PodIsSet
  <2>3. crossed' \in BOOLEAN
    BY <2>1, Zenon DEF Manager!Crosses
  <2> QED BY <1>2, <2>1, <2>2, <2>3
<1>4. ASSUME NEW c \in {ContainersOf[fm.pod][i] : i \in DOMAIN ContainersOf[fm.pod]} \cup {None},
             Manager!ChangeContainer(c)
      PROVE  FilesInv'
  <2>1. /\ fm' = Manager!SetContainer(fm, c) /\ c # fm.container
        /\ crossed' = (Manager!Mounted(fm') /\ (crossed \/ Manager!Crosses(fm')))
    BY <1>4 DEF Manager!ChangeContainer
  <2>2. c \in Manager!Containers \cup {None}
    BY <1>1 DEF Manager!Containers
  <2>3. FilesSound(fm') /\ fm'.list = None
    BY <1>1, <2>1, <2>2, ContainerIsSet
  <2>4. crossed' \in BOOLEAN
    BY <2>1, Zenon DEF Manager!Crosses, Manager!Mounted
  <2>5. ~crossed' => fm'.container = None \/ ~Manager!Crosses(fm')
    BY <2>1 DEF Manager!Mounted
  <2> QED BY <1>2, <2>3, <2>4, <2>5
<1> QED BY <1>3, <1>4

\* A jump to a path that is short enough.
LEMMA JumpKeepsFiles ==
  ASSUME FilesInv, NEW path \in Seq(Folders), Manager!JumpPath(path)
  PROVE  FilesInv'
<1> DEFINE target == Manager!TargetOf(fm)
           new == [op |-> "jump", target |-> target, path |-> path]
           calls == fm.calls \cup {new}
           f == [fm EXCEPT !.search = path, !.loading = TRUE, !.calls = calls]
<1>1. fm' = f /\ crossed' = crossed /\ fm.container # None /\ Len(path) <= MaxDepth
  BY DEF Manager!JumpPath, Manager!CanJump, Manager!Mounted
<1>2. FilesSound(fm) /\ fm \in FilesRecord
  BY DEF FilesInv, FilesSound
<1>3. path \in Manager!Dirs
  BY <1>1, DirsAreShort
<1>4. target \in Manager!Target
  BY <1>1, <1>2 DEF FilesRecord, Manager!TargetOf, Manager!Target
<1>5. new \in Manager!Listing /\ new.target = target
  BY <1>3, <1>4 DEF Manager!Listing
<1> HIDE DEF target, new
<1>6. calls \subseteq Manager!Listing /\ calls # {}
  BY <1>2, <1>5 DEF FilesRecord
<1>7. path \in Paths
  BY <1>3 DEF Paths
<1>8. ASSUME FilesAt(fm)
      PROVE  \A request \in calls : request.op = "jump" => request.target = target
  BY <1>5, <1>8 DEF FilesAt, target
<1> HIDE DEF calls
<1>9. /\ f \in FilesRecord /\ f.pod = fm.pod /\ f.container = fm.container /\ f.list = fm.list
      /\ f.path = fm.path /\ f.ref = fm.ref /\ f.calls = calls
  BY <1>2, <1>6, <1>7 DEF FilesRecord
<1> HIDE DEF f
<1>10. Manager!TargetOf(f) = target
  BY <1>9 DEF Manager!TargetOf, target
<1>11. FilesSound(f)
  BY <1>1, <1>2, <1>6, <1>9, <1>10 DEF FilesSound, target
<1>12. FilesAt(fm) => FilesAt(f)
  BY <1>8, <1>9, <1>10 DEF FilesAt, target
<1>13. fm' = f
  BY <1>1
<1> QED BY <1>1, <1>11, <1>12, <1>13 DEF FilesInv, FilesSound, FilesAt, Manager!TargetOf

\* Wherever the user clicks is a path.
LEMMA JumpsKeepFiles ==
  ASSUME FilesInv,
         \/ \E name \in Folders \cup {".", ".."} : Manager!OpenFolder(name)
         \/ Manager!BackPreLevel \/ Manager!BackRootDirectory \/ Manager!GoHomePath
         \/ \E i \in DOMAIN fm.path : Manager!ClickPathItem(i)
  PROVE  FilesInv'
<1>1. FilesSound(fm) /\ fm.path \in Paths /\ fm.list \in Listed \cup {None}
  BY DEF FilesInv, FilesSound, FilesRecord
<1>2. ~Manager!IsRootDirectory => /\ fm.path \in Seq(Folders) /\ fm.path # <<>> /\ Len(fm.path) \in Nat \ {0}
                                  /\ Manager!Parent(fm.path) \in Seq(Folders)
  <2> SUFFICES ASSUME ~Manager!IsRootDirectory
               PROVE  /\ fm.path \in Seq(Folders) /\ fm.path # <<>> /\ Len(fm.path) \in Nat \ {0}
                      /\ Manager!Parent(fm.path) \in Seq(Folders)
    OBVIOUS
  <2>1. fm.path \in Manager!Dirs /\ fm.path # <<>>
    BY <1>1 DEF Paths, Manager!IsRootDirectory, Manager!Root
  <2>2. fm.path \in Seq(Folders) /\ Len(fm.path) \in Nat \ {0}
    BY <2>1, DirsAreShort, EmptySeq, LenProperties
  <2> QED BY <2>1, <2>2, PartIsPath DEF Manager!Parent
<1>3. <<>> \in Seq(Folders)
  OBVIOUS
<1>4. ASSUME NEW name \in Folders \cup {".", ".."}, Manager!OpenFolder(name)
      PROVE  FilesInv'
  <2>1. fm.path \in Seq(Folders)
    BY <1>1, <1>4, DirsAreShort DEF Manager!OpenFolder, FilesSound, Listed
  <2>2. fm.path # <<>> => Manager!Parent(fm.path) \in Seq(Folders)
    <3>1. fm.path # <<>> => Len(fm.path) \in Nat \ {0}
      BY <2>1, EmptySeq, LenProperties
    <3> QED BY <2>1, <3>1, PartIsPath DEF Manager!Parent
  <2>3. Manager!PathOf(name) \in Seq(Folders)
    <3>1. CASE name = "."
      <4>1. Manager!PathOf(name) = fm.path
        BY <3>1, Zenon DEF Manager!PathOf
      <4> QED BY <2>1, <4>1
    <3>2. CASE name = ".." /\ name # "."
      <4>1. Manager!PathOf(name) = IF fm.path = Manager!Root THEN Manager!Root ELSE Manager!Parent(fm.path)
        BY <3>2, Zenon DEF Manager!PathOf
      <4> QED BY <1>3, <2>2, <4>1 DEF Manager!Root
    <3>3. CASE name # ".." /\ name # "."
      <4>1. Manager!PathOf(name) = Append(fm.path, name)
        BY <3>3, Zenon DEF Manager!PathOf
      <4> QED BY <2>1, <3>3, <4>1
    <3> QED BY <3>1, <3>2, <3>3
  <2> QED BY <1>4, <2>3, JumpKeepsFiles DEF Manager!OpenFolder
<1>5. CASE Manager!BackPreLevel
  BY <1>2, <1>5, JumpKeepsFiles DEF Manager!BackPreLevel
<1>6. CASE Manager!BackRootDirectory
  BY <1>3, <1>6, JumpKeepsFiles DEF Manager!BackRootDirectory, Manager!Root
<1>7. CASE Manager!GoHomePath
  <2>1. <<Home>> \in Seq(Folders)
    BY FilesAssumed DEF Manager!FilesAssumption
  <2> QED BY <1>7, <2>1, JumpKeepsFiles DEF Manager!GoHomePath
<1>8. ASSUME NEW i \in DOMAIN fm.path, Manager!ClickPathItem(i)
      PROVE  FilesInv'
  <2> DEFINE first == CHOOSE j \in 1..i : fm.path[j] = fm.path[i] /\ \A k \in 1..(j - 1) : fm.path[k] # fm.path[i]
  <2>1. ~Manager!IsRootDirectory /\ Manager!JumpPath(SubSeq(fm.path, 1, first))
    BY <1>8, Zenon DEF Manager!ClickPathItem
  <2>2. fm.path \in Seq(Folders) /\ i \in 1..Len(fm.path)
    BY <1>2, <2>1, LenProperties
  <2>3. first \in 0..Len(fm.path)
    <3> DEFINE same == {j \in 1..i : fm.path[j] = fm.path[i]}
    <3>1. i \in Nat \ {0} /\ i \in same /\ same \subseteq Nat
      BY <2>2
    <3>2. PICK m \in same : \A k \in same : ~ (k < m)
      BY <3>1, LeastNumber
    <3>3. /\ m \in 1..i /\ fm.path[m] = fm.path[i]
          /\ \A k \in 1..(m - 1) : fm.path[k] # fm.path[i]
      BY <3>1, <3>2
    <3>4. first \in 1..i
      BY <3>3, Zenon
    <3> QED BY <2>2, <3>4
  <2> HIDE DEF first
  <2>4. SubSeq(fm.path, 1, first) \in Seq(Folders)
    BY <2>2, <2>3, PartIsPath
  <2> QED BY <2>1, <2>4, JumpKeepsFiles
<1> QED BY <1>4, <1>5, <1>6, <1>7, <1>8

LEMMA UploadsKeepFiles ==
  ASSUME FilesInv, Manager!Upload \/ Manager!UploadSucceeds \/ Manager!UploadFails
  PROVE  FilesInv'
<1>1. FilesSound(fm) /\ fm \in FilesRecord
  BY DEF FilesInv, FilesSound
<1>2. fm.container # None /\ crossed' = crossed
  BY <1>1 DEF Manager!Upload, Manager!UploadSucceeds, Manager!UploadFails, Manager!Mounted, FilesSound
\* Only what is uploaded changes.
<1>3. ASSUME NEW status \in {"no", "sent", "stuck"}
      PROVE  LET f == [fm EXCEPT !.uploading = status]
             IN  /\ FilesSound(f) /\ f.container # None /\ f.path = fm.path
                 /\ SameJumps(fm, f) /\ (FilesAt(fm) => FilesAt(f))
                 /\ Manager!TargetOf(f) = Manager!TargetOf(fm)
  <2> DEFINE f == [fm EXCEPT !.uploading = status]
  <2>1. /\ f \in FilesRecord /\ f.pod = fm.pod /\ f.container = fm.container /\ f.list = fm.list
        /\ f.path = fm.path /\ f.ref = fm.ref /\ f.calls = fm.calls /\ f.loading = fm.loading
    BY <1>1 DEF FilesRecord
  <2> HIDE DEF f
  <2>2. Manager!TargetOf(f) = Manager!TargetOf(fm)
    BY <2>1 DEF Manager!TargetOf
  <2>3. FilesSound(f)
    BY <1>1, <1>2, <2>1, <2>2 DEF FilesSound
  <2>4. SameJumps(fm, f) /\ (FilesAt(fm) => FilesAt(f))
    BY <2>1, <2>2 DEF SameJumps, FilesAt
  <2> QED BY <1>2, <2>1, <2>2, <2>3, <2>4 DEF f
<1>4. CASE Manager!Upload \/ Manager!UploadFails
  <2>1. PICK status \in {"no", "sent", "stuck"} : fm' = [fm EXCEPT !.uploading = status]
    <3>1. CASE Manager!Upload
      BY <3>1 DEF Manager!Upload
    <3>2. CASE Manager!UploadFails
      BY <3>2 DEF Manager!UploadFails
    <3> QED BY <1>4, <3>1, <3>2
  <2> DEFINE f == [fm EXCEPT !.uploading = status]
  <2>2. FilesSound(f) /\ (FilesAt(fm) => FilesAt(f)) /\ fm' = f
    BY <1>3, <2>1
  <2> HIDE DEF f
  <2> QED BY <1>2, <2>2 DEF FilesInv, FilesSound, FilesAt, Manager!TargetOf
<1>5. CASE Manager!UploadSucceeds
  <2> DEFINE f == [fm EXCEPT !.uploading = "no"]
             g == Manager!GetFileList(f, fm.path)
  <2>1. /\ FilesSound(f) /\ f.container # None /\ SameJumps(fm, f)
        /\ f.path = fm.path /\ Manager!TargetOf(f) = Manager!TargetOf(fm)
    BY <1>3
  <2>2. fm' = g
    BY <1>5, Zenon DEF Manager!UploadSucceeds
  <2> HIDE DEF f
  <2>3. fm.path \in Paths
    BY <1>1 DEF FilesRecord
  <2>4. /\ FilesSound(g) /\ g.list = None /\ g.container = f.container /\ SameJumps(f, g)
        /\ g.pod = f.pod
    BY <2>1, <2>3, ListIsFetched DEF FilesSound
  <2> HIDE DEF g
  <2>5. Manager!TargetOf(g) = Manager!TargetOf(fm)
    BY <2>1, <2>4 DEF Manager!TargetOf
  <2>6. FilesAt(fm) => FilesAt(g)
    BY <2>1, <2>4, <2>5 DEF FilesAt, SameJumps
  <2> QED BY <1>2, <2>2, <2>4, <2>6 DEF FilesInv, FilesSound, FilesAt, Manager!TargetOf
<1> QED BY <1>4, <1>5

LEMMA ListingsKeepFiles ==
  ASSUME FilesInv, NEW request \in fm.calls,
         Manager!ListArrives(request) \/ Manager!JumpArrives(request) \/ Manager!ListingFails(request)
  PROVE  FilesInv'
<1>1. FilesSound(fm) /\ fm \in FilesRecord /\ request \in Manager!Listing
  BY DEF FilesInv, FilesSound, FilesRecord
<1>2. request.target \in Manager!Target /\ Manager!Resolved(request.path) \in Manager!Dirs
  BY <1>1, ResolvedIsThere DEF Manager!Listing, Paths
<1>3. fm.container # None
  BY <1>1 DEF FilesSound
<1> DEFINE a == Manager!Answered(request)
<1>4. /\ a \in FilesRecord /\ a.calls = fm.calls \ {request} /\ ~a.loading
      /\ a.pod = fm.pod /\ a.container = fm.container /\ a.list = fm.list
      /\ a.path = fm.path /\ a.ref = fm.ref
  BY <1>1 DEF Manager!Answered, FilesRecord
<1> HIDE DEF a
<1>5. Manager!TargetOf(a) = Manager!TargetOf(fm)
  BY <1>4 DEF Manager!TargetOf
<1>6. FilesSound(a) /\ (FilesAt(fm) => FilesAt(a))
  BY <1>1, <1>3, <1>4, <1>5 DEF FilesSound, FilesAt
<1> DEFINE path == Manager!Resolved(request.path)
           list == [target |-> request.target, path |-> path]
           s == [a EXCEPT !.path = path, !.list = list]
<1>7. s = Manager!Shows(a, request)
  BY Zenon DEF Manager!Shows
<1>8. list \in Listed /\ list.path = path /\ list.target = request.target /\ path \in Paths
  BY <1>2 DEF Listed, Paths
<1> HIDE DEF path, list
<1>9. /\ s \in FilesRecord /\ s.calls = a.calls /\ ~s.loading
      /\ s.pod = a.pod /\ s.container = a.container /\ s.list = list
      /\ s.path = path /\ s.ref = a.ref
  BY <1>4, <1>8 DEF FilesRecord
<1> HIDE DEF s
<1>10. Manager!TargetOf(s) = Manager!TargetOf(fm)
  BY <1>5, <1>9 DEF Manager!TargetOf
<1>11. FilesSound(s)
  BY <1>3, <1>4, <1>5, <1>6, <1>8, <1>9, <1>10 DEF FilesSound
<1>12. FilesAt(a) /\ request.target = Manager!TargetOf(fm) => FilesAt(s)
  BY <1>5, <1>8, <1>9, <1>10 DEF FilesAt
<1>13. \/ fm' = a
       \/ fm' = s /\ (request.op = "jump" \/ request.target = fm.ref)
  <2>1. CASE Manager!ListArrives(request)
    <3>1. fm' = IF request.target = fm.ref THEN s ELSE a
      BY <1>7, <2>1, Zenon DEF Manager!ListArrives, a
    <3> QED BY <3>1
  <2>2. CASE Manager!JumpArrives(request)
    <3>1. request.op = "jump" /\ fm' = IF Manager!Resolved(request.path) = fm.search THEN s ELSE a
      BY <1>7, <2>2, Zenon DEF Manager!JumpArrives, a
    <3> QED BY <3>1
  <2>3. CASE Manager!ListingFails(request)
    BY <2>3, Zenon DEF Manager!ListingFails, a
  <2> QED BY <2>1, <2>2, <2>3
<1>14. crossed' = crossed
  BY DEF Manager!ListArrives, Manager!JumpArrives, Manager!ListingFails
<1>15. FilesAt(fm) /\ (request.op = "jump" \/ request.target = fm.ref) => request.target = Manager!TargetOf(fm)
  BY <1>1, <1>3 DEF FilesSound, FilesAt
<1>16. CASE fm' = a
  BY <1>6, <1>14, <1>16 DEF FilesInv, FilesSound, FilesAt, Manager!TargetOf
<1>17. CASE fm' = s /\ (request.op = "jump" \/ request.target = fm.ref)
  BY <1>6, <1>11, <1>12, <1>14, <1>15, <1>17 DEF FilesInv, FilesSound, FilesAt, Manager!TargetOf
<1> QED BY <1>13, <1>16, <1>17

LEMMA FilesStep ==
  ASSUME FilesInv, Manager!FilesNext
  PROVE  FilesInv'
BY SelectsKeepFiles, JumpsKeepFiles, UploadsKeepFiles, ListingsKeepFiles DEF Manager!FilesNext

FilesPage == page = "files" => FilesInv

LEMMA FilesHold == Spec => []FilesPage
<1>1. Init => FilesPage
  BY FilesBegin DEF Init, FilesPage
<1>2. FilesPage /\ [Next]_vars => FilesPage'
  <2>1. CASE Next
    BY <2>1, FilesStep DEF Next, FilesPage
  <2>2. CASE UNCHANGED vars
    BY <2>2 DEF vars, files, FilesPage, FilesInv, FilesSound, FilesAt, Manager!TargetOf
  <2> QED BY <2>1, <2>2
<1> QED BY <1>1, <1>2, PTL DEF Spec

\* The files that are listed are those of the path in the header, and of the container that is
\* selected, for any pods, containers and directories, whatever is clicked while answers are
\* under way, unless the container changed while a jump was.
THEOREM FilesAreThere == Spec => []ShownFilesAreThere
<1>1. FilesPage => ShownFilesAreThere
  BY DEF FilesPage, FilesInv, FilesSound, FilesAt, ShownFilesAreThere, Manager!ShownFilesAreThere
<1> QED BY <1>1, FilesHold, PTL

-----------------------------------------------------------------------------
(***************************************************************************)
(* The profiling page and the run of the server (Profiles).                 *)
(***************************************************************************)
ProfilesRecord ==
    [pod : Pods, deps : {"checking", "ok", "missing"},
     profile : Profiling!Profile \cup {None}, spinning : BOOLEAN, showHistory : BOOLEAN,
     history : SUBSET Profiling!Profile, base : Profiling!Profile \cup {None},
     target : Profiling!Profile \cup {None},
     currentBase : Profiling!Profile \cup {None}, openModal : BOOLEAN, showDiff : BOOLEAN,
     view : Profiling!View \cup {None}, loadingDiff : BOOLEAN,
     lists : SUBSET Pods, diffs : SUBSET Profiling!Pair, stored : SUBSET Profiling!Profile]

\* A view that is gone waits for nothing, and what loads waits for an answer.
Awaits(p) ==
    /\ p.view = None => p.diffs = {}
    /\ p.loadingDiff => p.diffs # {}

\* One request for a difference at a time, and it is waited for.
OneDiff(p) ==
    /\ \A a, b \in p.diffs : a = b
    /\ p.diffs # {} => p.loadingDiff

\* Whoever goes on to report an error has met one, and an error that is the last word of the
\* goroutines is reported by the one that met it.
RunReports ==
    run # None =>
        /\ run.err => run.failed # {} /\ \E t \in Types : run.step[t] \in {"wrote", "returns", "bad"}
        /\ \A t \in Types : run.step[t] \in {"returns", "bad"} => run.failed # {}

ProfilesInv ==
    /\ pf \in ProfilesRecord /\ doubled \in BOOLEAN /\ (run = None \/ run \in Profiling!Run)
    /\ Awaits(pf)
    /\ ~doubled => OneDiff(pf)
    /\ pf.spinning => run # None
    /\ RunReports

LEMMA ViewedIsView ==
  ASSUME NEW p \in ProfilesRecord
  PROVE  /\ Profiling!Viewed(p) \in Profiling!View \cup {None}
         /\ Profiling!ShowsDiff(Profiling!Viewed(p)) => Profiling!Viewed(p) \in Profiling!Pair
<1>1. /\ p.base \in Profiling!Profile \cup {None} /\ p.target \in Profiling!Profile \cup {None}
      /\ p.profile \in Profiling!Profile \cup {None}
  BY DEF ProfilesRecord
<1>2. CASE Profiling!Viewed(p) = None
  BY <1>2 DEF Profiling!ShowsDiff
<1>3. CASE /\ p.base # None /\ p.target # None
           /\ Profiling!Viewed(p) = [base |-> p.base, target |-> p.target]
  BY <1>1, <1>3 DEF Profiling!View, Profiling!Pair
<1>4. CASE p.profile # None /\ Profiling!Viewed(p) = [url |-> p.profile]
  <2>1. DOMAIN [url |-> p.profile] = {"url"}
    OBVIOUS
  <2>2. ~ Profiling!ShowsDiff(Profiling!Viewed(p))
    BY <1>4, <2>1 DEF Profiling!ShowsDiff
  <2> QED BY <1>1, <1>4, <2>2 DEF Profiling!View
<1> QED BY <1>2, <1>3, <1>4 DEF Profiling!Viewed

\* It is enough to look at the page before it is rendered.
LEMMA ProfilesBecome ==
  ASSUME NEW p \in ProfilesRecord, Profiling!Become(p), doubled \in BOOLEAN,
         p.view = pf.view, p.diffs \subseteq pf.diffs, Awaits(p), ~doubled => OneDiff(p)
  PROVE  /\ pf' \in ProfilesRecord /\ doubled' \in BOOLEAN
         /\ Awaits(pf') /\ (~doubled' => OneDiff(pf'))
         /\ pf'.spinning = p.spinning
<1> DEFINE view == Profiling!Viewed(p)
           loading == IF None \in {view, p.view} THEN FALSE ELSE p.loadingDiff
           diffs == IF view = None THEN {} ELSE p.diffs
           q == [p EXCEPT !.view = view, !.loadingDiff = loading, !.diffs = diffs]
<1>1. /\ pf' = Profiling!Render(p)
      /\ doubled' = (pf'.view # None /\ (doubled \/ (Profiling!ShowsDiff(pf'.view)
                                                      /\ pf'.view # pf.view /\ pf.diffs # {})))
  BY DEF Profiling!Become
<1>2. doubled' \in BOOLEAN
  BY <1>1, Zenon
<1>3. view \in Profiling!View \cup {None} /\ (Profiling!ShowsDiff(view) => view \in Profiling!Pair)
  BY ViewedIsView
<1>4. Profiling!Render(p) = IF view = p.view THEN p
                            ELSE IF Profiling!ShowsDiff(view)
                            THEN [q EXCEPT !.loadingDiff = TRUE, !.diffs = @ \cup {q.view}] ELSE q
  BY DEF Profiling!Render, Profiling!RunProfilesDiff
<1> HIDE DEF view
<1>5. loading \in BOOLEAN /\ diffs \in SUBSET Profiling!Pair
  BY DEF ProfilesRecord
<1>6. CASE view = p.view
  <2>1. pf' = p
    BY <1>1, <1>4, <1>6
  <2> QED BY <1>1, <1>2, <2>1 DEF Awaits, OneDiff
<1>7. CASE view # p.view
  <2>1. (p.view = None => p.diffs = {}) /\ (p.loadingDiff => p.diffs # {})
    BY DEF Awaits
  <2>2. /\ diffs = {} \/ (diffs = p.diffs /\ view # None)
        /\ loading => diffs # {} /\ p.loadingDiff
        /\ p.loadingDiff /\ diffs # {} => loading
    BY <2>1
  <2> HIDE DEF loading, diffs
  <2>3. /\ q \in ProfilesRecord /\ q.view = view /\ q.loadingDiff = loading /\ q.diffs = diffs
        /\ q.spinning = p.spinning
    BY <1>3, <1>5 DEF ProfilesRecord
  <2> HIDE DEF q
  <2>4. CASE Profiling!ShowsDiff(view)
    <3>1. pf' = [q EXCEPT !.loadingDiff = TRUE, !.diffs = diffs \cup {view}]
      BY <1>1, <1>4, <1>7, <2>3, <2>4
    <3>2. diffs \cup {view} \in SUBSET Profiling!Pair
      BY <1>3, <1>5, <2>4
    <3> DEFINE new == diffs \cup {view}
    <3>3. new # {}
      OBVIOUS
    <3> HIDE DEF new
    <3>4. /\ pf' \in ProfilesRecord /\ pf'.view = view /\ pf'.loadingDiff = TRUE /\ pf'.diffs = new
          /\ pf'.spinning = p.spinning
      BY <2>3, <3>1, <3>2 DEF ProfilesRecord, new
    <3>5. view # None
      BY <2>4 DEF Profiling!ShowsDiff
    <3>6. ~doubled' => diffs = {}
      BY <1>1, <1>7, <2>2, <2>4, <3>4, <3>5
    <3>7. diffs = {} => \A a, b \in new : a = b
      BY DEF new
    <3> QED BY <1>2, <3>3, <3>4, <3>5, <3>6, <3>7 DEF Awaits, OneDiff
  <2>5. CASE ~ Profiling!ShowsDiff(view)
    <3>1. pf' = q
      BY <1>1, <1>4, <1>7, <2>5
    <3>2. ~doubled' /\ view # None => ~doubled
      BY <1>1, <2>3, <3>1
    <3>3. view = None => diffs = {}
      BY DEF diffs
    <3> QED BY <1>2, <2>2, <2>3, <3>1, <3>2, <3>3 DEF Awaits, OneDiff
  <2> QED BY <2>4, <2>5
<1> QED BY <1>6, <1>7

LEMMA ProfilesBegin ==
  ASSUME Profiling!ProfilesInit
  PROVE  ProfilesInv
<1>1. PICK pod \in Pods, deps \in {"checking", "ok"} :
        pf = [pod |-> pod, deps |-> deps, profile |-> None, spinning |-> FALSE, showHistory |-> FALSE,
              history |-> {}, base |-> None, target |-> None, currentBase |-> None, openModal |-> FALSE,
              showDiff |-> FALSE, view |-> None, loadingDiff |-> FALSE,
              lists |-> {}, diffs |-> {}, stored |-> {}]
  BY DEF Profiling!ProfilesInit
<1>2. pf \in ProfilesRecord
  BY <1>1 DEF ProfilesRecord
<1>3. pf.diffs = {} /\ pf.loadingDiff = FALSE /\ pf.spinning = FALSE
  BY <1>1
<1>4. run = None /\ doubled = FALSE
  BY DEF Profiling!ProfilesInit
<1> QED BY <1>2, <1>3, <1>4 DEF ProfilesInv, Awaits, OneDiff, RunReports

\* The page but for what is viewed and awaited.
Elsewhere(p) ==
    /\ p \in ProfilesRecord
    /\ p.view = pf.view /\ p.diffs = pf.diffs /\ p.loadingDiff = pf.loadingDiff
    /\ p.spinning = pf.spinning

LEMMA ElsewhereKeeps ==
  ASSUME ProfilesInv, NEW p, Elsewhere(p), Profiling!Become(p), run' = run
  PROVE  ProfilesInv'
<1>1. /\ p \in ProfilesRecord /\ p.view = pf.view /\ p.diffs \subseteq pf.diffs
      /\ Awaits(p) /\ (~doubled => OneDiff(p)) /\ p.spinning = pf.spinning /\ doubled \in BOOLEAN
  BY DEF Elsewhere, ProfilesInv, Awaits, OneDiff
<1>2. /\ pf' \in ProfilesRecord /\ doubled' \in BOOLEAN
      /\ Awaits(pf') /\ (~doubled' => OneDiff(pf')) /\ pf'.spinning = p.spinning
  BY <1>1, ProfilesBecome
<1> QED BY <1>1, <1>2 DEF ProfilesInv, Awaits, OneDiff, RunReports

LEMMA ShowHistoryElsewhere ==
  ASSUME NEW p, Elsewhere(p), NEW show \in BOOLEAN
  PROVE  Elsewhere(Profiling!SetShowHistory(p, show))
<1>1. Elsewhere([p EXCEPT !.showHistory = show, !.openModal = FALSE,
                          !.base = None, !.target = None, !.currentBase = None])
  BY DEF Elsewhere, ProfilesRecord
<1> QED BY <1>1 DEF Profiling!SetShowHistory

LEMMA UserKeepsProfiles ==
  ASSUME ProfilesInv,
         \/ \E pod \in Pods : Profiling!ChangePod(pod)
         \/ Profiling!ClickJumpHistory \/ Profiling!ClickJumpCreate \/ Profiling!CloseDiffModal
         \/ \E p \in pf.history : Profiling!ClickDetail(p) \/ Profiling!ClickDiff(p) \/ Profiling!ShowDiff(p)
         \/ \E pod \in pf.lists : Profiling!ListArrives(pod) \/ Profiling!ListFails(pod)
         \/ \E success \in BOOLEAN : Profiling!CheckArrives(success)
  PROVE  ProfilesInv'
<1>1. pf \in ProfilesRecord
  BY DEF ProfilesInv
<1>2. \A p \in pf.history : p \in Profiling!Profile
  BY <1>1 DEF ProfilesRecord
<1>3. CASE \E pod \in Pods : Profiling!ChangePod(pod)
  <2>1. PICK pod \in Pods : Profiling!ChangePod(pod)
    BY <1>3
  <2>2. Elsewhere([pf EXCEPT !.pod = pod])
    BY <1>1 DEF Elsewhere, ProfilesRecord
  <2> QED BY <2>1, <2>2, ElsewhereKeeps DEF Profiling!ChangePod
<1>4. CASE Profiling!ClickJumpHistory
  <2>1. Elsewhere([pf EXCEPT !.lists = @ \cup {pf.pod}])
    BY <1>1 DEF Elsewhere, ProfilesRecord
  <2> QED BY <1>4, <2>1, ElsewhereKeeps DEF Profiling!ClickJumpHistory
<1>5. CASE Profiling!ClickJumpCreate
  <2>1. Elsewhere(Profiling!ResetProfile(pf))
    BY <1>1 DEF Elsewhere, ProfilesRecord, Profiling!ResetProfile
  <2>2. Elsewhere(Profiling!SetShowHistory(Profiling!ResetProfile(pf), FALSE))
    BY <2>1, ShowHistoryElsewhere
  <2> QED BY <1>5, <2>2, ElsewhereKeeps DEF Profiling!ClickJumpCreate
<1>6. CASE Profiling!CloseDiffModal
  <2>1. Elsewhere([pf EXCEPT !.openModal = FALSE, !.currentBase = None])
    BY <1>1 DEF Elsewhere, ProfilesRecord
  <2> QED BY <1>6, <2>1, ElsewhereKeeps DEF Profiling!CloseDiffModal
<1>7. ASSUME NEW p \in pf.history, Profiling!ClickDetail(p)
      PROVE  ProfilesInv'
  <2> DEFINE q == [pf EXCEPT !.profile = p]
  <2>1. Elsewhere(q)
    BY <1>1, <1>2 DEF Elsewhere, ProfilesRecord
  <2> HIDE DEF q
  <2>2. Elsewhere(Profiling!HiddenDiff(q))
    BY <2>1 DEF Elsewhere, ProfilesRecord, Profiling!HiddenDiff
  <2>3. Profiling!Become(Profiling!HiddenDiff(q)) /\ run' = run
    BY <1>7 DEF Profiling!ClickDetail, q
  <2> QED BY <2>2, <2>3, ElsewhereKeeps
<1>8. ASSUME NEW p \in pf.history, Profiling!ClickDiff(p)
      PROVE  ProfilesInv'
  <2>1. Elsewhere([pf EXCEPT !.showDiff = TRUE, !.openModal = TRUE, !.currentBase = p])
    BY <1>1, <1>2 DEF Elsewhere, ProfilesRecord
  <2>2. Profiling!Become([pf EXCEPT !.showDiff = TRUE, !.openModal = TRUE, !.currentBase = p]) /\ run' = run
    BY <1>8, Zenon DEF Profiling!ClickDiff
  <2> QED BY <2>1, <2>2, ElsewhereKeeps, Zenon
<1>9. ASSUME NEW p \in pf.history, Profiling!ShowDiff(p)
      PROVE  ProfilesInv'
  <2>1. Elsewhere(Profiling!ShownDiff(pf, pf.currentBase, p))
    BY <1>1, <1>2 DEF Elsewhere, ProfilesRecord, Profiling!ShownDiff
  <2> QED BY <1>9, <2>1, ElsewhereKeeps DEF Profiling!ShowDiff
<1>10. ASSUME NEW pod \in pf.lists, Profiling!ListArrives(pod)
       PROVE  ProfilesInv'
  <2> DEFINE list == {p \in pf.stored : p.pod # None /\ WorkloadOf[p.pod] = WorkloadOf[pod]}
             q == [Profiling!ResetProfile(pf) EXCEPT !.lists = @ \ {pod}, !.history = list]
  <2>1. list \subseteq Profiling!Profile
    BY <1>1 DEF ProfilesRecord
  <2>2. Profiling!Become(Profiling!SetShowHistory(q, TRUE)) /\ run' = run
    BY <1>10, Zenon DEF Profiling!ListArrives
  <2>3. Elsewhere(Profiling!ResetProfile(pf))
    BY <1>1 DEF Elsewhere, ProfilesRecord, Profiling!ResetProfile
  <2> HIDE DEF list
  <2>4. Elsewhere(q)
    BY <2>1, <2>3 DEF Elsewhere, ProfilesRecord
  <2> HIDE DEF q
  <2>5. Elsewhere(Profiling!SetShowHistory(q, TRUE))
    BY <2>4, ShowHistoryElsewhere
  <2> QED BY <2>2, <2>5, ElsewhereKeeps
<1>11. ASSUME NEW pod \in pf.lists, Profiling!ListFails(pod)
       PROVE  ProfilesInv'
  <2>1. Elsewhere([pf EXCEPT !.lists = @ \ {pod}])
    BY <1>1 DEF Elsewhere, ProfilesRecord
  <2> QED BY <1>11, <2>1, ElsewhereKeeps DEF Profiling!ListFails
<1>12. ASSUME NEW success \in BOOLEAN, Profiling!CheckArrives(success)
       PROVE  ProfilesInv'
  <2>1. Elsewhere([pf EXCEPT !.deps = IF success THEN "ok" ELSE "missing"])
    BY <1>1 DEF Elsewhere, ProfilesRecord
  <2> QED BY <1>12, <2>1, ElsewhereKeeps DEF Profiling!CheckArrives
<1> QED BY <1>3, <1>4, <1>5, <1>6, <1>7, <1>8, <1>9, <1>10, <1>11, <1>12

\* The number of elements, as Profiles takes it from the library.
LEMMA ProfilesCardinality == \A S : Profiling!Cardinality(S) = Cardinality(S)
BY Zenon DEF Profiling!Cardinality, Cardinality

LEMMA SubmitKeepsProfiles ==
  ASSUME Profiling!ProfilesAssumption, ProfilesInv, NEW mode \in {"pod", "ip"}, Profiling!SubmitForm(mode)
  PROVE  ProfilesInv'
<1> DEFINE made == {p.ctime : p \in pf.stored}
           n == Profiling!Cardinality(made)
           profile == [pod |-> IF mode = "pod" THEN pf.pod ELSE None, ctime |-> n + 1]
           q == [pf EXCEPT !.spinning = TRUE]
<1>1. pf \in ProfilesRecord /\ doubled \in BOOLEAN /\ None \notin Pods /\ MaxProfiles \in Nat
  BY DEF ProfilesInv, Profiling!ProfilesAssumption
<1>2. /\ Profiling!Become(q) /\ n < MaxProfiles
      /\ run' = [profile |-> profile, err |-> FALSE, failed |-> {}, step |-> [t \in Types |-> "work"]]
  BY Zenon DEF Profiling!SubmitForm
<1>3. made \in SUBSET (1..MaxProfiles)
  BY <1>1 DEF ProfilesRecord, Profiling!Profile
<1>4. n \in Nat
  <2>1. IsFiniteSet(1..MaxProfiles)
    BY <1>1, FS_Interval
  <2> HIDE DEF made
  <2> QED BY <1>3, <2>1, FS_Subset, FS_CardinalityType, ProfilesCardinality
<1> HIDE DEF n, made
<1>5. profile \in Profiling!Profile
  BY <1>1, <1>2, <1>4 DEF ProfilesRecord, Profiling!Profile
<1> HIDE DEF profile
<1>6. run' \in Profiling!Run /\ run'.err = FALSE /\ \A t \in Types : run'.step[t] = "work"
  BY <1>2, <1>5 DEF Profiling!Run
<1>7. /\ q \in ProfilesRecord /\ q.view = pf.view /\ q.diffs = pf.diffs
      /\ q.loadingDiff = pf.loadingDiff
  BY <1>1 DEF ProfilesRecord
<1> HIDE DEF q
<1>8. Awaits(q) /\ (~doubled => OneDiff(q))
  BY <1>7 DEF ProfilesInv, Awaits, OneDiff
<1>9. /\ pf' \in ProfilesRecord /\ doubled' \in BOOLEAN
      /\ Awaits(pf') /\ (~doubled' => OneDiff(pf'))
  BY <1>1, <1>2, <1>7, <1>8, ProfilesBecome
<1>10. run' # None
  BY <1>6 DEF Profiling!ProfilesAssumption
<1> QED BY <1>6, <1>9, <1>10 DEF ProfilesInv, Awaits, OneDiff, RunReports

LEMMA RunKeepsProfiles ==
  ASSUME Profiling!ProfilesAssumption, ProfilesInv, NEW t \in Types,
         Profiling!Generate(t) \/ Profiling!TestErr(t) \/ Profiling!ReturnErr(t)
  PROVE  ProfilesInv'
<1>0. doubled' = doubled /\ run # None
  BY Zenon DEF Profiling!Generate, Profiling!TestErr, Profiling!ReturnErr
<1>1. /\ pf \in ProfilesRecord /\ doubled \in BOOLEAN /\ doubled' = doubled
      /\ run # None /\ run \in Profiling!Run /\ RunReports
      /\ \A r \in Profiling!Run : r # None
  BY <1>0 DEF ProfilesInv, Profiling!ProfilesAssumption
<1>2. /\ run.profile \in Profiling!Profile /\ run.err \in BOOLEAN /\ run.failed \subseteq Types
      /\ run.step \in [Types -> {"work", "wrote", "returns", "ok", "bad"}]
  BY <1>1 DEF Profiling!Run
<1>3. /\ run.err => run.failed # {} /\ \E u \in Types : run.step[u] \in {"wrote", "returns", "bad"}
      /\ \A u \in Types : run.step[u] \in {"returns", "bad"} => run.failed # {}
  BY <1>1 DEF RunReports
<1>4. ASSUME NEW step \in {"wrote", "returns", "ok", "bad"}, NEW err \in BOOLEAN, NEW failed \in SUBSET Types,
             run' \in Profiling!Run, run'.err = err, run'.failed = failed, run'.step[t] = step,
             \A u \in Types \ {t} : run'.step[u] = run.step[u],
             err => failed # {} /\ step \in {"wrote", "returns", "bad"},
             step \in {"returns", "bad"} => failed # {},
             run.failed \subseteq failed
      PROVE  RunReports'
  BY <1>3, <1>4 DEF RunReports
<1>5. ASSUME run' \in Profiling!Run, RunReports', pf' \in ProfilesRecord, pf'.view = pf.view,
             pf'.diffs = pf.diffs, pf'.loadingDiff = pf.loadingDiff
      PROVE  ProfilesInv'
  BY <1>1, <1>5 DEF ProfilesInv, Awaits, OneDiff
<1>6. CASE Profiling!Generate(t)
  <2>1. PICK fails \in BOOLEAN, failed \in SUBSET Types :
          /\ run' = [run EXCEPT !.step[t] = "wrote", !.err = fails, !.failed = failed]
          /\ run.failed \subseteq failed /\ (fails => failed # {})
          /\ \/ pf' = pf
             \/ pf' = [pf EXCEPT !.stored = @ \cup {run.profile}]
    <3>1. PICK fails \in BOOLEAN :
            /\ run' = [run EXCEPT !.step[t] = "wrote", !.err = fails,
                                  !.failed = IF fails THEN @ \cup {t} ELSE @]
            /\ pf' = IF fails \/ run.profile.pod = None THEN pf
                     ELSE [pf EXCEPT !.stored = @ \cup {run.profile}]
      BY <1>6, Zenon DEF Profiling!Generate
    <3> DEFINE failed == IF fails THEN run.failed \cup {t} ELSE run.failed
    <3>2. failed \in SUBSET Types /\ run.failed \subseteq failed /\ (fails => failed # {})
      BY <1>2
    <3>3. [run EXCEPT !.step[t] = "wrote", !.err = fails].failed = run.failed
      BY <1>1 DEF Profiling!Run
    <3>4. run' = [run EXCEPT !.step[t] = "wrote", !.err = fails, !.failed = failed]
      BY <3>1, <3>3, Zenon
    <3>5. pf' = pf \/ pf' = [pf EXCEPT !.stored = @ \cup {run.profile}]
      BY <3>1, Zenon
    <3> HIDE DEF failed
    <3> QED BY <3>2, <3>4, <3>5, Zenon
  <2>2. /\ run' \in Profiling!Run /\ run'.err = fails /\ run'.failed = failed
        /\ run'.step[t] = "wrote" /\ \A u \in Types \ {t} : run'.step[u] = run.step[u]
    BY <1>1, <2>1 DEF Profiling!Run
  <2>4. RunReports'
    BY <1>4, <2>1, <2>2
  <2>5. /\ pf' \in ProfilesRecord /\ pf'.view = pf.view
        /\ pf'.diffs = pf.diffs /\ pf'.loadingDiff = pf.loadingDiff
    <3>1. CASE pf' = pf
      BY <1>1, <3>1
    <3>2. CASE pf' = [pf EXCEPT !.stored = @ \cup {run.profile}]
      BY <1>1, <1>2, <3>2 DEF ProfilesRecord
    <3> QED BY <2>1, <3>1, <3>2
  <2> QED BY <1>5, <2>2, <2>4, <2>5
<1>7. CASE Profiling!TestErr(t) \/ Profiling!ReturnErr(t)
  <2>1. PICK step \in {"returns", "ok", "bad"} :
          /\ run' = [run EXCEPT !.step[t] = step]
          /\ run.err <=> step # "ok"
          /\ pf' = pf
    BY <1>7 DEF Profiling!TestErr, Profiling!ReturnErr
  <2>2. /\ run' \in Profiling!Run /\ run'.err = run.err /\ run'.failed = run.failed
        /\ run'.step[t] = step /\ \A u \in Types \ {t} : run'.step[u] = run.step[u]
    BY <1>1, <2>1 DEF Profiling!Run
  <2>4. RunReports'
    BY <1>2, <1>3, <1>4, <2>1, <2>2
  <2> QED BY <1>1, <1>5, <2>1, <2>2, <2>4
<1> QED BY <1>6, <1>7

LEMMA AnswersKeepProfiles ==
  ASSUME ProfilesInv,
         \/ Profiling!CreateArrives \/ Profiling!CreateFails
         \/ \E pair \in pf.diffs : Profiling!DiffArrives(pair)
  PROVE  ProfilesInv'
<1>1. pf \in ProfilesRecord /\ doubled \in BOOLEAN
  BY DEF ProfilesInv
<1>2. CASE Profiling!CreateArrives \/ Profiling!CreateFails
  <2>1. PICK profile \in Profiling!Profile \cup {None} :
          Profiling!Become([pf EXCEPT !.spinning = FALSE, !.profile = profile])
    <3>1. CASE Profiling!CreateArrives
      <4> DEFINE profile == IF Profiling!Erred THEN pf.profile ELSE run.profile
      <4>1. run # None
        BY <3>1 DEF Profiling!CreateArrives, Profiling!Ended
      <4>2. profile \in Profiling!Profile \cup {None}
        BY <1>1, <4>1 DEF ProfilesInv, ProfilesRecord, Profiling!Run
      <4>3. Profiling!Become([pf EXCEPT !.spinning = FALSE, !.profile = profile])
        BY <3>1, Zenon DEF Profiling!CreateArrives
      <4> HIDE DEF profile
      <4> QED BY <4>2, <4>3, Zenon
    <3>2. CASE Profiling!CreateFails
      <4>1. [pf EXCEPT !.spinning = FALSE] = [pf EXCEPT !.spinning = FALSE, !.profile = pf.profile]
        BY <1>1 DEF ProfilesRecord
      <4>2. pf.profile \in Profiling!Profile \cup {None}
        BY <1>1 DEF ProfilesRecord
      <4>3. Profiling!Become([pf EXCEPT !.spinning = FALSE, !.profile = pf.profile])
        BY <3>2, <4>1, Zenon DEF Profiling!CreateFails
      <4> QED BY <4>2, <4>3, Zenon
    <3> QED BY <1>2, <3>1, <3>2, Zenon
  <2> DEFINE q == [pf EXCEPT !.spinning = FALSE, !.profile = profile]
  <2>2. /\ q \in ProfilesRecord /\ q.view = pf.view /\ q.diffs = pf.diffs
        /\ q.loadingDiff = pf.loadingDiff /\ q.spinning = FALSE
    BY <1>1 DEF ProfilesRecord
  <2>3. Profiling!Become(q) /\ run' = None
    BY <1>2, <2>1, Zenon DEF Profiling!CreateArrives, Profiling!CreateFails
  <2> HIDE DEF q
  <2>4. Awaits(q) /\ (~doubled => OneDiff(q))
    BY <2>2 DEF ProfilesInv, Awaits, OneDiff
  <2>5. /\ pf' \in ProfilesRecord /\ doubled' \in BOOLEAN
        /\ Awaits(pf') /\ (~doubled' => OneDiff(pf')) /\ pf'.spinning = FALSE
    BY <1>1, <2>2, <2>3, <2>4, ProfilesBecome
  <2> QED BY <2>3, <2>5 DEF ProfilesInv, Awaits, OneDiff, RunReports
<1>3. ASSUME NEW pair \in pf.diffs, Profiling!DiffArrives(pair)
      PROVE  ProfilesInv'
  <2> DEFINE q == [pf EXCEPT !.diffs = @ \ {pair}, !.loadingDiff = FALSE]
  <2>1. Profiling!Become(q) /\ run' = run
    BY <1>3, Zenon DEF Profiling!DiffArrives
  <2>2. /\ q \in ProfilesRecord /\ q.view = pf.view /\ q.diffs = pf.diffs \ {pair}
        /\ q.loadingDiff = FALSE /\ q.spinning = pf.spinning
    BY <1>1 DEF ProfilesRecord
  <2> HIDE DEF q
  <2>3. Awaits(q) /\ (~doubled => OneDiff(q))
    BY <2>2 DEF ProfilesInv, Awaits, OneDiff
  <2>4. /\ pf' \in ProfilesRecord /\ doubled' \in BOOLEAN
        /\ Awaits(pf') /\ (~doubled' => OneDiff(pf')) /\ pf'.spinning = pf.spinning
    BY <1>1, <2>1, <2>2, <2>3, ProfilesBecome
  <2> QED BY <2>1, <2>4 DEF ProfilesInv, Awaits, OneDiff, RunReports
<1> QED BY <1>2, <1>3

LEMMA ProfilesStep ==
  ASSUME Profiling!ProfilesAssumption, ProfilesInv, Profiling!ProfilesNext
  PROVE  ProfilesInv'
BY UserKeepsProfiles, SubmitKeepsProfiles, RunKeepsProfiles, AnswersKeepProfiles DEF Profiling!ProfilesNext

ProfilesPage == page = "profiling" => ProfilesInv

LEMMA ProfilesHold == Spec => []ProfilesPage
<1>1. Init => ProfilesPage
  BY ProfilesBegin DEF Init, ProfilesPage
<1>2. ProfilesPage /\ [Next]_vars => ProfilesPage'
  <2>1. CASE Next
    BY <2>1, ProfilesAssumed, ProfilesStep DEF Next, ProfilesPage
  <2>2. CASE UNCHANGED vars
    BY <2>2 DEF vars, profiling, ProfilesPage, ProfilesInv, Awaits, OneDiff, RunReports
  <2> QED BY <2>1, <2>2
<1> QED BY <1>1, <1>2, PTL DEF Spec

\* What a run reports is what its goroutines met, for any number of types, in whatever order
\* they set, test and return the one error they share.
THEOREM RunErrorsAreReal == Spec => []RunErrorIsReal
<1>1. ProfilesPage => RunErrorIsReal
  BY DEF ProfilesPage, ProfilesInv, RunReports, RunErrorIsReal, Profiling!RunErrorIsReal,
         Profiling!Ended, Profiling!Erred
<1> QED BY <1>1, ProfilesHold, PTL

-----------------------------------------------------------------------------
(***************************************************************************)
(* The proxy page (PodProxy).                                               *)
(***************************************************************************)
ProxyRecord ==
    [pod : Pods, requestType : {"Headers", "Body"},
     rows : 1..MaxRows, newName : Int \cup {None},
     loading : BOOLEAN, waits : Nat, sent : 0..MaxSends, calls : SUBSET Sent,
     result : Sent \cup {None}, responseType : {"Headers", "Body"}, body : Body \cup {None}]

\* The number of the newest row is right, or nothing.
Counts(p) == p.newName \in {None, p.rows - 1}

\* The newest row is one of the last MaxRows, every timer was started by a request that was sent,
\* and what loads waits for a request or a timer.
Bounded(p) ==
    /\ p.newName # None => p.newName < p.rows /\ p.rows - p.newName <= MaxRows
    /\ IsFiniteSet(p.calls) /\ p.waits + Cardinality(p.calls) <= p.sent
    /\ p.loading => p.calls # {} \/ p.waits > 0

\* One request at a time: under way, waiting for its timer, or dealt with.
OneCall(p) ==
    /\ p.calls = {} => p.waits \in {0, 1} /\ (p.waits = 0 => ~p.loading) /\ (p.waits = 1 => p.loading)
    /\ p.calls # {} => p.waits = 0 /\ p.loading
    /\ \A c, d \in p.calls : c = d

\* What is formatted is the response.
Formatted(p) ==
    p.body # None /\ ~p.loading /\ p.result # None /\ p.body.formatValue # None
        => p.body.formatValue.of = p.result

\* A body is shown for a response that is there.
Shown(p) == p.body # None => ~p.loading /\ p.result # None

ProxyInv ==
    /\ px \in ProxyRecord /\ overlap \in BOOLEAN /\ regrown \in BOOLEAN
    /\ Shown(px) /\ Bounded(px)
    /\ ~regrown => Counts(px)
    /\ ~overlap => OneCall(px) /\ Formatted(px)

-----------------------------------------------------------------------------
(* Rendering.                                                                *)

LEMMA FreshBodyIsBody == FreshBody \in Body /\ FreshBody.formatValue = None
BY DEF FreshBody, Body, Pretty

LEMMA RenderKeeps ==
    ASSUME NEW p \in ProxyRecord
    PROVE  /\ Render(p) \in ProxyRecord
           /\ Shown(Render(p))
           /\ Bounded(p) => Bounded(Render(p))
           /\ Counts(p) => Counts(Render(p))
           /\ OneCall(p) => OneCall(Render(p))
           /\ Formatted(p) => Formatted(Render(p))
<1> DEFINE type == IF Responds(p) THEN p.responseType ELSE "Body"
           q == [p EXCEPT !.responseType = type]
           body == IF ~Responds(q) \/ q.responseType # "Body" THEN None
                   ELSE IF p.body = None THEN FreshBody ELSE p.body
           r == [q EXCEPT !.body = body]
<1>1. Render(p) = r
  BY DEF Render, ProxyRecord
<1>2. type \in {"Headers", "Body"} /\ p.body \in Body \cup {None}
  BY DEF ProxyRecord
<1>3. q \in ProxyRecord
  <2> HIDE DEF type
  <2> QED
    BY <1>2 DEF ProxyRecord
<1>4. body \in Body \cup {None}
  BY <1>2, FreshBodyIsBody
<1>5. r \in ProxyRecord
  <2> HIDE DEF body, q
  <2> QED
    BY <1>3, <1>4 DEF ProxyRecord
<1>6. /\ r.rows = p.rows /\ r.newName = p.newName /\ r.loading = p.loading /\ r.waits = p.waits
      /\ r.sent = p.sent /\ r.calls = p.calls /\ r.result = p.result /\ r.body = body
  <2> HIDE DEF body, type
  <2> QED
    BY DEF ProxyRecord
<1>7. q.loading = p.loading /\ q.result = p.result
  <2> HIDE DEF type
  <2> QED
    BY DEF ProxyRecord
<1>8. body # None => ~p.loading /\ p.result # None
  <2> HIDE DEF q
  <2> QED
    BY <1>7 DEF Responds
<1>9. body # None => body = FreshBody \/ (body = p.body /\ p.body # None)
  <2> HIDE DEF q
  <2> QED
    BY Zenon
<1> HIDE DEF r, body
<1>10. Shown(r)
  BY <1>6, <1>8 DEF Shown
<1>11. (Counts(p) => Counts(r)) /\ (Bounded(p) => Bounded(r))
  BY <1>6 DEF Counts, Bounded
<1>12. OneCall(p) => OneCall(r)
  BY <1>6 DEF OneCall
<1>13. Formatted(p) => Formatted(r)
  BY <1>6, <1>9, FreshBodyIsBody DEF Formatted
<1> QED
  BY <1>1, <1>5, <1>10, <1>11, <1>12, <1>13

\* It is enough to look at a step before it is rendered.
LEMMA BecomeKeeps ==
    ASSUME NEW p \in ProxyRecord, Become(p), overlap' \in BOOLEAN, regrown' \in BOOLEAN, Bounded(p),
           ~regrown' => Counts(p),
           ~overlap' => OneCall(p) /\ Formatted(p)
    PROVE  ProxyInv'
<1>1. px' = Render(p)
  BY DEF Become
<1>2. /\ px' \in ProxyRecord /\ Shown(px')
      /\ Bounded(p) => Bounded(px')
      /\ Counts(p) => Counts(px')
      /\ OneCall(p) => OneCall(px')
      /\ Formatted(p) => Formatted(px')
  BY <1>1, RenderKeeps
<1> QED
  BY <1>2 DEF ProxyInv, Shown, Bounded, Counts, OneCall, Formatted

-----------------------------------------------------------------------------
(* One step per action.                                                      *)

LEMMA Beginning ==
    ASSUME ProxyAssumption
    PROVE  ProxyInit => ProxyInv
<1> SUFFICES ASSUME ProxyInit
             PROVE  ProxyInv
  OBVIOUS
<1>1. PICK pod \in Pods :
        px = [pod |-> pod, requestType |-> "Body", rows |-> 1, newName |-> None, loading |-> FALSE,
              waits |-> 0, sent |-> 0, calls |-> {}, result |-> None, responseType |-> "Body", body |-> None]
  BY DEF ProxyInit
<1>2. 1 \in 1..MaxRows /\ 0 \in 0..MaxSends
  BY DEF ProxyAssumption
<1>3. px \in ProxyRecord
  BY <1>1, <1>2 DEF ProxyRecord
<1>4. Shown(px) /\ Counts(px) /\ OneCall(px) /\ Formatted(px)
  BY <1>1 DEF Shown, Counts, OneCall, Formatted
<1>5. Bounded(px)
  BY <1>1, FS_EmptySet DEF Bounded
<1> QED
  BY <1>3, <1>4, <1>5 DEF ProxyInit, ProxyInv

\* Another pod: the form is reset and there is no response any more.
LEMMA ChangePodKeeps ==
    ASSUME ProxyAssumption, ProxyInv, NEW pod \in Pods, ChangePod(pod)
    PROVE  ProxyInv'
<1> DEFINE p == ResetTab([px EXCEPT !.pod = pod])
<1>1. px \in ProxyRecord /\ 1 \in 1..MaxRows
  BY DEF ProxyInv, ProxyAssumption
<1>2. p = [px EXCEPT !.pod = pod, !.requestType = "Body", !.newName = None, !.result = None, !.rows = 1]
  BY <1>1 DEF ResetTab, SetRequestType, ProxyRecord
<1>3. Become(p) /\ regrown' = FALSE /\ overlap' = overlap
  BY DEF ChangePod
<1> HIDE DEF p
<1>4. p \in ProxyRecord
  BY <1>1, <1>2 DEF ProxyRecord
<1>5. /\ p.newName = None /\ p.loading = px.loading /\ p.waits = px.waits /\ p.calls = px.calls
      /\ p.result = None /\ p.sent = px.sent
  BY <1>1, <1>2 DEF ProxyRecord
<1>6. Counts(p) /\ (OneCall(px) => OneCall(p)) /\ Formatted(p) /\ Bounded(p)
  BY <1>5 DEF Counts, OneCall, Formatted, Bounded, ProxyInv
<1>7. overlap' \in BOOLEAN /\ regrown' \in BOOLEAN
  BY <1>3 DEF ProxyInv
<1> QED
  BY <1>3, <1>4, <1>6, <1>7, BecomeKeeps DEF ProxyInv

\* Whatever leaves the rows and the requests alone.
LEMMA FormKeeps ==
    ASSUME ProxyInv, NEW p \in ProxyRecord, Become(p), UNCHANGED <<overlap, regrown>>,
           p.rows = px.rows, p.newName = px.newName \/ p.newName = None,
           p.loading = px.loading, p.waits = px.waits, p.calls = px.calls, p.sent = px.sent,
           p.result = px.result, Formatted(px) => Formatted(p)
    PROVE  ProxyInv'
<1>1. (Counts(px) => Counts(p)) /\ (OneCall(px) => OneCall(p)) /\ Bounded(p)
  BY DEF Counts, OneCall, Bounded, ProxyInv
<1>2. overlap' = overlap /\ regrown' = regrown /\ overlap' \in BOOLEAN /\ regrown' \in BOOLEAN
  BY DEF ProxyInv
<1> QED
  BY <1>1, <1>2, BecomeKeeps DEF ProxyInv

LEMMA TabsKeep ==
    ASSUME ProxyInv, NEW type \in {"Headers", "Body"}, ChangeRequestType(type) \/ ChangeResponseType(type)
    PROVE  ProxyInv'
<1>1. px \in ProxyRecord
  BY DEF ProxyInv
<1>2. CASE ChangeRequestType(type)
  <2> DEFINE name == IF type = "Body" THEN None ELSE px.newName
             p == [px EXCEPT !.requestType = type, !.newName = name]
  <2>1. Become(p) /\ UNCHANGED <<overlap, regrown>>
    BY <1>1, <1>2 DEF ChangeRequestType, SetRequestType, ProxyRecord
  <2>2. name \in Int \cup {None} /\ (name = px.newName \/ name = None)
    BY <1>1 DEF ProxyRecord
  <2> HIDE DEF name
  <2>3. /\ p \in ProxyRecord
        /\ p.rows = px.rows /\ p.newName = name
        /\ p.loading = px.loading /\ p.waits = px.waits /\ p.calls = px.calls
        /\ p.sent = px.sent /\ p.result = px.result
        /\ p.body = px.body
    BY <1>1, <2>2 DEF ProxyRecord
  <2> HIDE DEF p
  <2>4. Formatted(px) => Formatted(p)
    BY <2>3 DEF Formatted
  <2> QED
    BY <2>1, <2>2, <2>3, <2>4, FormKeeps
<1>3. CASE ChangeResponseType(type)
  <2> DEFINE p == [px EXCEPT !.responseType = type]
  <2>1. Become(p) /\ UNCHANGED <<overlap, regrown>>
    BY <1>3 DEF ChangeResponseType
  <2>2. /\ p \in ProxyRecord
        /\ p.rows = px.rows /\ p.newName = px.newName
        /\ p.loading = px.loading /\ p.waits = px.waits /\ p.calls = px.calls
        /\ p.sent = px.sent /\ p.result = px.result
        /\ p.body = px.body
    BY <1>1 DEF ProxyRecord
  <2> HIDE DEF p
  <2>3. Formatted(px) => Formatted(p)
    BY <2>2 DEF Formatted
  <2> QED
    BY <2>1, <2>2, <2>3, FormKeeps
<1> QED
  BY <1>2, <1>3

\* The requests and the response are left alone, the rows are not.
LEMMA RowsKeep ==
    ASSUME ProxyInv, NEW p \in ProxyRecord, Become(p), overlap' = overlap, regrown' \in BOOLEAN,
           ~regrown' => Counts(p), Bounded(p),
           p.loading = px.loading, p.waits = px.waits, p.calls = px.calls, p.result = px.result,
           p.body = px.body
    PROVE  ProxyInv'
<1>1. (OneCall(px) => OneCall(p)) /\ (Formatted(px) => Formatted(p))
  BY DEF OneCall, Formatted
<1>2. overlap' \in BOOLEAN
  BY DEF ProxyInv
<1> QED
  BY <1>1, <1>2, BecomeKeeps DEF ProxyInv

LEMMA TypeHeaderKeeps ==
    ASSUME ProxyAssumption, ProxyInv, NEW name \in 0..(MaxRows - 1), TypeHeader(name)
    PROVE  ProxyInv'
<1>1. px \in ProxyRecord /\ px.rows \in 1..MaxRows /\ px.newName \in Int \cup {None}
  BY DEF ProxyInv, ProxyRecord
<1>2. px.rows < MaxRows /\ overlap' = overlap /\ regrown' = regrown /\ regrown' \in BOOLEAN
  BY DEF TypeHeader, ProxyInv
<1>3. CASE px.newName # None /\ px.newName # name
  <2>1. Become(px)
    BY <1>3 DEF TypeHeader
  <2> QED
    BY <1>1, <1>2, <2>1, RowsKeep DEF ProxyInv
<1>4. CASE px.newName = None \/ px.newName = name
  <2> DEFINE new == IF px.newName = None THEN px.rows ELSE px.newName + 1
             p == [px EXCEPT !.rows = px.rows + 1, !.newName = new]
  <2>1. Become(p)
    BY <1>4 DEF TypeHeader
  <2>2. new \in Int \cup {None} /\ px.rows + 1 \in 1..MaxRows
    BY <1>1, <1>2, <1>4 DEF ProxyAssumption
  <2>3. /\ Counts(px) => new = px.rows
        /\ new < px.rows + 1 /\ px.rows + 1 - new <= MaxRows
    BY <1>1, <1>4 DEF Counts, Bounded, ProxyInv, ProxyAssumption
  <2> HIDE DEF new
  <2>4. /\ p \in ProxyRecord
        /\ p.rows = px.rows + 1 /\ p.newName = new
        /\ p.loading = px.loading /\ p.waits = px.waits /\ p.calls = px.calls
        /\ p.sent = px.sent /\ p.result = px.result
        /\ p.body = px.body
    BY <1>1, <2>2 DEF ProxyRecord
  <2> HIDE DEF p
  <2>5. Counts(px) => Counts(p)
    BY <1>1, <2>3, <2>4 DEF Counts
  <2>6. Bounded(p)
    BY <1>1, <2>2, <2>3, <2>4 DEF Bounded, ProxyInv
  <2> QED
    BY <1>2, <2>1, <2>4, <2>5, <2>6, RowsKeep DEF ProxyInv
<1> QED
  BY <1>3, <1>4

LEMMA DeleteHeaderKeeps ==
    ASSUME ProxyAssumption, ProxyInv, DeleteHeader
    PROVE  ProxyInv'
<1> DEFINE new == IF px.newName = None THEN 0 ELSE px.newName - 1
           p == [px EXCEPT !.rows = px.rows - 1, !.newName = new]
<1>1. px \in ProxyRecord /\ px.rows \in 1..MaxRows /\ px.newName \in Int \cup {None} /\ px.rows > 1
  BY DEF ProxyInv, ProxyRecord, DeleteHeader, CanDeleteHeader
<1>2. Become(p)
  BY DEF DeleteHeader
<1>3. new \in Int /\ px.rows - 1 \in 1..MaxRows
  BY <1>1 DEF ProxyAssumption
<1>4. /\ Counts(px) /\ px.newName # None => new = px.rows - 2
      /\ new < px.rows - 1 /\ px.rows - 1 - new <= MaxRows
  BY <1>1 DEF Counts, Bounded, ProxyInv, ProxyAssumption
<1> HIDE DEF new
<1>5. /\ p \in ProxyRecord
      /\ p.rows = px.rows - 1 /\ p.newName = new
      /\ p.loading = px.loading /\ p.waits = px.waits /\ p.calls = px.calls
        /\ p.sent = px.sent /\ p.result = px.result
      /\ p.body = px.body
  BY <1>1, <1>3 DEF ProxyRecord
<1>6. regrown' = (regrown \/ px.newName = None) /\ overlap' = overlap
  BY DEF DeleteHeader
<1> HIDE DEF p
<1>7. Counts(px) /\ px.newName # None => Counts(p)
  BY <1>1, <1>4, <1>5 DEF Counts
<1>8. regrown' \in BOOLEAN /\ Bounded(p)
  BY <1>4, <1>5, <1>6 DEF Bounded, ProxyInv
<1>9. ~regrown' => Counts(p)
  BY <1>6, <1>7 DEF ProxyInv
<1> QED
  BY <1>2, <1>5, <1>6, <1>8, <1>9, RowsKeep

-----------------------------------------------------------------------------
(* The requests.                                                             *)

LEMMA SendKeeps ==
    ASSUME ProxyAssumption, ProxyInv, Send
    PROVE  ProxyInv'
<1> DEFINE request == [pod |-> px.pod, n |-> px.sent + 1]
           p == [px EXCEPT !.loading = TRUE, !.sent = px.sent + 1, !.calls = px.calls \cup {request}]
<1>1. px \in ProxyRecord /\ px.pod \in Pods /\ px.sent \in 0..MaxSends /\ px.calls \in SUBSET Sent
      /\ px.sent < MaxSends
  BY DEF ProxyInv, ProxyRecord, Send
<1>2. Become(p) /\ overlap' = (overlap \/ px.calls # {} \/ px.waits > 0) /\ regrown' = regrown
  BY DEF Send
<1>3. px.sent + 1 \in 1..MaxSends
  BY <1>1 DEF ProxyAssumption
<1>4. request \in Sent
  BY <1>1, <1>3 DEF Sent
<1>5. px.calls \cup {request} \in SUBSET Sent /\ px.sent + 1 \in 0..MaxSends
  BY <1>1, <1>3, <1>4
<1> HIDE DEF request
<1>6. /\ p \in ProxyRecord
      /\ p.rows = px.rows /\ p.newName = px.newName
      /\ p.loading = TRUE /\ p.waits = px.waits /\ p.calls = px.calls \cup {request}
      /\ p.sent = px.sent + 1
  BY <1>1, <1>5 DEF ProxyRecord
<1> HIDE DEF p
<1>7. ASSUME px.calls = {}, ~(px.waits > 0), OneCall(px)
      PROVE  OneCall(p)
  BY <1>6, <1>7 DEF OneCall
<1>8. Formatted(p) /\ (Counts(px) => Counts(p))
  BY <1>6 DEF Formatted, Counts
<1>9. overlap' \in BOOLEAN /\ regrown' \in BOOLEAN
  BY <1>2 DEF ProxyInv
<1>10. Bounded(p)
  <2>1. /\ IsFiniteSet(px.calls) /\ px.waits + Cardinality(px.calls) <= px.sent
        /\ px.newName # None => px.newName < px.rows /\ px.rows - px.newName <= MaxRows
    BY DEF ProxyInv, Bounded
  <2>2. /\ IsFiniteSet(px.calls \cup {request})
        /\ Cardinality(px.calls \cup {request}) \in {Cardinality(px.calls), Cardinality(px.calls) + 1}
    BY <2>1, FS_AddElement
  <2>3. Cardinality(px.calls) \in Nat /\ px.waits \in Nat
    BY <1>1, <2>1, FS_CardinalityType DEF ProxyRecord
  <2>4. px.waits + Cardinality(px.calls \cup {request}) <= px.sent + 1
    BY <1>1, <2>1, <2>2, <2>3
  <2>5. px.calls \cup {request} # {}
    OBVIOUS
  <2> QED
    BY <1>6, <2>1, <2>2, <2>4, <2>5 DEF Bounded
<1>11. ~overlap' => OneCall(p) /\ Formatted(p)
  BY <1>2, <1>7, <1>8 DEF ProxyInv
<1> QED
  BY <1>2, <1>6, <1>8, <1>9, <1>10, <1>11, BecomeKeeps DEF ProxyInv

LEMMA AnswerKeeps ==
    ASSUME ProxyAssumption, ProxyInv, NEW request \in px.calls, ResponseArrives(request) \/ RequestFails(request)
    PROVE  ProxyInv'
<1>1. px \in ProxyRecord /\ px.calls \in SUBSET Sent /\ px.waits \in Nat /\ px.result \in Sent \cup {None}
  BY DEF ProxyInv, ProxyRecord
<1>2. PICK result \in {px.result, request} :
        Become([px EXCEPT !.calls = px.calls \ {request}, !.waits = px.waits + 1, !.result = result])
  <2>1. CASE ResponseArrives(request)
    BY <2>1 DEF ResponseArrives
  <2>2. CASE RequestFails(request)
    <3>1. [px EXCEPT !.calls = px.calls \ {request}, !.waits = px.waits + 1]
           = [px EXCEPT !.calls = px.calls \ {request}, !.waits = px.waits + 1, !.result = px.result]
      BY <1>1 DEF ProxyRecord
    <3> QED
      BY <2>2, <3>1 DEF RequestFails
  <2> QED
    BY <2>1, <2>2
<1> DEFINE p == [px EXCEPT !.calls = px.calls \ {request}, !.waits = px.waits + 1, !.result = result]
<1>3. px.calls \ {request} \in SUBSET Sent /\ px.waits + 1 \in Nat /\ result \in Sent \cup {None}
  BY <1>1
<1>4. /\ p \in ProxyRecord
      /\ p.rows = px.rows /\ p.newName = px.newName
      /\ p.loading = px.loading /\ p.waits = px.waits + 1 /\ p.calls = px.calls \ {request}
      /\ p.sent = px.sent
  BY <1>1, <1>3 DEF ProxyRecord
<1>5. Become(p)
  BY <1>2
<1> HIDE DEF p
<1>6. ASSUME OneCall(px)
      PROVE  px.waits = 0 /\ px.loading /\ p.calls = {}
  BY <1>4, <1>6 DEF OneCall
<1>7. ASSUME OneCall(px)
      PROVE  OneCall(p) /\ Formatted(p)
  <2>1. p.waits = 1 /\ p.loading /\ p.calls = {}
    BY <1>4, <1>6, <1>7
  <2> QED
    BY <2>1 DEF OneCall, Formatted
<1>8. Counts(px) => Counts(p)
  BY <1>4 DEF Counts
<1>9. Bounded(p)
  <2>1. /\ IsFiniteSet(px.calls) /\ px.waits + Cardinality(px.calls) <= px.sent
        /\ px.newName # None => px.newName < px.rows /\ px.rows - px.newName <= MaxRows
    BY DEF ProxyInv, Bounded
  <2>2. /\ IsFiniteSet(px.calls \ {request})
        /\ Cardinality(px.calls \ {request}) = Cardinality(px.calls) - 1
    BY <2>1, FS_RemoveElement
  <2>3. Cardinality(px.calls) \in Nat /\ px.sent \in Nat
    BY <1>1, <2>1, FS_CardinalityType DEF ProxyRecord
  <2>4. px.waits + 1 + Cardinality(px.calls \ {request}) <= px.sent /\ px.waits + 1 > 0
    BY <1>1, <2>1, <2>2, <2>3
  <2> QED
    BY <1>4, <2>1, <2>2, <2>4 DEF Bounded
<1>10. overlap' = overlap /\ regrown' = regrown /\ overlap' \in BOOLEAN /\ regrown' \in BOOLEAN
  BY DEF ResponseArrives, RequestFails, ProxyInv
<1> QED
  BY <1>4, <1>5, <1>7, <1>8, <1>9, <1>10, BecomeKeeps DEF ProxyInv

LEMMA EndLoadingKeeps ==
    ASSUME ProxyInv, EndLoading
    PROVE  ProxyInv'
<1> DEFINE p == [px EXCEPT !.waits = px.waits - 1, !.loading = FALSE]
<1>1. px \in ProxyRecord /\ px.waits \in Nat /\ px.waits > 0
  BY DEF ProxyInv, ProxyRecord, EndLoading
<1>2. Become(p) /\ overlap' = overlap /\ regrown' = regrown
  BY DEF EndLoading
<1>3. px.waits - 1 \in Nat
  BY <1>1
<1>4. /\ p \in ProxyRecord
      /\ p.rows = px.rows /\ p.newName = px.newName
      /\ p.loading = FALSE /\ p.waits = px.waits - 1 /\ p.calls = px.calls /\ p.body = px.body
      /\ p.sent = px.sent
  BY <1>1, <1>3 DEF ProxyRecord
<1> HIDE DEF p
<1>5. ASSUME OneCall(px)
      PROVE  OneCall(p) /\ Formatted(p)
  <2>1. px.calls = {} /\ px.waits = 1 /\ px.loading
    BY <1>1, <1>5 DEF OneCall
  <2>2. px.body = None
    BY <2>1 DEF ProxyInv, Shown
  <2>3. p.calls = {} /\ p.waits = 0 /\ ~p.loading /\ p.body = None
    BY <1>4, <2>1, <2>2
  <2> QED
    BY <2>3 DEF OneCall, Formatted
<1>6. Counts(px) => Counts(p)
  BY <1>4 DEF Counts
<1>7. overlap' \in BOOLEAN /\ regrown' \in BOOLEAN
  BY <1>2 DEF ProxyInv
<1>8. Bounded(p)
  <2>1. IsFiniteSet(px.calls) /\ Cardinality(px.calls) \in Nat /\ px.sent \in Nat
    BY <1>1, FS_CardinalityType DEF ProxyInv, Bounded, ProxyRecord
  <2> QED
    BY <1>1, <1>4, <2>1 DEF Bounded, ProxyInv
<1> QED
  BY <1>2, <1>4, <1>5, <1>6, <1>7, <1>8, BecomeKeeps DEF ProxyInv

-----------------------------------------------------------------------------
(* The body of the response.                                                 *)

\* A body is as before, or has been formatted from what the editor shows.
LEMMA BodyKeeps ==
    ASSUME ProxyInv, px.body # None, NEW b \in Body, Become([px EXCEPT !.body = b]),
           UNCHANGED <<overlap, regrown>>,
           b.formatValue = px.body.formatValue \/ b.formatValue.of = EditorValue
    PROVE  ProxyInv'
<1> DEFINE p == [px EXCEPT !.body = b]
<1>1. px \in ProxyRecord
  BY DEF ProxyInv
<1>2. /\ p \in ProxyRecord
      /\ p.rows = px.rows /\ p.newName = px.newName
      /\ p.loading = px.loading /\ p.waits = px.waits /\ p.calls = px.calls
        /\ p.sent = px.sent /\ p.result = px.result
      /\ p.body = b
  BY <1>1 DEF ProxyRecord
<1>3. Become(p)
  OBVIOUS
<1> HIDE DEF p
<1>4. Formatted(px) => EditorValue = px.result
  BY DEF ProxyInv, Shown, Formatted, EditorValue
<1>5. Formatted(px) => Formatted(p)
  BY <1>2, <1>4 DEF ProxyInv, Shown, Formatted
<1> QED
  BY <1>2, <1>3, <1>5, FormKeeps

LEMMA BodyActionsKeep ==
    ASSUME ProxyInv,
           \/ \E type \in Pretty \cup {None} : MountEditor(type)
           \/ FormatDone
           \/ \E type \in {"pretty", "raw", "preview"} : ChangeBodyType(type)
           \/ \E type \in Pretty : ChangePrettyType(type)
    PROVE  ProxyInv'
<1> DEFINE b == px.body
<1>1. px.body # None /\ UNCHANGED <<overlap, regrown>>
  BY Zenon DEF MountEditor, FormatDone, ChangeBodyType, ChangePrettyType, CanChangePretty
<1>2. b \in Body /\ px \in ProxyRecord /\ px.result \in Sent
  BY <1>1 DEF ProxyInv, ProxyRecord, Shown
<1>3. ASSUME NEW type \in Pretty \cup {None}, MountEditor(type)
      PROVE  ProxyInv'
  <2> DEFINE pretty == PrettyOf(type)
             c == IF type = None THEN [b EXCEPT !.editor = TRUE]
                  ELSE [b EXCEPT !.editor = TRUE, !.prettyType = pretty,
                                 !.formatting = IF Formats(pretty) THEN pretty ELSE b.formatting]
  <2>1. pretty \in Pretty
    BY DEF PrettyOf, Pretty
  <2> HIDE DEF pretty
  <2>2. c \in Body /\ c.formatValue = b.formatValue
    BY <1>2, <2>1 DEF Body
  <2>3. Become([px EXCEPT !.body = c])
    BY <1>3, Zenon DEF MountEditor, pretty
  <2> HIDE DEF c
  <2> QED
    BY <1>1, <2>2, <2>3, BodyKeeps
<1>4. CASE FormatDone
  <2> DEFINE value == [of |-> EditorValue, prettyType |-> b.formatting]
             c == [b EXCEPT !.formatValue = value, !.formatting = None]
  <2>1. b.formatting \in Pretty
    BY <1>2, <1>4 DEF FormatDone, Body
  <2>2. EditorValue \in Sent
    <3>1. b.formatValue # None => b.formatValue.of \in Sent
      BY <1>2 DEF Body
    <3> QED
      BY <1>2, <3>1 DEF EditorValue
  <2>3. value \in [of : Sent, prettyType : Pretty] /\ value.of = EditorValue
    BY <2>1, <2>2
  <2>4. Become([px EXCEPT !.body = c])
    <3>1. [px EXCEPT !.body.formatValue = value, !.body.formatting = None] = [px EXCEPT !.body = c]
      BY <1>2 DEF ProxyRecord
    <3> QED
      BY <1>4, <3>1 DEF FormatDone
  <2> HIDE DEF value
  <2>5. c \in Body /\ c.formatValue = value
    BY <1>2, <2>3 DEF Body
  <2> HIDE DEF c
  <2> QED
    BY <1>1, <2>3, <2>4, <2>5, BodyKeeps
<1>5. ASSUME NEW type \in {"pretty", "raw", "preview"}, ChangeBodyType(type)
      PROVE  ProxyInv'
  <2> DEFINE shown == b.editor /\ type # "preview"
             c == [b EXCEPT !.bodyType = type, !.editor = shown,
                            !.formatting = IF type = "preview" THEN None ELSE b.formatting]
  <2>1. shown \in BOOLEAN
    BY <1>2 DEF Body
  <2>2. Become([px EXCEPT !.body = c])
    <3>1. [px EXCEPT !.body.bodyType = type, !.body.editor = px.body.editor /\ type # "preview",
                     !.body.formatting = IF type = "preview" THEN None ELSE px.body.formatting]
           = [px EXCEPT !.body = c]
      BY <1>2 DEF ProxyRecord, Body
    <3> QED
      BY <1>5, <3>1 DEF ChangeBodyType
  <2> HIDE DEF shown
  <2>3. c \in Body /\ c.formatValue = b.formatValue
    BY <1>2, <2>1 DEF Body
  <2> HIDE DEF c
  <2> QED
    BY <1>1, <2>2, <2>3, BodyKeeps
<1>6. ASSUME NEW type \in Pretty, ChangePrettyType(type)
      PROVE  ProxyInv'
  <2> DEFINE c == [b EXCEPT !.prettyType = type]
  <2>1. c \in Body /\ c.formatValue = b.formatValue
    BY <1>2 DEF Body
  <2>2. Become([px EXCEPT !.body = c])
    BY <1>2, <1>6 DEF ChangePrettyType, ProxyRecord
  <2> HIDE DEF c
  <2> QED
    BY <1>1, <2>1, <2>2, BodyKeeps
<1> QED
  BY <1>3, <1>4, <1>5, <1>6

\* The inductive invariant.
LEMMA ProxyInvHolds == Spec => []ProxyInv
<1>1. ProxyInit => ProxyInv
  BY ProxyAssumed, Beginning
<1>2. ProxyInv /\ [ProxyNext]_proxyVars => ProxyInv'
  <2> SUFFICES ASSUME ProxyInv, [ProxyNext]_proxyVars
               PROVE  ProxyInv'
    OBVIOUS
  <2>1. CASE \E pod \in Pods : ChangePod(pod)
    BY <2>1, ProxyAssumed, ChangePodKeeps
  <2>2. CASE \E type \in {"Headers", "Body"} : ChangeRequestType(type) \/ ChangeResponseType(type)
    BY <2>2, TabsKeep
  <2>3. CASE \E name \in 0..(MaxRows - 1) : TypeHeader(name)
    BY <2>3, ProxyAssumed, TypeHeaderKeeps
  <2>4. CASE DeleteHeader
    BY <2>4, ProxyAssumed, DeleteHeaderKeeps
  <2>5. CASE Send
    BY <2>5, ProxyAssumed, SendKeeps
  <2>6. CASE \E request \in px.calls : ResponseArrives(request) \/ RequestFails(request)
    BY <2>6, ProxyAssumed, AnswerKeeps
  <2>7. CASE EndLoading
    BY <2>7, EndLoadingKeeps
  <2>8. CASE \/ \E type \in Pretty \cup {None} : MountEditor(type)
             \/ FormatDone
             \/ \E type \in {"pretty", "raw", "preview"} : ChangeBodyType(type)
             \/ \E type \in Pretty : ChangePrettyType(type)
    BY <2>8, BodyActionsKeep
  <2>9. CASE UNCHANGED proxyVars
    BY <2>9 DEF proxyVars, ProxyInv, Shown, Bounded, Counts, OneCall, Formatted
  <2> QED
    BY <2>1, <2>2, <2>3, <2>4, <2>5, <2>6, <2>7, <2>8, <2>9 DEF ProxyNext
<1> QED
  <2>1. Init => ProxyInv
    BY <1>1 DEF Init
  <2>2. [Next]_vars => [ProxyNext]_proxyVars
    BY DEF Next, vars
  <2> QED
    BY <1>2, <2>1, <2>2, PTL DEF Spec

\* For any number of requests, in any order of answers, formatting and changes of view: a body that
\* is shown is that of the response, unless requests overlapped.
THEOREM BodiesAreOfResults == Spec => []BodyIsOfResult
<1>1. ProxyInv => BodyIsOfResult
  BY DEF ProxyInv, Shown, Formatted, BodyIsOfResult, EditorValue
<1> QED
  BY <1>1, ProxyInvHolds, PTL

\* For any number of headers: typing in the last one adds one, unless a header was deleted
\* before one was typed in a remounted form.
THEOREM HeadersGrow == Spec => []HeadersCanGrow
<1>1. ProxyInv => HeadersCanGrow
  BY DEF ProxyInv, Counts, HeadersCanGrow
<1> QED
  BY <1>1, ProxyInvHolds, PTL

\* A loading that nothing ends would wait for no request and no timer.
LEMMA ProxySpins == ProxyInv => ProxySpinnerEnds
BY DEF ProxyInv, Bounded, ProxySpinnerEnds

\* The type invariant, with the bounds that the model sets.
LEMMA ProxyTyped == ProxyInv => ProxyTypeOK
<1> SUFFICES ASSUME ProxyInv
             PROVE  ProxyTypeOK
  OBVIOUS
<1>1. /\ px \in ProxyRecord /\ px.newName \in Int \cup {None} /\ px.rows \in 1..MaxRows
      /\ px.waits \in Nat /\ px.sent \in 0..MaxSends
  BY DEF ProxyInv, ProxyRecord
<1>2. MaxRows \in Nat /\ MaxSends \in Nat
  BY ProxyAssumed DEF ProxyAssumption
<1>3. Cardinality(px.calls) \in Nat /\ px.waits + Cardinality(px.calls) <= px.sent
  BY FS_CardinalityType DEF ProxyInv, Bounded
<1>4. px.waits \in 0..MaxSends
  BY <1>1, <1>2, <1>3
<1>5. px.newName \in (-MaxRows)..MaxRows \cup {None}
  BY <1>1, <1>2 DEF ProxyInv, Bounded
<1> QED BY <1>1, <1>4, <1>5 DEF ProxyInv, ProxyTypeOK, ProxyRecord

-----------------------------------------------------------------------------
(***************************************************************************)
(* The downloads (Downloads).                                               *)
(***************************************************************************)
States == {"new", "dialog", "asked", "saving", "ended"}

Item == [file : Files \cup {None}, chosen : SaveFolders \cup {None}, state : States,
         path : Saving!Path \cup {None}]

\* The path a download is written to, or None.
PathOf(i) == dl.item[i].path

DownloadRecord == [selectPath : SaveFolders, disk : SUBSET Saving!Path, badgeCount : Int,
                   item : [Saving!Ids -> Item]]

DownloadsTyped ==
    /\ dl \in DownloadRecord /\ crowded \in BOOLEAN
    /\ \A i \in Saving!Ids :
        /\ dl.item[i].state \in {"dialog", "asked", "saving"} => dl.item[i].file \in Files
        /\ dl.item[i].state = "saving" <=> PathOf(i) # None /\ dl.item[i].state # "ended"
    /\ \A path \in dl.disk : \E i \in Saving!Ids : PathOf(i) = path

\* While no two downloads came too close: the folder that is kept is that of every download that
\* is not reported yet, and every download has a path of its own.
NotMixed ==
    /\ \A i \in Saving!Ids : dl.item[i].state = "asked" => dl.item[i].chosen = dl.selectPath
    /\ \A i \in Saving!Ids : PathOf(i) # None => PathOf(i).folder = dl.item[i].chosen
    /\ \A i, j \in Saving!Ids : i # j /\ PathOf(i) # None => PathOf(j) # PathOf(i)
    /\ \A i \in Saving!Ids : dl.item[i].state = "ended" /\ PathOf(i) # None => PathOf(i) \in dl.disk

SavingInv == DownloadsTyped /\ (~crowded => NotMixed)

\* The loop that counts the name up ends: there are fewer downloads than numbers to try.
LEMMA FreeIsFree ==
  ASSUME MaxDownloads \in Nat, DownloadsTyped, NEW i \in Saving!Ids, PathOf(i) = None,
         NEW folder, NEW f
  PROVE  /\ Saving!Free(folder, f) \in 0..MaxDownloads
         /\ [folder |-> folder, file |-> f, num |-> Saving!Free(folder, f)] \notin dl.disk
<1> DEFINE P(n) == [folder |-> folder, file |-> f, num |-> n]
           T == {n \in 0..MaxDownloads : P(n) \notin dl.disk}
<1>1. T # {}
  <2> SUFFICES ASSUME \A n \in 0..MaxDownloads : P(n) \in dl.disk PROVE FALSE
    OBVIOUS
  <2> DEFINE g == [n \in 0..MaxDownloads |-> CHOOSE j \in Saving!Ids : PathOf(j) = P(n)]
  <2>1. \A n \in 0..MaxDownloads : \E j \in Saving!Ids : PathOf(j) = P(n)
    <3> HIDE DEF P
    <3> QED BY DEF DownloadsTyped
  <2>2. \A n \in 0..MaxDownloads : g[n] \in Saving!Ids /\ PathOf(g[n]) = P(n)
    <3> HIDE DEF P
    <3> QED BY <2>1
  <2>3. g \in [0..MaxDownloads -> Saving!Ids]
    <3>1. g = [n \in 0..MaxDownloads |-> g[n]]
      OBVIOUS
    <3> HIDE DEF g
    <3> QED BY <2>2, <3>1
  <2>4. IsFiniteSet(0..MaxDownloads) /\ Cardinality(0..MaxDownloads) = MaxDownloads + 1
    BY FS_Interval
  <2>5. IsFiniteSet(Saving!Ids) /\ Cardinality(Saving!Ids) = MaxDownloads
    BY FS_Interval DEF Saving!Ids
  <2> HIDE DEF g
  <2>6. \E x, y \in 0..MaxDownloads : x # y /\ g[x] = g[y]
    BY <2>3, <2>4, <2>5, FS_PigeonHole
  <2>7. \A x, y \in 0..MaxDownloads : P(x) = P(y) => x = y
    <3> SUFFICES ASSUME NEW x, NEW y, P(x) = P(y) PROVE x = y
      OBVIOUS
    <3>1. P(x).num = x /\ P(y).num = y
      OBVIOUS
    <3> QED BY <3>1
  <2> HIDE DEF P
  <2> QED BY <2>2, <2>6, <2>7
<1>2. PICK m \in T : \A k \in T : ~ (k < m)
  <2>1. T \in SUBSET Nat
    <3>1. 0..MaxDownloads \subseteq Nat
      OBVIOUS
    <3> HIDE DEF P
    <3> QED BY <3>1
  <2> HIDE DEF T
  <2> QED BY <1>1, <2>1, LeastNumber
<1>3. m \in 0..MaxDownloads /\ P(m) \notin dl.disk /\ \A k \in 0..(m - 1) : P(k) \in dl.disk
  <2> HIDE DEF P
  <2> QED BY <1>2
<1>4. Saving!Free(folder, f) = CHOOSE n \in 0..MaxDownloads :
                                 P(n) \notin dl.disk /\ \A k \in 0..(n - 1) : P(k) \in dl.disk
  BY DEF Saving!Free
<1> HIDE DEF P
<1>5. Saving!Free(folder, f) \in 0..MaxDownloads /\ P(Saving!Free(folder, f)) \notin dl.disk
  BY <1>3, <1>4
<1> QED BY <1>5 DEF P

LEMMA SavingBegins ==
  ASSUME Saving!DownloadsAssumption, Saving!DownloadsInit
  PROVE  SavingInv
<1>1. PICK folder \in SaveFolders :
         dl = [selectPath |-> folder, disk |-> {}, badgeCount |-> 0,
               item |-> [i \in Saving!Ids |-> [file |-> None, chosen |-> None, state |-> "new", path |-> None]]]
  BY DEF Saving!DownloadsInit
<1>2. [file |-> None, chosen |-> None, state |-> "new", path |-> None] \in Item
  BY DEF Item, States
<1>3. dl \in DownloadRecord
  <2> HIDE DEF Item
  <2> QED BY <1>1, <1>2 DEF DownloadRecord
<1>4. /\ dl.disk = {} /\ crowded = FALSE
      /\ \A i \in Saving!Ids : dl.item[i].state = "new" /\ dl.item[i].path = None
  BY <1>1 DEF Saving!DownloadsInit
<1> QED BY <1>3, <1>4 DEF SavingInv, DownloadsTyped, NotMixed, PathOf

\* Of the downloads only i changed, and what it is now.
ItemBecomes(i, state, f, chosen, path) ==
    /\ dl' \in DownloadRecord
    /\ \A j \in Saving!Ids : j # i => dl'.item[j] = dl.item[j]
    /\ dl'.item[i].state = state /\ dl'.item[i].file = f
    /\ dl'.item[i].chosen = chosen /\ dl'.item[i].path = path

LEMMA SavingStep ==
  ASSUME Saving!DownloadsAssumption, SavingInv, Saving!DownloadsNext
  PROVE  SavingInv'
<1>0. MaxDownloads \in Nat /\ None \notin SaveFolders \cup Files /\ None \notin Saving!Path
  BY DEF Saving!DownloadsAssumption
<1>1. PICK i \in Saving!Ids :
          \/ \E f \in Files : Saving!Download(i, f)
          \/ \E folder \in SaveFolders \cup {None} : Saving!DialogAnswered(i, folder)
          \/ Saving!WillDownload(i) \/ Saving!FileAppears(i)
          \/ \E state \in {"completed", "failed"} : Saving!DownloadEnds(i, state)
  BY DEF Saving!DownloadsNext
<1>2. dl \in DownloadRecord /\ crowded \in BOOLEAN /\ DownloadsTyped
  BY DEF SavingInv, DownloadsTyped
<1>3. /\ dl.selectPath \in SaveFolders /\ dl.disk \subseteq Saving!Path /\ dl.badgeCount \in Int
      /\ dl.item \in [Saving!Ids -> Item] /\ dl.item[i] \in Item
  BY <1>2 DEF DownloadRecord
<1>4. /\ dl.item[i].file \in Files \cup {None} /\ dl.item[i].chosen \in SaveFolders \cup {None}
      /\ PathOf(i) \in Saving!Path \cup {None}
  BY <1>3 DEF Item, PathOf
<1>5. ~crowded => NotMixed
  BY DEF SavingInv
<1>6. CASE \E f \in Files : Saving!Download(i, f)
  <2>1. PICK f \in Files : Saving!Download(i, f)
    BY <1>6
  <2> DEFINE entry == [dl.item[i] EXCEPT !.state = "dialog", !.file = f]
  <2>2. /\ dl.item[i].state = "new" /\ crowded' = crowded
        /\ dl' = [dl EXCEPT !.item[i] = entry]
    BY <2>1 DEF Saving!Download
  <2>3. /\ ItemBecomes(i, "dialog", f, dl.item[i].chosen, PathOf(i))
        /\ dl'.selectPath = dl.selectPath /\ dl'.disk = dl.disk
    <3>1. /\ entry \in Item /\ entry.state = "dialog" /\ entry.file = f
          /\ entry.chosen = dl.item[i].chosen /\ entry.path = PathOf(i)
      BY <1>3 DEF Item, States, PathOf
    <3> HIDE DEF entry
    <3> QED BY <1>2, <2>2, <3>1 DEF DownloadRecord, ItemBecomes
  <2>4. PathOf(i) = None
    BY <1>2, <2>2 DEF DownloadsTyped
  <2>5. DownloadsTyped'
    BY <1>2, <2>2, <2>3, <2>4 DEF DownloadsTyped, ItemBecomes, PathOf
  <2>6. NotMixed => NotMixed'
    BY <1>2, <2>2, <2>3, <2>4 DEF NotMixed, ItemBecomes, PathOf
  <2> QED BY <1>5, <2>2, <2>5, <2>6 DEF SavingInv
<1>7. CASE \E folder \in SaveFolders \cup {None} : Saving!DialogAnswered(i, folder)
  <2>1. PICK folder \in SaveFolders \cup {None} : Saving!DialogAnswered(i, folder)
    BY <1>7
  <2>2. dl.item[i].state = "dialog"
    BY <2>1 DEF Saving!DialogAnswered
  <2>3. PathOf(i) = None
    BY <1>2, <2>2 DEF DownloadsTyped
  <2>4. CASE folder = None
    <3>1. dl' = [dl EXCEPT !.item[i].state = "ended"] /\ crowded' = crowded
      BY <2>1, <2>4 DEF Saving!DialogAnswered
    <3>2. /\ ItemBecomes(i, "ended", dl.item[i].file, dl.item[i].chosen, PathOf(i))
          /\ dl'.selectPath = dl.selectPath /\ dl'.disk = dl.disk
      BY <1>2, <3>1 DEF DownloadRecord, Item, States, ItemBecomes, PathOf
    <3>3. DownloadsTyped'
      BY <1>2, <2>3, <3>1, <3>2 DEF DownloadsTyped, ItemBecomes, PathOf
    <3>4. NotMixed => NotMixed'
      BY <1>2, <2>3, <3>2 DEF NotMixed, ItemBecomes, PathOf
    <3> QED BY <1>5, <3>1, <3>3, <3>4 DEF SavingInv
  <2>5. CASE folder # None
    <3> DEFINE entry == [dl.item[i] EXCEPT !.state = "asked", !.chosen = folder]
    <3>0. dl' = [dl EXCEPT !.selectPath = folder, !.item[i] = entry]
      BY <2>1, <2>5 DEF Saving!DialogAnswered
    <3>1. /\ crowded' = (crowded \/ \E j \in Saving!In("asked") : dl.item[j].chosen # folder)
          /\ folder \in SaveFolders
      BY <2>1, <2>5 DEF Saving!DialogAnswered
    <3>2. /\ ItemBecomes(i, "asked", dl.item[i].file, folder, PathOf(i))
          /\ dl'.selectPath = folder /\ dl'.disk = dl.disk
      <4>1. /\ entry \in Item /\ entry.state = "asked" /\ entry.file = dl.item[i].file
            /\ entry.chosen = folder /\ entry.path = PathOf(i)
        BY <1>3, <3>1 DEF Item, States, PathOf
      <4>2. folder \in SaveFolders
        BY <3>1
      <4> HIDE DEF entry
      <4> QED BY <1>2, <3>0, <4>1, <4>2 DEF DownloadRecord, ItemBecomes
    <3>3. DownloadsTyped'
      BY <1>2, <2>2, <2>3, <3>1, <3>2 DEF DownloadsTyped, ItemBecomes, PathOf
    <3>4. ~crowded' => \A j \in Saving!Ids : dl.item[j].state = "asked" => dl.item[j].chosen = folder
      BY <3>1 DEF Saving!In
    <3>5. NotMixed /\ ~crowded' => NotMixed'
      BY <1>2, <2>2, <2>3, <3>2, <3>4 DEF NotMixed, ItemBecomes, PathOf
    <3> QED BY <1>5, <3>1, <3>3, <3>5 DEF SavingInv
  <2> QED BY <2>4, <2>5
<1>8. CASE Saving!WillDownload(i)
  <2> DEFINE n == Saving!Free(dl.selectPath, dl.item[i].file)
             path == [folder |-> dl.selectPath, file |-> dl.item[i].file, num |-> n]
  <2> DEFINE entry == [dl.item[i] EXCEPT !.state = "saving", !.path = path]
  <2>0. dl' = [dl EXCEPT !.item[i] = entry, !.badgeCount = @ + 1]
    BY <1>8 DEF Saving!WillDownload
  <2>1. /\ dl.item[i].state = "asked"
        /\ crowded' = (crowded \/ \E j \in Saving!In("saving") : PathOf(j) = path)
    BY <1>8 DEF Saving!WillDownload, PathOf
  <2>2. dl.item[i].file \in Files /\ PathOf(i) = None
    BY <1>2, <2>1 DEF DownloadsTyped
  <2>3. n \in 0..MaxDownloads /\ path \notin dl.disk
    BY <1>0, <1>2, <2>2, FreeIsFree
  <2> HIDE DEF n
  <2>4. path.folder = dl.selectPath
    OBVIOUS
  <2>5. path \in Saving!Path /\ path # None
    BY <1>0, <1>3, <2>2, <2>3 DEF Saving!Path
  <2> HIDE DEF path
  <2>6. /\ ItemBecomes(i, "saving", dl.item[i].file, dl.item[i].chosen, path)
        /\ dl'.selectPath = dl.selectPath /\ dl'.disk = dl.disk
    <3>1. /\ entry \in Item /\ entry.state = "saving" /\ entry.file = dl.item[i].file
          /\ entry.chosen = dl.item[i].chosen /\ entry.path = path
      BY <1>3, <2>5 DEF Item, States
    <3>2. PICK count \in Int : count = dl.badgeCount + 1
      BY <1>3
    <3> HIDE DEF entry
    <3> QED BY <1>2, <2>0, <3>1, <3>2 DEF DownloadRecord, ItemBecomes
  <2>9. crowded' \in BOOLEAN
    BY <1>2, <2>1, Zenon
  <2>7. DownloadsTyped'
    BY <1>0, <1>2, <1>3, <2>1, <2>2, <2>5, <2>6, <2>9 DEF DownloadsTyped, ItemBecomes, PathOf
  <2>8. ASSUME NotMixed, ~crowded' PROVE NotMixed'
    <3>1. \A j \in Saving!Ids : dl.item[j].state = "saving" => PathOf(j) # path
      BY <2>1, <2>8 DEF Saving!In
    <3>2. \A j \in Saving!Ids : dl.item[j].state = "ended" => PathOf(j) # path
      BY <2>3, <2>5, <2>8 DEF NotMixed
    <3>3. \A j \in Saving!Ids : PathOf(j) # path
      BY <1>2, <2>5, <3>1, <3>2 DEF DownloadsTyped
    <3>4. dl.item[i].chosen = dl.selectPath
      BY <2>1, <2>8 DEF NotMixed
    <3> QED BY <2>2, <2>4, <2>6, <2>8, <3>3, <3>4 DEF NotMixed, ItemBecomes, PathOf
  <2> QED BY <1>5, <2>1, <2>7, <2>8 DEF SavingInv
<1>9. CASE Saving!FileAppears(i)
  <2>1. /\ dl.item[i].state = "saving" /\ crowded' = crowded
        /\ dl' = [dl EXCEPT !.disk = @ \cup {PathOf(i)}]
    BY <1>9 DEF Saving!FileAppears, PathOf
  <2>2. PathOf(i) \in Saving!Path
    BY <1>2, <1>4, <2>1 DEF DownloadsTyped
  <2>3. /\ dl' \in DownloadRecord /\ dl'.item = dl.item
        /\ dl'.selectPath = dl.selectPath /\ dl'.disk = dl.disk \cup {PathOf(i)}
    BY <1>2, <2>1, <2>2 DEF DownloadRecord
  <2>4. DownloadsTyped'
    BY <1>2, <2>1, <2>3 DEF DownloadsTyped, PathOf
  <2>5. NotMixed => NotMixed'
    BY <2>3 DEF NotMixed, PathOf
  <2> QED BY <1>5, <2>1, <2>4, <2>5 DEF SavingInv
<1>10. CASE \E state \in {"completed", "failed"} : Saving!DownloadEnds(i, state)
  <2>1. PICK state \in {"completed", "failed"} : Saving!DownloadEnds(i, state)
    BY <1>10
  <2>2. dl.item[i].state = "saving" /\ crowded' = crowded
    BY <2>1 DEF Saving!DownloadEnds
  <2>3. PathOf(i) \in Saving!Path /\ PathOf(i) # None
    BY <1>2, <1>4, <2>2 DEF DownloadsTyped
  <2>10. crowded' \in BOOLEAN
    BY <1>2, <2>2
  <2> DEFINE disk == IF state = "completed" THEN dl.disk ELSE dl.disk \ {PathOf(i)}
             path == IF state = "completed" THEN PathOf(i) ELSE None
  <2> DEFINE entry == [dl.item[i] EXCEPT !.state = "ended", !.path = path]
  <2>4. /\ dl' = [dl EXCEPT !.item[i] = entry, !.badgeCount = @ - 1, !.disk = disk]
        /\ state = "completed" => PathOf(i) \in dl.disk
    BY <2>1 DEF Saving!DownloadEnds, PathOf
  <2>5. disk \subseteq Saving!Path /\ path \in Saving!Path \cup {None}
    BY <1>3, <1>4
  <2>6. \/ disk = dl.disk /\ path = PathOf(i) /\ PathOf(i) \in dl.disk
        \/ disk = dl.disk \ {PathOf(i)} /\ path = None
    BY <2>4
  <2> HIDE DEF disk, path
  <2>7. /\ ItemBecomes(i, "ended", dl.item[i].file, dl.item[i].chosen, path)
        /\ dl'.selectPath = dl.selectPath /\ dl'.disk = disk
    <3>1. /\ entry \in Item /\ entry.state = "ended" /\ entry.file = dl.item[i].file
          /\ entry.chosen = dl.item[i].chosen /\ entry.path = path
      BY <1>3, <2>5 DEF Item, States
    <3> HIDE DEF entry
    <3>2. PICK item, n : item = [dl.item EXCEPT ![i] = entry] /\ n = dl.badgeCount - 1
      OBVIOUS
    <3>3. dl' = [dl EXCEPT !.item = item, !.badgeCount = n, !.disk = disk]
      BY <1>2, <2>4, <3>2 DEF DownloadRecord
    <3>4. item \in [Saving!Ids -> Item] /\ n \in Int
      BY <1>3, <3>1, <3>2
    <3>5. dl' \in DownloadRecord /\ dl'.item = item /\ dl'.selectPath = dl.selectPath /\ dl'.disk = disk
      BY <1>2, <2>5, <3>3, <3>4 DEF DownloadRecord
    <3> QED BY <1>3, <3>1, <3>2, <3>5 DEF ItemBecomes
  <2>8. DownloadsTyped'
    BY <1>0, <1>2, <2>2, <2>3, <2>6, <2>7 DEF DownloadsTyped, ItemBecomes, PathOf
  <2>9. NotMixed => NotMixed'
    BY <1>0, <2>2, <2>3, <2>6, <2>7 DEF NotMixed, ItemBecomes, PathOf
  <2> QED BY <1>5, <2>2, <2>8, <2>9 DEF SavingInv
<1> QED BY <1>1, <1>6, <1>7, <1>8, <1>9, <1>10

SavingPage == page = "saving" => SavingInv

LEMMA SavingHolds == Spec => []SavingPage
<1>1. Init => SavingPage
  BY DownloadsAssumed, SavingBegins DEF Init, SavingPage
<1>2. SavingPage /\ [Next]_vars => SavingPage'
  <2>1. CASE Next
    BY <2>1, DownloadsAssumed, SavingStep DEF Next, SavingPage
  <2>2. CASE UNCHANGED vars
    BY <2>2 DEF vars, saving, SavingPage, SavingInv, DownloadsTyped, NotMixed, PathOf
  <2> QED BY <2>1, <2>2
<1> QED BY <1>1, <1>2, PTL DEF Spec

\* A download is written where it was meant to be and to a file of its own, for any number of
\* downloads, folders and names, unless two came too close.
THEOREM DownloadsGoWhereChosen == Spec => []SavedWhereChosen
<1>1. SavingPage => SavedWhereChosen
  BY DEF SavingPage, SavingInv, NotMixed, PathOf, SavedWhereChosen, Saving!SavedWhereChosen
<1> QED BY <1>1, SavingHolds, PTL
-----------------------------------------------------------------------------
(***************************************************************************)
(* The shared transport (SharedTransport).                                  *)
(***************************************************************************)
Steps == {"new", "wrap", "do", "sent", "back", "failed", "done"}

CallRecord == [step : Steps, via : Seq(ProxyRequests), headers : Transport!Calls \cup {None}]

TransportTyped ==
    /\ chain \in Seq(ProxyRequests)
    /\ header \in [ProxyRequests -> Transport!Calls \cup {None}]
    /\ call \in [Transport!Calls -> CallRecord]
    /\ raced \subseteq ProxyRequests
    /\ late \subseteq ProxyRequests
    /\ \A c \in Transport!Calls : call[c].step \in {"wrap", "do"} => c \in ProxyRequests

\* The wrapper of r is among those of the sequence.
Wrapped(via, r) == \E i \in 1..Len(via) : via[i] = r

\* Between reading the transport and writing it a request that did not race is
\* alone; after that its wrapper is there, for the request itself and for all
\* that read the transport, until its response has passed it.
WrapperKept(r) ==
    /\ call[r].step = "wrap" =>
           \A q \in ProxyRequests : call[q].step = "wrap" => q = r
    /\ call[r].step = "do" =>
           /\ Wrapped(chain, r)
           /\ \A q \in ProxyRequests : call[q].step = "wrap" => Wrapped(call[q].via, r)
    /\ call[r].step = "sent" => Wrapped(call[r].via, r)
    /\ call[r].step = "back" => Wrapped(call[r].via, r) \/ header[r] = r \/ r \in late
    /\ call[r].step = "done" => r \in late \/ call[r].headers = r

TransportInv == TransportTyped /\ \A r \in ProxyRequests \ raced : WrapperKept(r)

LEMMA TransportBegins == Transport!TransportInit => TransportInv
<1> SUFFICES ASSUME Transport!TransportInit PROVE TransportInv
  OBVIOUS
<1>1. /\ chain = <<>> /\ raced = {} /\ late = {}
      /\ header = [r \in ProxyRequests |-> None]
      /\ call = [c \in Transport!Calls |-> [step |-> "new", via |-> <<>>, headers |-> None]]
  BY DEF Transport!TransportInit
<1>2. <<>> \in Seq(ProxyRequests)
  OBVIOUS
<1>3. [step |-> "new", via |-> <<>>, headers |-> None] \in CallRecord
  BY <1>2 DEF CallRecord, Steps
<1>4. TransportTyped
  BY <1>1, <1>2, <1>3 DEF TransportTyped
<1>5. \A c \in Transport!Calls : call[c].step = "new"
  BY <1>1
<1> QED
  BY <1>4, <1>5 DEF TransportInv, WrapperKept, Transport!Calls

LEMMA WrapPrepends ==
  ASSUME NEW via \in Seq(ProxyRequests), NEW r \in ProxyRequests
  PROVE  /\ <<r>> \o via \in Seq(ProxyRequests)
         /\ Wrapped(<<r>> \o via, r)
         /\ \A q \in ProxyRequests : Wrapped(via, q) => Wrapped(<<r>> \o via, q)
<1>1. /\ <<r>> \o via \in Seq(ProxyRequests)
      /\ Len(<<r>> \o via) = Len(via) + 1
      /\ (<<r>> \o via)[1] = r
      /\ \A i \in 1..Len(via) : (<<r>> \o via)[i + 1] = via[i]
  OBVIOUS
<1>2. Len(via) \in Nat
  OBVIOUS
<1>3. \A i \in 1..Len(via) : i + 1 \in 1..Len(<<r>> \o via)
  BY <1>1, <1>2
<1>4. 1 \in 1..Len(<<r>> \o via)
  BY <1>1, <1>2
<1> QED
  BY <1>1, <1>3, <1>4 DEF Wrapped

\* Without its last element a sequence still has all that is not the last one.
LEMMA PassedOne ==
  ASSUME NEW via \in Seq(ProxyRequests), Len(via) > 0
  PROVE  /\ SubSeq(via, 1, Len(via) - 1) \in Seq(ProxyRequests)
         /\ via[Len(via)] \in ProxyRequests
         /\ \A q \in ProxyRequests : Wrapped(via, q) /\ via[Len(via)] # q =>
                Wrapped(SubSeq(via, 1, Len(via) - 1), q)
<1> DEFINE rest == SubSeq(via, 1, Len(via) - 1)
<1>1. /\ rest \in Seq(ProxyRequests) /\ Len(rest) = Len(via) - 1
      /\ \A i \in 1..Len(via) - 1 : rest[i] = via[i]
      /\ via[Len(via)] \in ProxyRequests
      /\ Len(via) \in Nat
  <2>1. Len(via) \in Nat /\ \A i \in 1..Len(via) : via[i] \in ProxyRequests
    OBVIOUS
  <2>2. via[Len(via)] \in ProxyRequests
    BY <2>1
  <2>3. PICK n \in Nat : n = Len(via) - 1
    BY <2>1
  <2>4. n \in 0..Len(via) /\ \A i \in 1..n : via[i] \in ProxyRequests
    BY <2>1, <2>3
  <2>5. SubSeq(via, 1, n) = [i \in 1..n |-> via[i]]
    BY <2>4, SubSeqRestrict DEF Restrict
  <2>6. PICK all : all = [i \in 1..n |-> via[i]]
    OBVIOUS
  <2>7. all \in Seq(ProxyRequests) /\ Len(all) = n /\ \A i \in 1..n : all[i] = via[i]
    BY <2>4, <2>6
  <2>8. rest = all
    BY <2>3, <2>5, <2>6
  <2> HIDE DEF rest
  <2> QED BY <2>1, <2>2, <2>3, <2>7, <2>8
<1> HIDE DEF rest
<1>2. ASSUME NEW q \in ProxyRequests, Wrapped(via, q), via[Len(via)] # q
      PROVE  Wrapped(rest, q)
  <2> PICK i \in 1..Len(via) : via[i] = q
    BY <1>2 DEF Wrapped
  <2>1. i \in 1..Len(rest) /\ rest[i] = q
    BY <1>1, <1>2
  <2> QED
    BY <2>1 DEF Wrapped
<1> QED
  BY <1>1, <1>2 DEF rest

\* Of the calls only c changed, and what it is now.
Changed(c, step, via, headers) ==
    /\ call' \in [Transport!Calls -> CallRecord]
    /\ \A d \in Transport!Calls : d # c => call'[d] = call[d]
    /\ call'[c].step = step /\ call'[c].via = via /\ call'[c].headers = headers

LEMMA TransportStep ==
  ASSUME TransportInv, Transport!TransportNext
  PROVE  TransportInv'
<1>1. PICK c \in Transport!Calls :
          \/ Transport!Unwrapped(c) \/ Transport!Wrap(c) \/ Transport!Do(c)
          \/ Transport!Respond(c) \/ Transport!RoundTrip(c) \/ Transport!Answer(c)
  BY DEF Transport!TransportNext
<1>0. <<>> \in Seq(ProxyRequests)
  OBVIOUS
<1>2. /\ chain \in Seq(ProxyRequests)
      /\ header \in [ProxyRequests -> Transport!Calls \cup {None}]
      /\ call \in [Transport!Calls -> CallRecord]
      /\ raced \subseteq ProxyRequests /\ late \subseteq ProxyRequests
      /\ TransportTyped
  BY DEF TransportInv, TransportTyped
<1>3. /\ call[c] \in CallRecord /\ call[c].via \in Seq(ProxyRequests)
      /\ call[c].headers \in Transport!Calls \cup {None}
  BY <1>2 DEF CallRecord
<1>4. \A r \in ProxyRequests : r \in Transport!Calls
  BY DEF Transport!Calls
<1>5. \A r \in ProxyRequests \ raced : WrapperKept(r)
  BY DEF TransportInv
<1>6. CASE Transport!Unwrapped(c)
  <2>1. /\ c \in ProxyRequests /\ call[c].step = "new"
        /\ UNCHANGED <<chain, header, late>>
    BY <1>6 DEF Transport!Unwrapped
  <2>2. Changed(c, "wrap", chain, call[c].headers)
    BY <1>2, <1>3, <1>6 DEF Transport!Unwrapped, Changed, CallRecord, Steps
  <2>3. /\ raced \subseteq raced' /\ raced' \subseteq ProxyRequests
        /\ \A q \in ProxyRequests : call[q].step = "wrap" => q \in raced' /\ c \in raced'
    BY <1>2, <1>6 DEF Transport!Unwrapped
  <2>4. TransportTyped'
    BY <1>2, <2>1, <2>2, <2>3 DEF TransportTyped, Changed, Transport!Calls
  <2>5. ASSUME NEW r \in ProxyRequests \ raced' PROVE WrapperKept(r)'
    <3>1. CASE r = c
      BY <1>4, <2>2, <2>3, <3>1 DEF WrapperKept, Changed
    <3>2. CASE r # c
      <4>1. WrapperKept(r) /\ call'[r] = call[r]
        BY <1>4, <1>5, <2>2, <2>3, <3>2 DEF Changed
      <4>2. call[r].step # "wrap"
        BY <2>3
      <4>3. call[r].step = "do" =>
               \A q \in ProxyRequests : call'[q].step = "wrap" => Wrapped(call'[q].via, r)
        BY <1>4, <2>2, <4>1 DEF WrapperKept, Changed
      <4> QED BY <2>1, <4>1, <4>2, <4>3 DEF WrapperKept
    <3> QED BY <3>1, <3>2
  <2> QED BY <2>4, <2>5 DEF TransportInv
<1>7. CASE Transport!Wrap(c)
  <2>1. /\ call[c].step = "wrap" /\ chain' = <<c>> \o call[c].via
        /\ UNCHANGED <<header, raced, late>>
    BY <1>7 DEF Transport!Wrap
  <2>2. PICK none \in Seq(ProxyRequests) : none = <<>> /\ Changed(c, "do", none, call[c].headers)
    <3>1. PICK none : none = <<>> /\ none \in Seq(ProxyRequests)
      BY <1>0, Zenon
    <3>2. call' = [call EXCEPT ![c].step = "do", ![c].via = none]
      BY <1>7, <3>1 DEF Transport!Wrap
    <3>3. none \in Seq(ProxyRequests)
      BY <3>1, Zenon
    <3>4. Changed(c, "do", none, call[c].headers)
      BY <1>2, <1>3, <3>2, <3>3 DEF Changed, CallRecord, Steps
    <3> QED BY <3>1, <3>4
  <2>3. c \in ProxyRequests
    BY <1>2, <2>1 DEF TransportTyped
  <2>4. /\ chain' \in Seq(ProxyRequests)
        /\ Wrapped(chain', c)
        /\ \A q \in ProxyRequests : Wrapped(call[c].via, q) => Wrapped(chain', q)
    BY <1>3, <2>1, <2>3, WrapPrepends
  <2>5. TransportTyped'
    BY <1>2, <2>1, <2>2, <2>3, <2>4 DEF TransportTyped, Changed
  <2>6. ASSUME NEW r \in ProxyRequests \ raced PROVE WrapperKept(r)'
    <3>1. WrapperKept(r)
      BY <1>5
    <3>2. CASE r = c
      <4>1. \A q \in ProxyRequests : call'[q].step # "wrap"
        BY <1>4, <2>1, <2>2, <3>1, <3>2 DEF WrapperKept, Changed
      <4> QED BY <2>2, <2>4, <3>2, <4>1 DEF WrapperKept, Changed
    <3>3. CASE r # c
      <4>1. call[r].step # "wrap"
        BY <2>1, <2>3, <3>1, <3>3 DEF WrapperKept
      <4>2. call'[r] = call[r]
        BY <1>4, <2>2, <3>3 DEF Changed
      <4>3. call[r].step = "do" =>
               /\ Wrapped(chain', r)
               /\ \A q \in ProxyRequests : call'[q].step = "wrap" => Wrapped(call'[q].via, r)
        BY <1>4, <2>1, <2>2, <2>3, <2>4, <3>1 DEF WrapperKept, Changed
      <4> QED BY <2>1, <3>1, <4>1, <4>2, <4>3 DEF WrapperKept
    <3> QED BY <3>2, <3>3
  <2> QED BY <2>1, <2>5, <2>6 DEF TransportInv
\* From here on no call reads the transport to wrap it, or writes it.
<1>8. ASSUME NEW step, NEW via, NEW headers, Changed(c, step, via, headers),
             step \notin {"wrap", "do"}, call[c].step # "wrap",
             UNCHANGED <<chain, raced>>,
             header' \in [ProxyRequests -> Transport!Calls \cup {None}],
             late \subseteq late', late' \subseteq ProxyRequests,
             \A r \in ProxyRequests : r # c /\ header[r] = r => header'[r] = r \/ r \in late',
             c \in ProxyRequests \ raced =>
                 /\ step = "sent" => Wrapped(via, c)
                 /\ step = "back" => Wrapped(via, c) \/ header'[c] = c \/ c \in late'
                 /\ step = "done" => c \in late' \/ headers = c
      PROVE  TransportInv'
  <2>1. TransportTyped'
    BY <1>2, <1>8 DEF TransportTyped, Changed
  <2>2. \A q \in ProxyRequests : call'[q].step = "wrap" => call'[q] = call[q]
    BY <1>4, <1>8 DEF Changed
  <2>3. ASSUME NEW r \in ProxyRequests \ raced PROVE WrapperKept(r)'
    <3>1. CASE r = c
      BY <1>8, <3>1 DEF WrapperKept, Changed
    <3>2. CASE r # c
      <4>1. WrapperKept(r) /\ call'[r] = call[r]
        BY <1>4, <1>5, <1>8, <3>2 DEF Changed
      <4>2. call[r].step = "back" => Wrapped(call[r].via, r) \/ header'[r] = r \/ r \in late'
        BY <1>8, <3>2, <4>1 DEF WrapperKept
      <4>3. call[r].step = "wrap" => \A q \in ProxyRequests : call'[q].step = "wrap" => q = r
        BY <2>2, <4>1 DEF WrapperKept
      <4>4. call[r].step = "do" =>
               /\ Wrapped(chain, r)
               /\ \A q \in ProxyRequests : call'[q].step = "wrap" => Wrapped(call'[q].via, r)
        BY <2>2, <4>1 DEF WrapperKept
      <4>5. call[r].step = "done" => r \in late' \/ call[r].headers = r
        BY <1>8, <4>1 DEF WrapperKept
      <4>6. call[r].step = "sent" => Wrapped(call[r].via, r)
        BY <4>1 DEF WrapperKept
      <4> QED BY <1>8, <4>1, <4>2, <4>3, <4>4, <4>5, <4>6 DEF WrapperKept
    <3> QED BY <3>1, <3>2
  <2> QED BY <1>8, <2>1, <2>3 DEF TransportInv
<1>9. CASE Transport!Do(c)
  <2>1. /\ UNCHANGED <<chain, header, raced, late>>
        /\ call[c].step = IF c \in ProxyRequests THEN "do" ELSE "new"
    BY <1>9 DEF Transport!Do
  <2>2. Changed(c, "sent", chain, call[c].headers)
    BY <1>2, <1>3, <1>9 DEF Transport!Do, Changed, CallRecord, Steps
  <2>3. c \in ProxyRequests \ raced => Wrapped(chain, c)
    BY <1>5, <2>1 DEF WrapperKept
  <2> QED BY <1>2, <1>8, <2>1, <2>2, <2>3
<1>10. CASE Transport!Respond(c)
  <2>1. /\ call[c].step = "sent"
        /\ UNCHANGED <<chain, header, raced, late>>
    BY <1>10 DEF Transport!Respond
  <2>2. c \in ProxyRequests \ raced => Wrapped(call[c].via, c)
    BY <1>5, <2>1 DEF WrapperKept
  <2>3. \/ Changed(c, "back", call[c].via, call[c].headers)
        \/ \E none : Changed(c, "failed", none, call[c].headers)
    <3>1. CASE call' = [call EXCEPT ![c].step = "back"]
      BY <1>2, <1>3, <3>1 DEF Changed, CallRecord, Steps
    <3>2. CASE call' = [call EXCEPT ![c].step = "failed", ![c].via = <<>>]
      <4>1. PICK none : none = <<>> /\ none \in Seq(ProxyRequests)
        BY <1>0, Zenon
      <4>2. call' = [call EXCEPT ![c].step = "failed", ![c].via = none]
        BY <3>2, <4>1
      <4>3. none \in Seq(ProxyRequests)
        BY <4>1, Zenon
      <4>4. Changed(c, "failed", none, call[c].headers)
        BY <1>2, <1>3, <4>2, <4>3 DEF Changed, CallRecord, Steps
      <4> QED BY <4>4
    <3> QED BY <1>10, <3>1, <3>2 DEF Transport!Respond
  <2> QED BY <1>2, <1>8, <2>1, <2>2, <2>3
<1>11. CASE Transport!RoundTrip(c)
  <2> DEFINE via == call[c].via
             rest == SubSeq(via, 1, Len(via) - 1)
  <2>1. /\ call[c].step = "back" /\ Len(via) > 0
        /\ header' = [header EXCEPT ![via[Len(via)]] = c]
        /\ late' = IF c # via[Len(via)] /\ header[via[Len(via)]] = via[Len(via)]
                   THEN late \cup {via[Len(via)]} ELSE late
        /\ UNCHANGED <<chain, raced>>
        /\ call' = [call EXCEPT ![c].via = rest]
    BY <1>11 DEF Transport!RoundTrip
  <2>2. /\ rest \in Seq(ProxyRequests)
        /\ via[Len(via)] \in ProxyRequests
        /\ c \in ProxyRequests /\ Wrapped(via, c) /\ via[Len(via)] # c => Wrapped(rest, c)
    BY <1>3, <2>1, PassedOne
  <2>3. Changed(c, "back", rest, call[c].headers)
    <3> HIDE DEF rest, via
    <3> QED BY <1>2, <1>3, <2>1, <2>2 DEF Changed, CallRecord, Steps
  <2>4. c \in ProxyRequests \ raced => Wrapped(via, c) \/ header[c] = c \/ c \in late
    BY <1>5, <2>1 DEF WrapperKept
  <2>5. PICK r \in ProxyRequests : r = via[Len(via)]
    BY <2>2
  <2>6. /\ header' = [header EXCEPT ![r] = c]
        /\ late' = IF c # r /\ header[r] = r THEN late \cup {r} ELSE late
        /\ c \in ProxyRequests /\ Wrapped(via, c) /\ r # c => Wrapped(rest, c)
    BY <2>1, <2>2, <2>5
  <2> HIDE DEF rest, via
  <2>7. c \in ProxyRequests \ raced => Wrapped(rest, c) \/ header'[c] = c \/ c \in late'
    BY <1>2, <2>4, <2>6
  <2>8. /\ header' \in [ProxyRequests -> Transport!Calls \cup {None}]
        /\ late' \subseteq ProxyRequests /\ late \subseteq late'
        /\ \A q \in ProxyRequests : q # c /\ header[q] = q => header'[q] = q \/ q \in late'
    BY <1>2, <2>6
  <2> QED BY <1>8, <2>1, <2>3, <2>7, <2>8
<1>12. CASE Transport!Answer(c)
  <2>1. /\ call[c].step = "back" /\ call[c].via = <<>>
        /\ UNCHANGED <<chain, header, raced, late>>
    BY <1>12 DEF Transport!Answer
  <2>2. c \in ProxyRequests \ raced => header[c] = c \/ c \in late
    <3>1. ~ Wrapped(call[c].via, c)
      BY <2>1 DEF Wrapped
    <3> QED BY <1>5, <2>1, <3>1 DEF WrapperKept
  <2> DEFINE own == IF c \in ProxyRequests THEN header[c] ELSE c
  <2>3. own \in Transport!Calls \cup {None} /\ (c \in ProxyRequests => own = header[c])
    BY <1>2
  <2>4. \/ call' = [call EXCEPT ![c].step = "failed"]
        \/ call' = [call EXCEPT ![c].step = "done", ![c].headers = own]
    BY <1>12 DEF Transport!Answer
  <2> HIDE DEF own
  <2>5. \/ Changed(c, "failed", call[c].via, call[c].headers)
        \/ Changed(c, "done", call[c].via, own)
    <3>1. CASE call' = [call EXCEPT ![c].step = "failed"]
      BY <1>2, <1>3, <3>1 DEF Changed, CallRecord, Steps
    <3>2. CASE call' = [call EXCEPT ![c].step = "done", ![c].headers = own]
      BY <1>2, <1>3, <2>3, <3>2 DEF Changed, CallRecord, Steps
    <3> QED BY <2>4, <3>1, <3>2
  <2> QED BY <1>2, <1>8, <2>1, <2>2, <2>3, <2>5
<1> QED BY <1>1, <1>6, <1>7, <1>9, <1>10, <1>11, <1>12

TransportPage == page = "transport" => TransportInv

LEMMA TransportHolds == Spec => []TransportPage
<1>1. Init => TransportPage
  BY TransportBegins DEF Init, TransportPage
<1>2. TransportPage /\ [Next]_vars => TransportPage'
  <2>1. CASE Next
    BY <2>1, TransportStep DEF Next, TransportPage
  <2>2. CASE UNCHANGED vars
    BY <2>2 DEF vars, server, transport, TransportPage, TransportInv, TransportTyped, WrapperKept
  <2> QED BY <2>1, <2>2
<1> QED BY <1>1, <1>2, PTL DEF Spec

\* A request to the proxy is answered with the headers of its own response, however many calls
\* share the transport and its wrappers, unless it raced or a response came between.
THEOREM AnswersHaveOwnHeaders == Spec => []AnswersOwnHeaders
<1>1. TransportPage => AnswersOwnHeaders
  BY DEF TransportPage, TransportInv, WrapperKept, AnswersOwnHeaders, Transport!AnswersOwnHeaders
<1> QED BY <1>1, TransportHolds, PTL

-----------------------------------------------------------------------------
(***************************************************************************)
(* The diffs of the server (DiffCache).                                     *)
(***************************************************************************)
\* While a call whose pair never clashed has the working file of a type, no shell of another
\* call has it open: the file is empty until the call's shell writes, then holds its graph.
WorkingFileIsOwn ==
    \A d \in DiffRuns, type \in DiffTypes :
        \/ <<df[d].pair, type>> \in clashed
        \/ /\ making[d][<<type, "profile">>] = "shell" => tmpSvg[type] = {}
           /\ making[d][<<type, "profile">>] = "read" => tmpSvg[type] = {df[d].pair}
           /\ making[d][<<type, "profile">>] \in {"shell", "read"} =>
                 \A o \in DiffRuns : o # d => making[o][<<type, "profile">>] # "shell"

\* What a call is about to store is the graph of its pair.
HoldsOwn(d, g) == Diffing!Shared(df[d].pair, g) \/ svgData[d][g] = Diffing!GraphOf(df[d].pair, g)

CallsHoldOwn ==
    \A d \in DiffRuns, g \in Diffing!Graphs : making[d][g] \in {"put", "write"} => HoldsOwn(d, g)

\* A file never has a foreign graph, and if it is there and has none it is being written or was
\* given up.
FilesHoldOwn ==
    \A p \in DiffPairs, g \in Diffing!Graphs :
        \/ Diffing!Shared(p, g)
        \/ /\ file[p][g] \subseteq Diffing!GraphOf(p, g)
           /\ g \in svgs[p] => \/ file[p][g] = Diffing!GraphOf(p, g)
                               \/ <<p, g>> \in torn \/ Diffing!Writing(p, g)

\* A graph is written to a file that is there; a call that has answered found or made all files;
\* only a call that works makes graphs, but for the shells of one that died.
CallsMakeFiles ==
    \A d \in DiffRuns, g \in Diffing!Graphs :
        /\ df[d].step = "work" /\ making[d][g] \in {"write", "stored"} => g \in svgs[df[d].pair]
        /\ df[d].step = "ok" => g \in svgs[df[d].pair]
        /\ making[d][g] \in {"make", "read", "put", "write"} => df[d].step = "work"
        /\ making[d][g] = "shell" => df[d].step \in {"work", "failed"}

DiffInv ==
    /\ Diffing!DiffTypeOK
    /\ WorkingFileIsOwn /\ CallsHoldOwn /\ FilesHoldOwn /\ CallsMakeFiles

LEMMA DiffBegins ==
  ASSUME Diffing!DiffInit
  PROVE  DiffInv
<1>1. (CHOOSE p \in DiffPairs : TRUE) \in DiffPairs
  BY DiffAssumed DEF Diffing!DiffAssumption
<1>2. Diffing!DiffTypeOK
  BY <1>1 DEF Diffing!DiffInit, Diffing!DiffTypeOK, Diffing!Content
<1>3. /\ \A d \in DiffRuns : df[d].step = "new" /\ df[d].pair \in DiffPairs
      /\ \A d \in DiffRuns, g \in Diffing!Graphs : making[d][g] = "none"
      /\ \A p \in DiffPairs : svgs[p] = {}
      /\ \A p \in DiffPairs, g \in Diffing!Graphs : file[p][g] = {}
  BY <1>1 DEF Diffing!DiffInit
<1>4. \A type \in DiffTypes : <<type, "profile">> \in Diffing!Graphs
  BY DEF Diffing!Graphs
<1> QED BY <1>2, <1>3, <1>4 DEF DiffInv, WorkingFileIsOwn, CallsHoldOwn, FilesHoldOwn, CallsMakeFiles

\* A function of two arguments of which one value changes.
LEMMA OneValueChanges ==
  ASSUME NEW A, NEW B, NEW S, NEW F \in [A -> [B -> S]], NEW a \in A, NEW b \in B, NEW v \in S
  PROVE  LET H == [F EXCEPT ![a][b] = v] IN
         /\ H \in [A -> [B -> S]] /\ H[a][b] = v
         /\ \A x \in A, y \in B : x # a \/ y # b => H[x][y] = F[x][y]
OBVIOUS

MakingSteps == {"none", "make", "shell", "read", "put", "write", "stored", "failed"}

\* Only the goroutine of the graph g of the call d takes a step.
OnlyGraph(d, g, step) ==
    /\ making' \in [DiffRuns -> [Diffing!Graphs -> MakingSteps]] /\ making'[d][g] = step
    /\ \A o \in DiffRuns, h \in Diffing!Graphs : o # d \/ h # g => making'[o][h] = making[o][h]

LEMMA GraphBecomes ==
  ASSUME Diffing!DiffTypeOK, NEW d \in DiffRuns, NEW g \in Diffing!Graphs, NEW step \in MakingSteps,
         Diffing!Becomes(d, g, step)
  PROVE  OnlyGraph(d, g, step)
<1>1. making \in [DiffRuns -> [Diffing!Graphs -> MakingSteps]]
  BY DEF Diffing!DiffTypeOK, MakingSteps
<1> QED BY <1>1, OneValueChanges DEF Diffing!Becomes, OnlyGraph

\* A step of one goroutine that leaves the calls and the stored files alone: what it has to show
\* of its own graph.
LEMMA GraphKeepsFiles ==
  ASSUME DiffInv, Diffing!DiffTypeOK', NEW d \in DiffRuns, NEW g \in Diffing!Graphs, NEW step \in MakingSteps,
         OnlyGraph(d, g, step),
         UNCHANGED <<df, svgs, file>>, torn \subseteq torn', clashed \subseteq clashed',
         \A o \in DiffRuns, h \in Diffing!Graphs : o # d \/ h # g => svgData'[o][h] = svgData[o][h],
         making[d][g] = "write" => <<df[d].pair, g>> \in torn',
         \/ step \notin {"put", "write"}
         \/ svgData'[d][g] = Diffing!GraphOf(df[d].pair, g)
         \/ Diffing!Shared(df[d].pair, g),
         step \notin {"none", "make", "write", "stored"},
         step \in {"read", "put", "shell"} => df[d].step = "work",
         WorkingFileIsOwn'
  PROVE  DiffInv'
<1>1. CallsHoldOwn'
  <2> SUFFICES ASSUME NEW o \in DiffRuns, NEW h \in Diffing!Graphs, making'[o][h] \in {"put", "write"}
               PROVE  HoldsOwn(o, h)'
    BY DEF CallsHoldOwn
  <2>1. CASE o = d /\ h = g
    BY <2>1 DEF OnlyGraph, HoldsOwn, Diffing!Shared, Diffing!GraphOf
  <2>2. CASE o # d \/ h # g
    <3>1. HoldsOwn(o, h)
      BY <2>2 DEF OnlyGraph, DiffInv, CallsHoldOwn
    <3> QED BY <2>2, <3>1 DEF HoldsOwn, Diffing!Shared, Diffing!GraphOf
  <2> QED BY <2>1, <2>2
<1>2. FilesHoldOwn'
  <2> SUFFICES ASSUME NEW p \in DiffPairs, NEW h \in Diffing!Graphs
               PROVE  \/ Diffing!Shared(p, h)'
                      \/ /\ file[p][h] \subseteq Diffing!GraphOf(p, h)
                         /\ h \in svgs[p] => \/ file[p][h] = Diffing!GraphOf(p, h)
                                             \/ <<p, h>> \in torn' \/ Diffing!Writing(p, h)'
    BY DEF FilesHoldOwn, Diffing!GraphOf
  <2>1. Diffing!Writing(p, h) => Diffing!Writing(p, h)' \/ <<p, h>> \in torn'
    BY DEF Diffing!Writing, OnlyGraph
  <2>2. Diffing!Shared(p, h) => Diffing!Shared(p, h)'
    BY DEF Diffing!Shared
  <2> QED BY <2>1, <2>2 DEF DiffInv, FilesHoldOwn
<1>3. CallsMakeFiles'
  <2> SUFFICES ASSUME NEW o \in DiffRuns, NEW h \in Diffing!Graphs
               PROVE  /\ df[o].step = "work" /\ making'[o][h] \in {"write", "stored"} => h \in svgs[df[o].pair]
                      /\ df[o].step = "ok" => h \in svgs[df[o].pair]
                      /\ making'[o][h] \in {"make", "read", "put", "write"} => df[o].step = "work"
                      /\ making'[o][h] = "shell" => df[o].step \in {"work", "failed"}
    BY DEF CallsMakeFiles
  <2>1. CASE o = d /\ h = g
    BY <2>1 DEF OnlyGraph, DiffInv, CallsMakeFiles, MakingSteps
  <2>2. CASE o # d \/ h # g
    BY <2>2 DEF OnlyGraph, DiffInv, CallsMakeFiles
  <2> QED BY <2>1, <2>2
<1> QED BY <1>1, <1>2, <1>3 DEF DiffInv

\* The working files are left alone by a step in which calls only let go of them.
LEMMA CallsLetGo ==
  ASSUME WorkingFileIsOwn, UNCHANGED <<tmpSvg, clashed>>,
         \A o \in DiffRuns, g \in Diffing!Graphs :
            \/ making'[o][g] = making[o][g] /\ df'[o].pair = df[o].pair
            \/ making'[o][g] \notin {"shell", "read"}
  PROVE  WorkingFileIsOwn'
<1> SUFFICES ASSUME NEW o \in DiffRuns, NEW type \in DiffTypes, <<df'[o].pair, type>> \notin clashed
             PROVE  /\ making'[o][<<type, "profile">>] = "shell" => tmpSvg[type] = {}
                    /\ making'[o][<<type, "profile">>] = "read" => tmpSvg[type] = {df'[o].pair}
                    /\ making'[o][<<type, "profile">>] \in {"shell", "read"} =>
                          \A q \in DiffRuns : q # o => making'[q][<<type, "profile">>] # "shell"
  BY DEF WorkingFileIsOwn
<1>1. <<type, "profile">> \in Diffing!Graphs
  BY DEF Diffing!Graphs
<1>2. \A q \in DiffRuns :
        \/ making'[q][<<type, "profile">>] = making[q][<<type, "profile">>] /\ df'[q].pair = df[q].pair
        \/ making'[q][<<type, "profile">>] \notin {"shell", "read"}
  BY <1>1
<1> QED BY <1>2 DEF WorkingFileIsOwn

LEMMA WorkingFileStays ==
  ASSUME DiffInv, NEW d \in DiffRuns, NEW g \in Diffing!Graphs, NEW step, OnlyGraph(d, g, step),
         UNCHANGED <<df, tmpSvg, clashed>>, step \notin {"shell", "read"}
  PROVE  WorkingFileIsOwn'
<1>1. \A o \in DiffRuns, h \in Diffing!Graphs :
        \/ making'[o][h] = making[o][h] /\ df'[o].pair = df[o].pair
        \/ making'[o][h] \notin {"shell", "read"}
  BY DEF OnlyGraph
<1> QED BY <1>1, CallsLetGo DEF DiffInv

\* A step of the call d that makes no graph and leaves the files alone.
LEMMA CallMoves ==
  ASSUME DiffInv, Diffing!DiffTypeOK', NEW d \in DiffRuns,
         UNCHANGED <<svgData, svgs, file, tmpSvg, torn, clashed>>,
         \A o \in DiffRuns : o # d => df'[o] = df[o] /\ making'[o] = making[o],
         \A g \in Diffing!Graphs : making[d][g] # "write",
         \A g \in Diffing!Graphs : \/ making'[d][g] \in {"none", "stored", "failed"}
                                   \/ making'[d][g] = "make" /\ df'[d].step = "work"
                                   \/ making'[d][g] = making[d][g] /\ df'[d] = df[d],
         df'[d].step = "work" => \A g \in Diffing!Graphs : making'[d][g] # "stored",
         df'[d].step = "ok" => svgs[df'[d].pair] = Diffing!Graphs
  PROVE  DiffInv'
<1>1. \A o \in DiffRuns, g \in Diffing!Graphs :
        \/ making'[o][g] = making[o][g] /\ df'[o] = df[o]
        \/ making'[o][g] \in {"none", "make", "stored", "failed"}
  OBVIOUS
<1>2. WorkingFileIsOwn'
  BY <1>1, CallsLetGo DEF DiffInv
<1>3. CallsHoldOwn'
  <2> SUFFICES ASSUME NEW o \in DiffRuns, NEW g \in Diffing!Graphs, making'[o][g] \in {"put", "write"}
               PROVE  HoldsOwn(o, g)'
    BY DEF CallsHoldOwn
  <2>1. making'[o][g] = making[o][g] /\ df'[o] = df[o]
    BY <1>1
  <2>2. HoldsOwn(o, g)
    BY <2>1 DEF DiffInv, CallsHoldOwn
  <2> QED BY <2>1, <2>2 DEF HoldsOwn, Diffing!Shared, Diffing!GraphOf
<1>4. FilesHoldOwn'
  <2>1. \A p \in DiffPairs, g \in Diffing!Graphs : Diffing!Writing(p, g) => Diffing!Writing(p, g)'
    BY DEF Diffing!Writing
  <2> QED BY <2>1 DEF DiffInv, FilesHoldOwn, Diffing!Shared, Diffing!GraphOf
<1>5. CallsMakeFiles'
  BY DEF DiffInv, CallsMakeFiles
<1> QED BY <1>2, <1>3, <1>4, <1>5 DEF DiffInv

LEMMA DiffStarts ==
  ASSUME DiffInv, NEW d \in DiffRuns, Diffing!Start(d)
  PROVE  DiffInv'
<1>1. Diffing!DiffTypeOK
  BY DEF DiffInv
<1>2. PICK p \in DiffPairs, step \in {"ok", "work", "failed"} :
        /\ df[d].step = "new" /\ UNCHANGED <<svgData, svgs, file, tmpSvg, torn, clashed>>
        /\ df' = [df EXCEPT ![d] = [step |-> step, pair |-> p]]
        /\ step = "ok" => svgs[p] = Diffing!Graphs
        /\ making' = IF step = "work" THEN [making EXCEPT ![d] = [g \in Diffing!Graphs |-> "make"]] ELSE making
  BY Zenon DEF Diffing!Start
<1>3. /\ df' \in [DiffRuns -> [step : {"new", "work", "ok", "failed"}, pair : DiffPairs]]
      /\ df'[d].step = step /\ df'[d].pair = p
      /\ \A o \in DiffRuns : o # d => df'[o] = df[o]
  BY <1>1, <1>2 DEF Diffing!DiffTypeOK
<1>4. making \in [DiffRuns -> [Diffing!Graphs -> MakingSteps]]
  BY <1>1 DEF Diffing!DiffTypeOK, MakingSteps
<1>5. /\ making' \in [DiffRuns -> [Diffing!Graphs -> MakingSteps]]
      /\ \A o \in DiffRuns : o # d => making'[o] = making[o]
      /\ \A g \in Diffing!Graphs : making'[d][g] = IF step = "work" THEN "make" ELSE making[d][g]
  BY <1>2, <1>4 DEF MakingSteps
<1>6. Diffing!DiffTypeOK'
  BY <1>1, <1>2, <1>3, <1>5 DEF Diffing!DiffTypeOK, MakingSteps
<1>7. \A g \in Diffing!Graphs : making[d][g] \in {"none", "stored", "failed"}
  BY <1>2, <1>4 DEF DiffInv, CallsMakeFiles, MakingSteps
<1> QED BY <1>2, <1>3, <1>5, <1>6, <1>7, CallMoves

LEMMA DiffFinishes ==
  ASSUME DiffInv, NEW d \in DiffRuns, Diffing!Finish(d)
  PROVE  DiffInv'
<1>1. Diffing!DiffTypeOK
  BY DEF DiffInv
<1> DEFINE step == IF \E g \in Diffing!Graphs : making[d][g] = "failed" THEN "failed" ELSE "ok"
<1>2. /\ df[d].step = "work" /\ \A g \in Diffing!Graphs : making[d][g] \in {"stored", "failed"}
      /\ df' = [df EXCEPT ![d].step = step]
      /\ UNCHANGED <<making, svgData, svgs, file, tmpSvg, torn, clashed>>
  BY DEF Diffing!Finish
<1>3. step \in {"failed", "ok"} /\ (step = "ok" => \A g \in Diffing!Graphs : making[d][g] = "stored")
  BY <1>2
<1> HIDE DEF step
<1>4. /\ df' \in [DiffRuns -> [step : {"new", "work", "ok", "failed"}, pair : DiffPairs]]
      /\ df'[d].step = step /\ df'[d].pair = df[d].pair
      /\ \A o \in DiffRuns : o # d => df'[o] = df[o]
  BY <1>1, <1>2, <1>3 DEF Diffing!DiffTypeOK
<1>5. Diffing!DiffTypeOK'
  BY <1>1, <1>2, <1>4 DEF Diffing!DiffTypeOK
<1>6. step = "ok" => svgs[df[d].pair] = Diffing!Graphs
  <2>1. svgs[df[d].pair] \subseteq Diffing!Graphs
    BY <1>1 DEF Diffing!DiffTypeOK
  <2>2. step = "ok" => \A g \in Diffing!Graphs : g \in svgs[df[d].pair]
    BY <1>2, <1>3 DEF DiffInv, CallsMakeFiles
  <2> QED BY <2>1, <2>2
<1> QED BY <1>2, <1>3, <1>4, <1>5, <1>6, CallMoves

LEMMA DiffTypeFails ==
  ASSUME DiffInv, NEW d \in DiffRuns, NEW type \in DiffTypes, Diffing!TypeFails(d, type)
  PROVE  DiffInv'
<1>1. Diffing!DiffTypeOK
  BY DEF DiffInv
<1> DEFINE both == {type} \X {"flame", "profile"}
           steps == [g \in Diffing!Graphs |-> IF g \in both THEN "failed" ELSE making[d][g]]
<1>2. /\ \A g \in both : making[d][g] = "make"
      /\ making' = [making EXCEPT ![d] = steps]
      /\ UNCHANGED <<df, svgData, svgs, file, tmpSvg, torn, clashed>>
  BY DEF Diffing!TypeFails
<1>3. making \in [DiffRuns -> [Diffing!Graphs -> MakingSteps]]
  BY <1>1 DEF Diffing!DiffTypeOK, MakingSteps
<1>4. /\ steps \in [Diffing!Graphs -> MakingSteps]
      /\ \A g \in Diffing!Graphs : \/ steps[g] = making[d][g]
                                   \/ steps[g] = "failed" /\ making[d][g] = "make"
  BY <1>2, <1>3 DEF MakingSteps
<1> HIDE DEF steps
<1>5. /\ making' \in [DiffRuns -> [Diffing!Graphs -> MakingSteps]] /\ making'[d] = steps
      /\ \A o \in DiffRuns : o # d => making'[o] = making[o]
  BY <1>2, <1>3, <1>4
<1>6. Diffing!DiffTypeOK'
  BY <1>1, <1>2, <1>5 DEF Diffing!DiffTypeOK, MakingSteps
<1>7. WorkingFileIsOwn' /\ CallsHoldOwn' /\ CallsMakeFiles'
  <2>1. \A o \in DiffRuns, g \in Diffing!Graphs : making'[o][g] = making[o][g] \/ making'[o][g] = "failed"
    BY <1>4, <1>5
  <2>2. WorkingFileIsOwn'
    BY <1>2, <2>1, CallsLetGo DEF DiffInv
  <2>3. CallsHoldOwn'
    <3> SUFFICES ASSUME NEW o \in DiffRuns, NEW g \in Diffing!Graphs, making'[o][g] \in {"put", "write"}
                 PROVE  HoldsOwn(o, g)'
      BY DEF CallsHoldOwn
    <3>1. HoldsOwn(o, g)
      BY <2>1 DEF DiffInv, CallsHoldOwn
    <3> QED BY <1>2, <3>1 DEF HoldsOwn, Diffing!Shared, Diffing!GraphOf
  <2>4. CallsMakeFiles'
    BY <1>2, <2>1 DEF DiffInv, CallsMakeFiles
  <2> QED BY <2>2, <2>3, <2>4
<1>8. FilesHoldOwn'
  <2>1. \A p \in DiffPairs, g \in Diffing!Graphs : Diffing!Writing(p, g) => Diffing!Writing(p, g)'
    BY <1>2, <1>4, <1>5 DEF Diffing!Writing
  <2> QED BY <1>2, <2>1 DEF DiffInv, FilesHoldOwn, Diffing!Shared, Diffing!GraphOf
<1> QED BY <1>6, <1>7, <1>8 DEF DiffInv

LEMMA DiffPuts ==
  ASSUME DiffInv, NEW d \in DiffRuns, NEW g \in Diffing!Graphs, Diffing!PutGraph(d, g)
  PROVE  DiffInv'
<1>1. Diffing!DiffTypeOK
  BY DEF DiffInv
<1> DEFINE p == df[d].pair
<1>2. p \in DiffPairs
  BY <1>1 DEF Diffing!DiffTypeOK
<1>3. UNCHANGED <<df, tmpSvg, torn, clashed>> /\ making[d][g] \in {"put", "write"}
  BY DEF Diffing!PutGraph
<1>4. df[d].step = "work" /\ (Diffing!Shared(p, g) \/ svgData[d][g] = Diffing!GraphOf(p, g))
  BY <1>3 DEF DiffInv, CallsMakeFiles, CallsHoldOwn, HoldsOwn
<1>5. CASE making[d][g] = "put"
  <2>1. /\ Diffing!Becomes(d, g, "write")
        /\ svgs' = [svgs EXCEPT ![p] = @ \cup {g}]
        /\ UNCHANGED <<df, svgData, file, tmpSvg, torn, clashed>>
    BY <1>5 DEF Diffing!PutGraph
  <2> HIDE DEF p
  <2>2. OnlyGraph(d, g, "write")
    BY <1>1, <2>1, GraphBecomes DEF MakingSteps
  <2>3. /\ svgs' \in [DiffPairs -> SUBSET Diffing!Graphs] /\ svgs'[p] = svgs[p] \cup {g}
        /\ \A q \in DiffPairs : q # p => svgs'[q] = svgs[q]
    BY <1>1, <1>2, <2>1 DEF Diffing!DiffTypeOK
  <2>4. Diffing!DiffTypeOK'
    BY <1>1, <2>1, <2>2, <2>3 DEF Diffing!DiffTypeOK, OnlyGraph, MakingSteps
  <2>5. WorkingFileIsOwn'
    BY <2>1, <2>2, WorkingFileStays
  <2>6. CallsHoldOwn'
    <3> SUFFICES ASSUME NEW o \in DiffRuns, NEW h \in Diffing!Graphs, making'[o][h] \in {"put", "write"}
                 PROVE  HoldsOwn(o, h)'
      BY DEF CallsHoldOwn
    <3>1. making[o][h] \in {"put", "write"}
      BY <1>3, <2>2 DEF OnlyGraph
    <3>2. HoldsOwn(o, h)
      BY <3>1 DEF DiffInv, CallsHoldOwn
    <3> QED BY <2>1, <3>2 DEF HoldsOwn, Diffing!Shared, Diffing!GraphOf
  <2>7. FilesHoldOwn'
    <3> SUFFICES ASSUME NEW q \in DiffPairs, NEW h \in Diffing!Graphs
                 PROVE  \/ Diffing!Shared(q, h)
                        \/ /\ file[q][h] \subseteq Diffing!GraphOf(q, h)
                           /\ h \in svgs'[q] => \/ file[q][h] = Diffing!GraphOf(q, h)
                                                \/ <<q, h>> \in torn \/ Diffing!Writing(q, h)'
      BY <2>1 DEF FilesHoldOwn, Diffing!GraphOf, Diffing!Shared
    <3>1. Diffing!Writing(q, h) => Diffing!Writing(q, h)'
      BY <2>1, <2>2 DEF Diffing!Writing, OnlyGraph
    <3>2. q = p /\ h = g => Diffing!Writing(q, h)'
      BY <2>1, <2>2 DEF Diffing!Writing, OnlyGraph, p
    <3>3. h \in svgs'[q] => h \in svgs[q] \/ (q = p /\ h = g)
      BY <2>3
    <3> QED BY <3>1, <3>2, <3>3 DEF DiffInv, FilesHoldOwn
  <2>8. CallsMakeFiles'
    <3> SUFFICES ASSUME NEW o \in DiffRuns, NEW h \in Diffing!Graphs
                 PROVE  /\ df[o].step = "work" /\ making'[o][h] \in {"write", "stored"} => h \in svgs'[df[o].pair]
                        /\ df[o].step = "ok" => h \in svgs'[df[o].pair]
                        /\ making'[o][h] \in {"make", "read", "put", "write"} => df[o].step = "work"
                        /\ making'[o][h] = "shell" => df[o].step \in {"work", "failed"}
      BY <2>1 DEF CallsMakeFiles
    <3>1. df[o].pair \in DiffPairs
      BY <1>1 DEF Diffing!DiffTypeOK
    <3>2. h \in svgs[df[o].pair] => h \in svgs'[df[o].pair]
      BY <2>3, <3>1
    <3>3. CASE o = d /\ h = g
      BY <1>4, <2>2, <2>3, <3>3 DEF OnlyGraph, p
    <3>4. CASE o # d \/ h # g
      BY <2>2, <3>2, <3>4 DEF OnlyGraph, DiffInv, CallsMakeFiles
    <3> QED BY <3>3, <3>4
  <2> QED BY <2>4, <2>5, <2>6, <2>7, <2>8 DEF DiffInv
<1>6. CASE making[d][g] = "write"
  <2>1. /\ Diffing!Becomes(d, g, "stored")
        /\ svgData' = [svgData EXCEPT ![d][g] = {}]
        /\ UNCHANGED <<df, svgs, tmpSvg, torn, clashed>>
    BY <1>6 DEF Diffing!PutGraph
  <2>2. PICK tail \in {{}, file[p][g]} :
          /\ svgData[d][g] = {} => tail = file[p][g]
          /\ file' = [file EXCEPT ![p][g] = svgData[d][g] \cup tail]
    BY <1>6 DEF Diffing!PutGraph
  <2> DEFINE content == svgData[d][g] \cup tail
  <2> HIDE DEF p
  <2>3. OnlyGraph(d, g, "stored")
    BY <1>1, <2>1, GraphBecomes DEF MakingSteps
  <2>4. /\ file' \in [DiffPairs -> [Diffing!Graphs -> Diffing!Content]] /\ file'[p][g] = content
        /\ \A q \in DiffPairs, h \in Diffing!Graphs : q # p \/ h # g => file'[q][h] = file[q][h]
    <3>1. content \in Diffing!Content /\ file \in [DiffPairs -> [Diffing!Graphs -> Diffing!Content]]
      BY <1>1, <1>2 DEF Diffing!DiffTypeOK, Diffing!Content
    <3> QED BY <1>2, <2>2, <3>1, OneValueChanges
  <2>5. /\ svgData' \in [DiffRuns -> [Diffing!Graphs -> Diffing!Content]]
        /\ \A o \in DiffRuns, h \in Diffing!Graphs : o # d \/ h # g => svgData'[o][h] = svgData[o][h]
    <3>1. {} \in Diffing!Content /\ svgData \in [DiffRuns -> [Diffing!Graphs -> Diffing!Content]]
      BY <1>1 DEF Diffing!DiffTypeOK, Diffing!Content
    <3> QED BY <2>1, <3>1, OneValueChanges
  <2>6. Diffing!DiffTypeOK'
    BY <1>1, <2>1, <2>3, <2>4, <2>5 DEF Diffing!DiffTypeOK, OnlyGraph, MakingSteps
  <2>7. WorkingFileIsOwn'
    BY <2>1, <2>3, WorkingFileStays
  <2>8. CallsHoldOwn'
    <3> SUFFICES ASSUME NEW o \in DiffRuns, NEW h \in Diffing!Graphs, making'[o][h] \in {"put", "write"}
                 PROVE  HoldsOwn(o, h)'
      BY DEF CallsHoldOwn
    <3>1. (o # d \/ h # g) /\ making[o][h] \in {"put", "write"}
      BY <2>3 DEF OnlyGraph
    <3>2. HoldsOwn(o, h) /\ svgData'[o][h] = svgData[o][h]
      BY <2>5, <3>1 DEF DiffInv, CallsHoldOwn
    <3> QED BY <2>1, <3>2 DEF HoldsOwn, Diffing!Shared, Diffing!GraphOf
  <2>9. Diffing!Shared(p, g) \/ file'[p][g] = Diffing!GraphOf(p, g)
    <3>1. Diffing!Shared(p, g) \/ file[p][g] \subseteq Diffing!GraphOf(p, g)
      BY <1>2 DEF DiffInv, FilesHoldOwn
    <3>2. tail \subseteq file[p][g]
      OBVIOUS
    <3> QED BY <1>4, <2>4, <3>1, <3>2
  <2>10. FilesHoldOwn'
    <3> SUFFICES ASSUME NEW q \in DiffPairs, NEW h \in Diffing!Graphs
                 PROVE  \/ Diffing!Shared(q, h)
                        \/ /\ file'[q][h] \subseteq Diffing!GraphOf(q, h)
                           /\ h \in svgs[q] => \/ file'[q][h] = Diffing!GraphOf(q, h)
                                               \/ <<q, h>> \in torn \/ Diffing!Writing(q, h)'
      BY <2>1 DEF FilesHoldOwn, Diffing!GraphOf, Diffing!Shared
    <3>1. CASE q = p /\ h = g
      BY <2>9, <3>1
    <3>2. CASE q # p \/ h # g
      <4>1. file'[q][h] = file[q][h]
        BY <2>4, <3>2
      <4>2. Diffing!Writing(q, h) => Diffing!Writing(q, h)'
        BY <2>1, <2>3, <3>2 DEF Diffing!Writing, OnlyGraph, p
      <4> QED BY <4>1, <4>2 DEF DiffInv, FilesHoldOwn
    <3> QED BY <3>1, <3>2
  <2>11. CallsMakeFiles'
    <3>1. \A o \in DiffRuns, h \in Diffing!Graphs :
            \/ making'[o][h] = making[o][h]
            \/ making'[o][h] = "stored" /\ making[o][h] = "write"
      BY <1>6, <2>3 DEF OnlyGraph
    <3> QED BY <2>1, <3>1 DEF DiffInv, CallsMakeFiles
  <2> QED BY <2>6, <2>7, <2>8, <2>10, <2>11 DEF DiffInv
<1> QED BY <1>3, <1>5, <1>6

LEMMA DiffDies ==
  ASSUME DiffInv, Diffing!Die
  PROVE  DiffInv'
<1>1. Diffing!DiffTypeOK
  BY DEF DiffInv
<1>3. /\ df' = [d \in DiffRuns |-> IF df[d].step = "work" THEN [df[d] EXCEPT !.step = "failed"] ELSE df[d]]
      /\ making' = [d \in DiffRuns |-> IF df[d].step # "work" THEN making[d] ELSE
                       [g \in Diffing!Graphs |-> IF making[d][g] = "shell" THEN "shell" ELSE "failed"]]
      /\ svgData' = [d \in DiffRuns |-> [g \in Diffing!Graphs |-> {}]]
      /\ torn' = torn \cup {f \in DiffPairs \X Diffing!Graphs : Diffing!Writing(f[1], f[2])}
      /\ UNCHANGED <<svgs, file, tmpSvg, clashed>>
  BY DEF Diffing!Die
<1>4. /\ df' \in [DiffRuns -> [step : {"new", "work", "ok", "failed"}, pair : DiffPairs]]
      /\ \A d \in DiffRuns : /\ df'[d].pair = df[d].pair
                             /\ df'[d].step = IF df[d].step = "work" THEN "failed" ELSE df[d].step
  BY <1>1, <1>3 DEF Diffing!DiffTypeOK
<1>5. making \in [DiffRuns -> [Diffing!Graphs -> MakingSteps]]
  BY <1>1 DEF Diffing!DiffTypeOK, MakingSteps
<1>6. /\ making' \in [DiffRuns -> [Diffing!Graphs -> MakingSteps]]
      /\ \A d \in DiffRuns, g \in Diffing!Graphs :
            \/ making'[d][g] = making[d][g] /\ df[d].step # "work"
            \/ making'[d][g] = making[d][g] /\ making[d][g] = "shell"
            \/ making'[d][g] = "failed"
  BY <1>3, <1>5 DEF MakingSteps
<1>7. /\ svgData' \in [DiffRuns -> [Diffing!Graphs -> Diffing!Content]]
      /\ torn' \subseteq DiffPairs \X Diffing!Graphs
  BY <1>1, <1>3 DEF Diffing!DiffTypeOK, Diffing!Content
<1>8. Diffing!DiffTypeOK'
  BY <1>1, <1>3, <1>4, <1>6, <1>7 DEF Diffing!DiffTypeOK, MakingSteps
<1>9. WorkingFileIsOwn'
  BY <1>3, <1>4, <1>6, CallsLetGo DEF DiffInv
<1>10. \A d \in DiffRuns, g \in Diffing!Graphs : making'[d][g] \notin {"make", "read", "put", "write"}
  BY <1>6 DEF DiffInv, CallsMakeFiles
<1>11. CallsHoldOwn'
  BY <1>10 DEF CallsHoldOwn
<1>12. FilesHoldOwn'
  <2>1. \A p \in DiffPairs, g \in Diffing!Graphs :
          /\ Diffing!Writing(p, g) => <<p, g>> \in torn'
          /\ <<p, g>> \in torn => <<p, g>> \in torn'
    BY <1>3
  <2> QED BY <1>3, <2>1 DEF DiffInv, FilesHoldOwn, Diffing!Shared, Diffing!GraphOf
<1>13. CallsMakeFiles'
  BY <1>3, <1>4, <1>6, <1>10 DEF DiffInv, CallsMakeFiles
<1> QED BY <1>8, <1>9, <1>11, <1>12, <1>13 DEF DiffInv

LEMMA DiffStep ==
  ASSUME DiffInv, Diffing!DiffNext
  PROVE  DiffInv'
<1>1. Diffing!DiffTypeOK
  BY DEF DiffInv
<1>2. \A type \in DiffTypes : /\ <<type, "flame">> \in Diffing!Graphs
                              /\ <<type, "profile">> \in Diffing!Graphs
  BY DEF Diffing!Graphs
<1>3. \A d \in DiffRuns : df[d].pair \in DiffPairs /\ df[d].step \in {"new", "work", "ok", "failed"}
  BY <1>1 DEF Diffing!DiffTypeOK
<1>4. \A p \in DiffPairs, g \in Diffing!Graphs : Diffing!GraphOf(p, g) \in Diffing!Content
  BY DEF Diffing!GraphOf, Diffing!Content
<1>5. ASSUME NEW d \in DiffRuns, Diffing!Start(d)
      PROVE  DiffInv'
  BY <1>5, DiffStarts
<1>6. ASSUME NEW d \in DiffRuns, Diffing!Finish(d)
      PROVE  DiffInv'
  BY <1>6, DiffFinishes
<1>7. ASSUME NEW d \in DiffRuns, NEW type \in DiffTypes, Diffing!TypeFails(d, type)
      PROVE  DiffInv'
  BY <1>7, DiffTypeFails
<1>8. ASSUME NEW d \in DiffRuns, NEW type \in DiffTypes, Diffing!MakeFlame(d, type)
      PROVE  DiffInv'
  <2> DEFINE g == <<type, "flame">>
  <2>1. /\ making[d][g] = "make" /\ Diffing!Becomes(d, g, "put")
        /\ svgData' = [svgData EXCEPT ![d][g] = Diffing!GraphOf(df[d].pair, g)]
        /\ UNCHANGED <<df, svgs, file, tmpSvg, torn, clashed>>
    BY <1>8 DEF Diffing!MakeFlame
  <2>2. g \in Diffing!Graphs
    BY <1>2
  <2> HIDE DEF g
  <2>3. OnlyGraph(d, g, "put")
    BY <1>1, <2>1, <2>2, GraphBecomes DEF MakingSteps
  <2>4. /\ svgData' \in [DiffRuns -> [Diffing!Graphs -> Diffing!Content]]
        /\ svgData'[d][g] = Diffing!GraphOf(df[d].pair, g)
        /\ \A o \in DiffRuns, h \in Diffing!Graphs : o # d \/ h # g => svgData'[o][h] = svgData[o][h]
    BY <1>1, <1>3, <1>4, <2>1, <2>2, OneValueChanges DEF Diffing!DiffTypeOK
  <2>5. WorkingFileIsOwn'
    BY <2>1, <2>2, <2>3, WorkingFileStays
  <2>6. Diffing!DiffTypeOK'
    BY <1>1, <2>1, <2>3, <2>4 DEF Diffing!DiffTypeOK, OnlyGraph, MakingSteps
  <2>7. df[d].step = "work"
    BY <2>1, <2>2 DEF DiffInv, CallsMakeFiles
  <2>8. /\ UNCHANGED <<df, svgs, file>> /\ torn \subseteq torn' /\ clashed \subseteq clashed'
        /\ making[d][g] # "write" /\ "put" \in MakingSteps
        /\ "put" \notin {"none", "make", "write", "stored"}
    BY <2>1 DEF MakingSteps
  <2> QED BY <2>2, <2>3, <2>4, <2>5, <2>6, <2>7, <2>8, GraphKeepsFiles, Zenon
<1>9. ASSUME NEW d \in DiffRuns, NEW type \in DiffTypes, Diffing!OpenShell(d, type)
      PROVE  DiffInv'
  <2> DEFINE g == <<type, "profile">>
  <2>1. /\ making[d][g] = "make" /\ Diffing!Becomes(d, g, "shell")
        /\ tmpSvg' = [tmpSvg EXCEPT ![type] = {}]
        /\ UNCHANGED <<df, svgData, svgs, file, torn>>
    BY <1>9 DEF Diffing!OpenShell
  <2>2. /\ clashed \subseteq clashed' /\ clashed' \subseteq DiffPairs \X DiffTypes
        /\ \A o \in DiffRuns : o # d /\ making[o][g] \in {"shell", "read"} => <<df[o].pair, type>> \in clashed'
        /\ \A o \in DiffRuns : o # d /\ making[o][g] = "shell" => <<df[d].pair, type>> \in clashed'
    <3> DEFINE In(S) == {o \in DiffRuns \ {d} : making[o][g] \in S}
    <3>1. clashed' = clashed \cup {<<df[o].pair, type>> : o \in In({"shell", "read"})}
                             \cup {<<df[d].pair, type>> : o \in In({"shell"})}
      BY <1>9 DEF Diffing!OpenShell
    <3>2. clashed \subseteq DiffPairs \X DiffTypes
      BY <1>1 DEF Diffing!DiffTypeOK
    <3> QED BY <1>3, <3>1, <3>2
  <2>3. g \in Diffing!Graphs
    BY <1>2
  <2>4. OnlyGraph(d, g, "shell")
    BY <1>1, <2>1, <2>3, GraphBecomes DEF MakingSteps
  <2>5. tmpSvg' \in [DiffTypes -> Diffing!Content]
    BY <1>1, <2>1 DEF Diffing!DiffTypeOK, Diffing!Content
  <2>6. Diffing!DiffTypeOK'
    BY <1>1, <2>1, <2>2, <2>4, <2>5 DEF Diffing!DiffTypeOK, OnlyGraph, MakingSteps
  <2>7. WorkingFileIsOwn'
    <3> SUFFICES ASSUME NEW o \in DiffRuns, NEW t \in DiffTypes, <<df[o].pair, t>> \notin clashed'
                 PROVE  /\ making'[o][<<t, "profile">>] = "shell" => tmpSvg'[t] = {}
                        /\ making'[o][<<t, "profile">>] = "read" => tmpSvg'[t] = {df[o].pair}
                        /\ making'[o][<<t, "profile">>] \in {"shell", "read"} =>
                              \A q \in DiffRuns : q # o => making'[q][<<t, "profile">>] # "shell"
      BY <2>1 DEF WorkingFileIsOwn
    <3>1. CASE t # type
      <4>1. tmpSvg'[t] = tmpSvg[t] /\ <<df[o].pair, t>> \notin clashed
        BY <1>1, <2>1, <2>2, <3>1 DEF Diffing!DiffTypeOK
      <4>2. \A q \in DiffRuns : making'[q][<<t, "profile">>] = making[q][<<t, "profile">>]
        BY <1>2, <2>4, <3>1 DEF OnlyGraph
      <4> QED BY <4>1, <4>2 DEF DiffInv, WorkingFileIsOwn
    <3>2. CASE t = type /\ o = d
      <4>1. \A q \in DiffRuns : q # d => making'[q][g] = making[q][g] /\ making[q][g] # "shell"
        BY <2>2, <2>3, <2>4, <3>2 DEF OnlyGraph
      <4>2. making'[d][g] = "shell" /\ tmpSvg'[type] = {}
        BY <1>1, <2>1, <2>4 DEF OnlyGraph, Diffing!DiffTypeOK
      <4> QED BY <3>2, <4>1, <4>2
    <3>3. CASE t = type /\ o # d
      BY <2>2, <2>3, <2>4, <3>3 DEF OnlyGraph
    <3> QED BY <3>1, <3>2, <3>3
  <2>8. df[d].step = "work"
    BY <2>1, <2>3 DEF DiffInv, CallsMakeFiles
  <2> HIDE DEF g
  <2> QED BY <2>1, <2>2, <2>3, <2>4, <2>6, <2>7, <2>8, GraphKeepsFiles DEF MakingSteps
<1>10. ASSUME NEW d \in DiffRuns, NEW type \in DiffTypes, Diffing!WriteShell(d, type)
       PROVE  DiffInv'
  <2> DEFINE g    == <<type, "profile">>
             step == IF df[d].step = "work" THEN "read" ELSE "failed"
  <2>1. /\ making[d][g] = "shell" /\ Diffing!Becomes(d, g, step)
        /\ UNCHANGED <<df, svgData, svgs, file, torn, clashed>>
    BY <1>10 DEF Diffing!WriteShell
  <2>2. PICK tail \in {{}, tmpSvg[type]} : tmpSvg' = [tmpSvg EXCEPT ![type] = {df[d].pair} \cup tail]
    BY <1>10 DEF Diffing!WriteShell
  <2>3. g \in Diffing!Graphs /\ step \in {"read", "failed"} /\ (step = "read" => df[d].step = "work")
    BY <1>2
  <2> HIDE DEF step
  <2>4. OnlyGraph(d, g, step)
    BY <1>1, <2>1, <2>3, GraphBecomes DEF MakingSteps
  <2>5. tmpSvg' \in [DiffTypes -> Diffing!Content]
    BY <1>1, <1>3, <2>2 DEF Diffing!DiffTypeOK, Diffing!Content
  <2>6. Diffing!DiffTypeOK'
    BY <1>1, <2>1, <2>4, <2>5 DEF Diffing!DiffTypeOK, OnlyGraph, MakingSteps
  <2>7. WorkingFileIsOwn'
    <3> SUFFICES ASSUME NEW o \in DiffRuns, NEW t \in DiffTypes, <<df[o].pair, t>> \notin clashed
                 PROVE  /\ making'[o][<<t, "profile">>] = "shell" => tmpSvg'[t] = {}
                        /\ making'[o][<<t, "profile">>] = "read" => tmpSvg'[t] = {df[o].pair}
                        /\ making'[o][<<t, "profile">>] \in {"shell", "read"} =>
                              \A q \in DiffRuns : q # o => making'[q][<<t, "profile">>] # "shell"
      BY <2>1 DEF WorkingFileIsOwn
    <3>1. CASE t # type
      <4>1. tmpSvg'[t] = tmpSvg[t]
        BY <1>1, <2>2, <3>1 DEF Diffing!DiffTypeOK
      <4>2. \A q \in DiffRuns : making'[q][<<t, "profile">>] = making[q][<<t, "profile">>]
        BY <1>2, <2>4, <3>1 DEF OnlyGraph
      <4> QED BY <4>1, <4>2 DEF DiffInv, WorkingFileIsOwn
    <3>2. CASE t = type /\ o = d
      <4>1. /\ tmpSvg[type] = {}
            /\ \A q \in DiffRuns : q # d => making[q][g] # "shell"
        BY <2>1, <3>2 DEF DiffInv, WorkingFileIsOwn
      <4>2. tmpSvg'[type] = {df[d].pair}
        BY <1>1, <2>2, <4>1 DEF Diffing!DiffTypeOK
      <4> QED BY <2>3, <2>4, <3>2, <4>1, <4>2 DEF OnlyGraph
    <3>3. CASE t = type /\ o # d
      <4>1. making[o][g] \notin {"shell", "read"}
        BY <2>1, <3>3 DEF DiffInv, WorkingFileIsOwn
      <4> QED BY <2>3, <2>4, <3>3, <4>1 DEF OnlyGraph
    <3> QED BY <3>1, <3>2, <3>3
  <2> HIDE DEF g
  <2> QED BY <2>1, <2>3, <2>4, <2>6, <2>7, GraphKeepsFiles DEF MakingSteps
<1>11. ASSUME NEW d \in DiffRuns, NEW type \in DiffTypes, Diffing!ReadShell(d, type)
       PROVE  DiffInv'
  <2> DEFINE g == <<type, "profile">>
  <2>1. /\ making[d][g] = "read" /\ Diffing!Becomes(d, g, "put")
        /\ svgData' = [svgData EXCEPT ![d][g] = tmpSvg[type]]
        /\ UNCHANGED <<df, svgs, file, tmpSvg, torn, clashed>>
    BY <1>11 DEF Diffing!ReadShell
  <2>2. g \in Diffing!Graphs
    BY <1>2
  <2>3. Diffing!Shared(df[d].pair, g) \/ tmpSvg[type] = Diffing!GraphOf(df[d].pair, g)
    BY <2>1 DEF DiffInv, WorkingFileIsOwn, Diffing!Shared, Diffing!GraphOf
  <2> HIDE DEF g
  <2>4. OnlyGraph(d, g, "put")
    BY <1>1, <2>1, <2>2, GraphBecomes DEF MakingSteps
  <2>5. /\ svgData' \in [DiffRuns -> [Diffing!Graphs -> Diffing!Content]]
        /\ svgData'[d][g] = tmpSvg[type]
        /\ \A o \in DiffRuns, h \in Diffing!Graphs : o # d \/ h # g => svgData'[o][h] = svgData[o][h]
    <3>1. tmpSvg[type] \in Diffing!Content /\ svgData \in [DiffRuns -> [Diffing!Graphs -> Diffing!Content]]
      BY <1>1 DEF Diffing!DiffTypeOK
    <3> QED BY <2>1, <2>2, <3>1, OneValueChanges
  <2>6. WorkingFileIsOwn'
    BY <2>1, <2>2, <2>4, WorkingFileStays
  <2>7. Diffing!DiffTypeOK'
    BY <1>1, <2>1, <2>4, <2>5 DEF Diffing!DiffTypeOK, OnlyGraph, MakingSteps
  <2>8. df[d].step = "work"
    BY <2>1, <2>2 DEF DiffInv, CallsMakeFiles
  <2>9. /\ UNCHANGED <<df, svgs, file>> /\ torn \subseteq torn' /\ clashed \subseteq clashed'
        /\ making[d][g] # "write" /\ "put" \in MakingSteps
        /\ "put" \notin {"none", "make", "write", "stored"}
        /\ svgData'[d][g] = Diffing!GraphOf(df[d].pair, g) \/ Diffing!Shared(df[d].pair, g)
    BY <2>1, <2>3, <2>5 DEF MakingSteps
  <2> QED BY <2>2, <2>4, <2>5, <2>6, <2>7, <2>8, <2>9, GraphKeepsFiles, Zenon
<1>12. ASSUME NEW d \in DiffRuns, NEW g \in Diffing!Graphs, Diffing!GraphFails(d, g)
       PROVE  DiffInv'
  <2>1. /\ making[d][g] \in {"make", "shell", "read"} /\ Diffing!Becomes(d, g, "failed")
        /\ UNCHANGED <<df, svgData, svgs, file, tmpSvg, torn, clashed>>
    BY <1>12 DEF Diffing!GraphFails
  <2>2. OnlyGraph(d, g, "failed")
    BY <1>1, <2>1, GraphBecomes DEF MakingSteps
  <2>3. WorkingFileIsOwn'
    BY <2>1, <2>2, WorkingFileStays
  <2>4. Diffing!DiffTypeOK'
    BY <1>1, <2>1, <2>2 DEF Diffing!DiffTypeOK, OnlyGraph, MakingSteps
  <2> QED BY <2>1, <2>2, <2>3, <2>4, GraphKeepsFiles DEF MakingSteps
<1>13. ASSUME NEW d \in DiffRuns, NEW g \in Diffing!Graphs, Diffing!PutGraph(d, g)
       PROVE  DiffInv'
  BY <1>13, DiffPuts
<1>14. ASSUME NEW d \in DiffRuns, NEW g \in Diffing!Graphs, Diffing!PutGraphFails(d, g)
       PROVE  DiffInv'
  <2>1. /\ making[d][g] \in {"put", "write"} /\ Diffing!Becomes(d, g, "failed")
        /\ torn' = IF making[d][g] = "write" THEN torn \cup {<<df[d].pair, g>>} ELSE torn
        /\ svgData' = [svgData EXCEPT ![d][g] = {}]
        /\ UNCHANGED <<df, svgs, file, tmpSvg, clashed>>
    BY <1>14 DEF Diffing!PutGraphFails
  <2>2. OnlyGraph(d, g, "failed")
    BY <1>1, <2>1, GraphBecomes DEF MakingSteps
  <2>3. /\ svgData' \in [DiffRuns -> [Diffing!Graphs -> Diffing!Content]]
        /\ \A o \in DiffRuns, h \in Diffing!Graphs : o # d \/ h # g => svgData'[o][h] = svgData[o][h]
    <3>1. {} \in Diffing!Content /\ svgData \in [DiffRuns -> [Diffing!Graphs -> Diffing!Content]]
      BY <1>1 DEF Diffing!DiffTypeOK, Diffing!Content
    <3> QED BY <2>1, <3>1, OneValueChanges
  <2>4. torn \subseteq torn' /\ torn' \subseteq DiffPairs \X Diffing!Graphs
        /\ (making[d][g] = "write" => <<df[d].pair, g>> \in torn')
    BY <1>1, <1>3, <2>1 DEF Diffing!DiffTypeOK
  <2>5. WorkingFileIsOwn'
    BY <2>1, <2>2, WorkingFileStays
  <2>6. Diffing!DiffTypeOK'
    BY <1>1, <2>1, <2>2, <2>3, <2>4 DEF Diffing!DiffTypeOK, OnlyGraph, MakingSteps
  <2> QED BY <2>1, <2>2, <2>3, <2>4, <2>5, <2>6, GraphKeepsFiles DEF MakingSteps
<1>15. CASE Diffing!Die
  BY <1>15, DiffDies
<1> QED BY <1>5, <1>6, <1>7, <1>8, <1>9, <1>10, <1>11, <1>12, <1>13, <1>14, <1>15 DEF Diffing!DiffNext

DiffPage == page = "diff" => DiffInv

LEMMA DiffsHold == Spec => []DiffPage
<1>1. Init => DiffPage
  BY DiffBegins DEF Init, DiffPage
<1>2. DiffPage /\ [Next]_vars => DiffPage'
  <2>1. CASE Next
    BY <2>1, DiffStep DEF Next, DiffPage
  <2>2. CASE UNCHANGED vars
    <3>1. UNCHANGED <<page, df, making, svgData, svgs, file, tmpSvg, torn, clashed>>
      BY <2>2 DEF vars, server, diff
    <3>2. Diffing!DiffTypeOK => Diffing!DiffTypeOK'
      BY <3>1 DEF Diffing!DiffTypeOK
    <3>3. WorkingFileIsOwn => WorkingFileIsOwn'
      BY <3>1 DEF WorkingFileIsOwn
    <3>4. CallsHoldOwn => CallsHoldOwn'
      BY <3>1 DEF CallsHoldOwn, HoldsOwn, Diffing!Shared, Diffing!GraphOf
    <3>5. FilesHoldOwn => FilesHoldOwn'
      <4>1. \A p \in DiffPairs, g \in Diffing!Graphs : Diffing!Writing(p, g) => Diffing!Writing(p, g)'
        BY <3>1 DEF Diffing!Writing
      <4> QED BY <3>1, <4>1 DEF FilesHoldOwn, Diffing!Shared, Diffing!GraphOf
    <3>6. CallsMakeFiles => CallsMakeFiles'
      BY <3>1 DEF CallsMakeFiles
    <3> QED BY <3>1, <3>2, <3>3, <3>4, <3>5, <3>6 DEF DiffPage, DiffInv
  <2> QED BY <2>1, <2>2
<1> QED BY <1>1, <1>2, PTL DEF Spec

LEMMA DiffsAreComplete == DiffPage => (page = "diff" => Diffing!DiffIsComplete)
<1> SUFFICES ASSUME DiffInv, NEW d \in DiffRuns, NEW g \in Diffing!Graphs, df[d].step = "ok",
                    ~Diffing!Shared(df[d].pair, g)
             PROVE  /\ g \in svgs[df[d].pair]
                    /\ \/ file[df[d].pair][g] = Diffing!GraphOf(df[d].pair, g)
                       \/ /\ file[df[d].pair][g] = {}
                          /\ (<<df[d].pair, g>> \in torn \/ Diffing!Writing(df[d].pair, g))
  <2>1. DiffInv => \A d \in DiffRuns, g \in Diffing!Graphs : df[d].step = "ok" => g \in svgs[df[d].pair]
    BY DEF DiffInv, CallsMakeFiles
  <2> QED BY <2>1 DEF DiffPage, Diffing!DiffIsComplete
<1> DEFINE p == df[d].pair
<1>1. p \in DiffPairs
  BY DEF DiffInv, Diffing!DiffTypeOK
<1>2. g \in svgs[p]
  BY DEF DiffInv, CallsMakeFiles
<1>3. /\ file[p][g] \subseteq Diffing!GraphOf(p, g)
      /\ file[p][g] = Diffing!GraphOf(p, g) \/ <<p, g>> \in torn \/ Diffing!Writing(p, g)
  BY <1>1, <1>2 DEF DiffInv, FilesHoldOwn
<1>4. Diffing!GraphOf(p, g) = {} \/ Diffing!GraphOf(p, g) = {p}
  BY DEF Diffing!GraphOf
<1> QED BY <1>2, <1>3, <1>4

\* Graphs are only asked for after they were generated, for any number of differences, and what
\* the server says is there is there: when a call has answered, the directory of its pair lacks
\* no file and each holds the whole graph of that pair and no other, however many calls for
\* however many pairs ran at once, failed or died.  Excused are files without content that are
\* being written or whose writing was broken off, and a profile graph of a type for which a call
\* of the pair shared the working file of the server with another call.
THEOREM GraphsWereMade == Spec => []GraphsWereGenerated
<1>1. ProfilesPage => (page = "profiling" => Profiling!GraphsWereGenerated)
  BY DEF ProfilesPage, ProfilesInv, OneDiff, Profiling!GraphsWereGenerated
<1>2. ProfilesPage /\ DiffPage => GraphsWereGenerated
  BY <1>1, DiffsAreComplete DEF GraphsWereGenerated
<1> QED BY <1>2, ProfilesHold, DiffsHold, PTL

-----------------------------------------------------------------------------
(***************************************************************************)
(* The number on the badge, and the types of all pages.                     *)
(***************************************************************************)
UnderWay(d) == {i \in Saving!Ids : d.item[i].state = "saving"}

\* The badge counts the downloads that are under way.
BadgeCounts == dl.badgeCount = Cardinality(UnderWay(dl))

LEMMA UnderWayIsFinite ==
  ASSUME NEW d
  PROVE  /\ IsFiniteSet(UnderWay(d)) /\ UnderWay(d) \subseteq Saving!Ids
         /\ Cardinality(UnderWay(d)) \in 0..MaxDownloads
<1>1. MaxDownloads \in Nat
  BY DownloadsAssumed DEF Saving!DownloadsAssumption
<1>2. IsFiniteSet(Saving!Ids) /\ Cardinality(Saving!Ids) = MaxDownloads
  BY <1>1, FS_Interval DEF Saving!Ids
<1>3. UnderWay(d) \subseteq Saving!Ids
  BY DEF UnderWay
<1>4. IsFiniteSet(UnderWay(d)) /\ Cardinality(UnderWay(d)) <= Cardinality(Saving!Ids)
  BY <1>2, <1>3, FS_Subset
<1>5. Cardinality(UnderWay(d)) \in Nat
  BY <1>4, FS_CardinalityType
<1> QED BY <1>1, <1>2, <1>3, <1>4, <1>5

\* Only i changes, and the badge when i begins or ends to be under way.
LEMMA BadgeChanges ==
  ASSUME BadgeCounts, NEW i \in Saving!Ids,
         \A j \in Saving!Ids : j # i => dl'.item[j] = dl.item[j],
         \/ /\ (dl.item[i].state = "saving") <=> (dl'.item[i].state = "saving")
            /\ dl'.badgeCount = dl.badgeCount
         \/ /\ dl.item[i].state # "saving" /\ dl'.item[i].state = "saving"
            /\ dl'.badgeCount = dl.badgeCount + 1
         \/ /\ dl.item[i].state = "saving" /\ dl'.item[i].state # "saving"
            /\ dl'.badgeCount = dl.badgeCount - 1
  PROVE  BadgeCounts'
<1>1. IsFiniteSet(UnderWay(dl)) /\ Cardinality(UnderWay(dl)) \in Nat
  <2>1. IsFiniteSet(UnderWay(dl))
    BY UnderWayIsFinite
  <2> QED BY <2>1, FS_CardinalityType
<1>2. CASE /\ (dl.item[i].state = "saving") <=> (dl'.item[i].state = "saving")
           /\ dl'.badgeCount = dl.badgeCount
  <2>1. UnderWay(dl') = UnderWay(dl)
    BY <1>2 DEF UnderWay
  <2> QED BY <1>2, <2>1 DEF BadgeCounts
<1>3. CASE /\ dl.item[i].state # "saving" /\ dl'.item[i].state = "saving"
           /\ dl'.badgeCount = dl.badgeCount + 1
  <2>1. UnderWay(dl') = UnderWay(dl) \cup {i} /\ i \notin UnderWay(dl)
    BY <1>3 DEF UnderWay
  <2>2. Cardinality(UnderWay(dl')) = Cardinality(UnderWay(dl)) + 1
    BY <1>1, <2>1, FS_AddElement
  <2> QED BY <1>3, <2>2 DEF BadgeCounts
<1>4. CASE /\ dl.item[i].state = "saving" /\ dl'.item[i].state # "saving"
           /\ dl'.badgeCount = dl.badgeCount - 1
  <2>1. UnderWay(dl') = UnderWay(dl) \ {i} /\ i \in UnderWay(dl)
    BY <1>4 DEF UnderWay
  <2>2. Cardinality(UnderWay(dl')) = Cardinality(UnderWay(dl)) - 1
    BY <1>1, <2>1, FS_RemoveElement
  <2> QED BY <1>4, <2>2 DEF BadgeCounts
<1> QED BY <1>2, <1>3, <1>4

LEMMA BadgeSteps ==
  ASSUME SavingInv, BadgeCounts, Saving!DownloadsNext
  PROVE  BadgeCounts'
<1>1. PICK i \in Saving!Ids :
          \/ \E f \in Files : Saving!Download(i, f)
          \/ \E folder \in SaveFolders \cup {None} : Saving!DialogAnswered(i, folder)
          \/ Saving!WillDownload(i) \/ Saving!FileAppears(i)
          \/ \E state \in {"completed", "failed"} : Saving!DownloadEnds(i, state)
  BY DEF Saving!DownloadsNext
<1>2. dl \in DownloadRecord
  BY DEF SavingInv, DownloadsTyped
<1>3. dl.badgeCount \in Int /\ dl.item \in [Saving!Ids -> Item]
  BY <1>2 DEF DownloadRecord
<1>4. \A j \in Saving!Ids : dl.item[j] \in Item
  BY <1>3
<1>5. CASE \E f \in Files : Saving!Download(i, f)
  <2>1. /\ \A j \in Saving!Ids : j # i => dl'.item[j] = dl.item[j]
        /\ dl.item[i].state = "new" /\ dl'.item[i].state = "dialog"
        /\ dl'.badgeCount = dl.badgeCount
    BY <1>2, <1>4, <1>5 DEF Saving!Download, DownloadRecord, Item
  <2> QED BY <2>1, BadgeChanges
<1>6. CASE \E folder \in SaveFolders \cup {None} : Saving!DialogAnswered(i, folder)
  <2>1. PICK folder \in SaveFolders \cup {None} : Saving!DialogAnswered(i, folder)
    BY <1>6
  <2>2. /\ \A j \in Saving!Ids : j # i => dl'.item[j] = dl.item[j]
        /\ dl.item[i].state = "dialog" /\ dl'.item[i].state \in {"ended", "asked"}
        /\ dl'.badgeCount = dl.badgeCount
    <3>1. CASE folder = None
      BY <1>2, <1>4, <2>1, <3>1 DEF Saving!DialogAnswered, DownloadRecord, Item
    <3>2. CASE folder # None
      <4> DEFINE entry == [dl.item[i] EXCEPT !.state = "asked", !.chosen = folder]
      <4>1. /\ dl.item[i].state = "dialog"
            /\ dl' = [dl EXCEPT !.selectPath = folder, !.item[i] = entry]
        BY <2>1, <3>2 DEF Saving!DialogAnswered
      <4>2. entry.state = "asked"
        BY <1>4 DEF Item
      <4> HIDE DEF entry
      <4> QED BY <1>2, <4>1, <4>2 DEF DownloadRecord
    <3> QED BY <3>1, <3>2
  <2> QED BY <2>2, BadgeChanges
<1>7. CASE Saving!WillDownload(i)
  <2>1. /\ \A j \in Saving!Ids : j # i => dl'.item[j] = dl.item[j]
        /\ dl.item[i].state = "asked" /\ dl'.item[i].state = "saving"
        /\ dl'.badgeCount = dl.badgeCount + 1
    BY <1>2, <1>4, <1>7 DEF Saving!WillDownload, DownloadRecord, Item
  <2> QED BY <2>1, BadgeChanges
<1>8. CASE Saving!FileAppears(i)
  <2>1. dl'.item = dl.item /\ dl'.badgeCount = dl.badgeCount
    BY <1>2, <1>8 DEF Saving!FileAppears, DownloadRecord
  <2> QED BY <2>1, BadgeChanges
<1>9. CASE \E state \in {"completed", "failed"} : Saving!DownloadEnds(i, state)
  <2>1. PICK state \in {"completed", "failed"} : Saving!DownloadEnds(i, state)
    BY <1>9
  <2> DEFINE path == IF state = "completed" THEN dl.item[i].path ELSE None
             disk == IF state = "completed" THEN dl.disk ELSE dl.disk \ {dl.item[i].path}
             entry == [dl.item[i] EXCEPT !.state = "ended", !.path = path]
  <2>2. /\ dl.item[i].state = "saving"
        /\ dl' = [dl EXCEPT !.item[i] = entry, !.badgeCount = dl.badgeCount - 1, !.disk = disk]
    BY <2>1 DEF Saving!DownloadEnds
  <2>3. entry.state = "ended"
    BY <1>4 DEF Item
  <2> HIDE DEF entry, disk
  <2>4. /\ \A j \in Saving!Ids : j # i => dl'.item[j] = dl.item[j]
        /\ dl'.item[i] = entry /\ dl'.badgeCount = dl.badgeCount - 1
    BY <1>2, <2>2 DEF DownloadRecord
  <2> QED BY <2>2, <2>3, <2>4, BadgeChanges
<1> QED BY <1>1, <1>5, <1>6, <1>7, <1>8, <1>9

LEMMA BadgeHolds == Spec => [](page = "saving" => BadgeCounts)
<1> DEFINE Badge == page = "saving" => BadgeCounts
<1>1. Init => Badge
  <2> SUFFICES ASSUME Saving!DownloadsInit PROVE BadgeCounts
    BY DEF Init
  <2>1. dl.badgeCount = 0 /\ \A i \in Saving!Ids : dl.item[i].state = "new"
    BY DEF Saving!DownloadsInit
  <2>2. UnderWay(dl) = {}
    BY <2>1 DEF UnderWay
  <2> QED BY <2>1, <2>2, FS_EmptySet DEF BadgeCounts
<1>2. SavingPage /\ Badge /\ [Next]_vars => Badge'
  <2> SUFFICES ASSUME SavingPage, Badge, [Next]_vars, page' = "saving" PROVE BadgeCounts'
    OBVIOUS
  <2>1. CASE Next
    <3>1. SavingInv /\ BadgeCounts /\ Saving!DownloadsNext
      BY <2>1 DEF Next, SavingPage
    <3> QED BY <3>1, BadgeSteps
  <2>2. CASE UNCHANGED vars
    BY <2>2 DEF vars, saving, BadgeCounts
  <2> QED BY <2>1, <2>2
<1> QED BY <1>1, <1>2, SavingHolds, PTL DEF Spec

-----------------------------------------------------------------------------
LEMMA OnePage == Spec => [](page \in Pages)
<1>1. Init => page \in Pages
  BY DEF Init
<1>2. page \in Pages /\ [Next]_vars => (page \in Pages)'
  BY DEF Next, vars
<1> QED BY <1>1, <1>2, PTL DEF Spec

LEMMA PagesTyped ==
  /\ SelectionInv => Selection!SelectionTypeOK
  /\ EditorInv => Editor!EditorTypeOK
  /\ FilesInv => Manager!FilesTypeOK
  /\ ProfilesInv => Profiling!ProfilesTypeOK
  /\ ClustersInv => Management!ClustersTypeOK
  /\ SavingInv /\ BadgeCounts => Saving!DownloadsTypeOK
  /\ TransportInv => Transport!TransportTypeOK
  /\ DiffInv => Diffing!DiffTypeOK
<1>1. SelectionInv => Selection!SelectionTypeOK
  BY DEF SelectionInv, UiSound, UiRecord, Cards, Choices, Selection!SelectionTypeOK
<1>2. EditorInv => Editor!EditorTypeOK
  BY DEF EditorInv, EditorSound, EditorRecord, Editor!EditorTypeOK
<1>3. FilesInv => Manager!FilesTypeOK
  <2>1. Paths \cup {None} = Manager!Dirs \cup {Manager!Here, None}
    BY DEF Paths
  <2> QED BY <2>1 DEF FilesInv, FilesSound, FilesRecord, Paths, Listed, Manager!FilesTypeOK
<1>4. ProfilesInv => Profiling!ProfilesTypeOK
  BY DEF ProfilesInv, ProfilesRecord, Profiling!ProfilesTypeOK
<1>5. ClustersInv => Management!ClustersTypeOK
  BY DEF ClustersInv, ClustersRecord, AllClusters, Management!ClustersTypeOK
<1>6. SavingInv /\ BadgeCounts => Saving!DownloadsTypeOK
  <2> SUFFICES ASSUME SavingInv, BadgeCounts PROVE Saving!DownloadsTypeOK
    OBVIOUS
  <2>1. dl \in DownloadRecord /\ crowded \in BOOLEAN
    BY DEF SavingInv, DownloadsTyped
  <2>2. dl.badgeCount \in 0..MaxDownloads
    BY UnderWayIsFinite DEF BadgeCounts
  <2> QED BY <2>1, <2>2 DEF DownloadRecord, Item, States, Saving!DownloadsTypeOK
<1>7. TransportInv => Transport!TransportTypeOK
  <2> SUFFICES ASSUME TransportTyped PROVE Transport!TransportTypeOK
    BY DEF TransportInv
  <2>1. \A i \in DOMAIN chain : chain[i] \in ProxyRequests
    BY DEF TransportTyped
  <2>2. ASSUME NEW c \in Transport!Calls
        PROVE  /\ call[c].step \in Steps /\ call[c].headers \in Transport!Calls \cup {None}
               /\ call[c].via \in Seq(ProxyRequests)
    BY DEF TransportTyped, CallRecord
  <2>3. \A c \in Transport!Calls : \A i \in DOMAIN call[c].via : call[c].via[i] \in ProxyRequests
    BY <2>2
  <2> QED BY <2>1, <2>2, <2>3 DEF TransportTyped, Steps, Transport!TransportTypeOK
<1>8. DiffInv => Diffing!DiffTypeOK
  BY DEF DiffInv
<1> QED BY <1>1, <1>2, <1>3, <1>4, <1>5, <1>6, <1>7, <1>8

\* Every page keeps its types, in every order of clicks and answers; that the number on the badge
\* of the downloads stays between none and all of them needs that it counts them.
THEOREM WorkbenchIsTyped == Spec => []WorkbenchTypeOK
<1>1. /\ page \in Pages /\ SelectionPage /\ EditorPage /\ FilesPage /\ ProfilesPage
      /\ ManagementPage /\ SavingPage /\ TransportPage /\ DiffPage /\ ProxyInv
      /\ (page = "saving" => BadgeCounts)
      => WorkbenchTypeOK
  BY PagesTyped, ProxyTyped DEF SelectionPage, EditorPage, FilesPage, ProfilesPage, ManagementPage,
     SavingPage, TransportPage, DiffPage, WorkbenchTypeOK
<1> QED BY <1>1, OnePage, SelectionHolds, EditorHolds, FilesHold, ProfilesHold, ClustersHold,
           SavingHolds, BadgeHolds, TransportHolds, DiffsHold, ProxyInvHolds, PTL

\* Whatever says that it is loading waits for an answer or a timer: every spinner has its own
\* request under way, however many there are and in whatever order they are answered.
THEOREM SpinnersWait == Spec => []SpinnersEnd
<1>1. SelectionInv => Selection!SelectSpinnersEnd
  BY DEF SelectionInv, UiSound, Spins, Selection!SelectSpinnersEnd
<1>2. EditorInv => Editor!EditorSpinnerEnds
  BY DEF EditorInv, EditorSound, TextAwaited, Editor!EditorSpinnerEnds
<1>3. FilesInv => Manager!FilesSpinnerEnds
  BY DEF FilesInv, FilesSound, Manager!FilesSpinnerEnds
<1>4. ProfilesInv => Profiling!ProfilesSpinnersEnd
  BY DEF ProfilesInv, Awaits, Profiling!ProfilesSpinnersEnd
<1>5. ClustersInv => Management!ClustersSpinnersEnd
  BY DEF ClustersInv, Submits, Toasted, Management!ClustersSpinnersEnd
<1>6. SelectionPage /\ EditorPage /\ FilesPage /\ ProfilesPage /\ ManagementPage /\ ProxyInv => SpinnersEnd
  BY <1>1, <1>2, <1>3, <1>4, <1>5, ProxySpins DEF SelectionPage, EditorPage, FilesPage, ProfilesPage,
     ManagementPage, SpinnersEnd
<1> QED BY <1>6, SelectionHolds, EditorHolds, FilesHold, ProfilesHold, ClustersHold, ProxyInvHolds, PTL
=============================================================================
