---------------------------- MODULE ConfigMapEdit ----------------------------
(***************************************************************************)
(* Editing the items of one ConfigMap, internal/apiv1/configmap.go.  Save  *)
(* and delete take the object from the informer's cache, a pointer that    *)
(* every handler shares, change its Data map in place and send it to the   *)
(* API server, which refuses an object whose resourceVersion is not the    *)
(* latest one.  The informer puts new objects into the cache as the server *)
(* reports new versions; a handler may still hold the one before.          *)
(*                                                                         *)
(* The API server and the informer are external: they are here as far as   *)
(* the handlers can see them.                                              *)
(***************************************************************************)
EXTENDS Naturals, Sequences, FiniteSets

CONSTANTS Requests,     \* the save and delete requests, each handled once
          Addrs,        \* where decoded objects are in memory
          Keys,         \* the items of the ConfigMap
          Values,       \* their contents
          None,         \* no such item, no object
          MaxInFlight,  \* bound: requests handled at the same time
          MaxVersions   \* bound: versions up to which others write the ConfigMap

ASSUME NoneAssumption == None \notin Values /\ None \notin Addrs
ASSUME NonEmptyAssumption == Keys # {} /\ Values # {}
ASSUME BoundsAssumption == MaxInFlight \in Nat /\ MaxVersions \in Nat

Data == [Keys -> Values \cup {None}]

NoItems == [k \in Keys |-> None]

\* A decoded object: the Data map is nil when the server sent no items.
Object == [rv: Nat, data: Data, isNil: BOOLEAN]

Answered == {"ok", "err", "panic", "notFound"}

Handling == {"get", "mutate", "encode", "sent"}

VARIABLES
    versions,   \* the API server: the items of every version, the last is valid
    heap,       \* the decoded objects
    cached,     \* the object in the informer's cache
    req,        \* per request: what it asks for
    pc,         \* per request: the next step of its handler, or its answer
    held,       \* per request: the object it got from the cache
    sent,       \* per request: the version and items it sent to the server
    alone       \* history, per request: no other was handled at the same time

vars == <<versions, heap, cached, req, pc, held, sent, alone>>

Latest == Len(versions)

RequestRecord == [op: {"save", "delete"}, key: Keys, value: Values]

TypeOK ==
    /\ versions \in Seq(Data) /\ Latest > 0
    /\ heap \in [Addrs -> Object]
    /\ cached \in Addrs
    /\ req \in [Requests -> RequestRecord]
    /\ pc \in [Requests -> {"idle", "lost"} \cup Answered \cup Handling]
    /\ held \in [Requests -> Addrs \cup {None}]
    /\ sent \in [Requests -> [rv: Nat, data: Data]]
    /\ alone \in [Requests -> BOOLEAN]

InFlight == {r \in Requests : pc[r] \in Handling}

Decode(v) == [rv |-> v, data |-> versions[v], isNil |-> versions[v] = NoItems]

NothingSent == [rv |-> 0, data |-> NoItems]

Init ==
    /\ versions \in {<<d>> : d \in Data}
    /\ heap = [a \in Addrs |-> Decode(1)]
    /\ cached \in Addrs
    /\ req = [r \in Requests |-> CHOOSE blank \in RequestRecord : TRUE]
    /\ pc = [r \in Requests |-> "idle"]
    /\ held = [r \in Requests |-> None]
    /\ sent = [r \in Requests |-> NothingSent]
    /\ alone = [r \in Requests |-> TRUE]

Goto(r, step) == pc' = [pc EXCEPT ![r] = step]

\* The handler answers and returns.
Finish(r, answer) ==
    /\ Goto(r, answer)
    /\ held' = [held EXCEPT ![r] = None]
    /\ sent' = [sent EXCEPT ![r] = NothingSent]

-----------------------------------------------------------------------------
(***************************************************************************)
(* The API server and the informer.                                        *)
(***************************************************************************)

\* Somebody else (kubectl, a controller) changes an item.
ExternalWrite ==
    /\ Latest < MaxVersions
    /\ \E k \in Keys, v \in Values \cup {None} :
          /\ v # versions[Latest][k]
          /\ versions' = Append(versions, [versions[Latest] EXCEPT ![k] = v])
    /\ UNCHANGED <<heap, cached, req, pc, held, sent, alone>>

\* The informer gets a watch event or lists again: the cache has a new object
\* of a version that is not older than before, possibly the same.
Deliver ==
    /\ \E a \in Addrs \ {cached}, v \in heap[cached].rv..Latest :
          /\ \A r \in InFlight : held[r] # a
          /\ heap' = [heap EXCEPT ![a] = Decode(v)]
          /\ cached' = a
    /\ UNCHANGED <<versions, req, pc, held, sent, alone>>

-----------------------------------------------------------------------------
(***************************************************************************)
(* The handlers SaveConfigMapConfiguration and                             *)
(* DeleteConfigMapConfiguration.                                           *)
(***************************************************************************)
Arrive(r) ==
    /\ pc[r] = "idle"
    /\ Cardinality(InFlight) < MaxInFlight
    /\ \E asked \in RequestRecord : req' = [req EXCEPT ![r] = asked]
    /\ Goto(r, "get")
    /\ alone' = IF InFlight = {} THEN alone
                ELSE [q \in Requests |-> alone[q] /\ q \notin InFlight /\ q # r]
    /\ UNCHANGED <<versions, heap, cached, held, sent>>

\* Mutant: the handler gets a copy of the object.
GetCopyFromCache(r) ==
    /\ pc[r] = "get"
    /\ held' = [held EXCEPT ![r] = heap[cached]]
    /\ Goto(r, "mutate")
    /\ UNCHANGED <<versions, heap, cached, req, sent, alone>>

\* getConfigMapFromCluster: no copy is made.  The cluster manager or the object
\* may not be there.
GetFromCache(r) ==
    /\ pc[r] = "get"
    /\ \/ held' = [held EXCEPT ![r] = cached] /\ Goto(r, "mutate")
       \/ UNCHANGED held /\ Goto(r, "notFound")
    /\ UNCHANGED <<versions, heap, cached, req, sent, alone>>

\* What a request makes of its item.
Wanted(r) == IF req[r].op = "save" THEN req[r].value ELSE None

\* Mutant: an item that is not there yet is not added.
MutateModifiesOnly(r) ==
    LET object == heap[held[r]] IN
    /\ pc[r] = "mutate"
    /\ IF req[r].op = "save" /\ object.isNil
         THEN UNCHANGED heap /\ Finish(r, "panic")
         ELSE /\ heap' = IF object.data[req[r].key] = None THEN heap
                          ELSE [heap EXCEPT ![held[r]].data[req[r].key] = Wanted(r)]
              /\ Goto(r, "encode")
              /\ UNCHANGED <<held, sent>>
    /\ UNCHANGED <<versions, cached, req, alone>>

\* The assignment to the map, or delete.  Assigning to a nil map panics;
\* deleting from it does nothing.
Mutate(r) ==
    /\ pc[r] = "mutate"
    /\ IF req[r].op = "save" /\ heap[held[r]].isNil
         THEN UNCHANGED heap /\ Finish(r, "panic")
         ELSE /\ heap' = [heap EXCEPT ![held[r]].data[req[r].key] = Wanted(r)]
              /\ Goto(r, "encode")
              /\ UNCHANGED <<held, sent>>
    /\ UNCHANGED <<versions, cached, req, alone>>

\* Mutant: the object is sent as if it were of the latest version.
EncodeAsLatest(r) ==
    /\ pc[r] = "encode"
    /\ sent' = [sent EXCEPT ![r] = [rv |-> Latest, data |-> heap[held[r]].data]]
    /\ Goto(r, "sent")
    /\ UNCHANGED <<versions, heap, cached, req, held, alone>>

\* Update encodes the object as it is now, with what other handlers did to it.
Encode(r) ==
    /\ pc[r] = "encode"
    /\ sent' = [sent EXCEPT ![r] = [rv |-> heap[held[r]].rv, data |-> heap[held[r]].data]]
    /\ Goto(r, "sent")
    /\ UNCHANGED <<versions, heap, cached, req, held, alone>>

\* The API server accepts the object, which is a new version if it says
\* anything new; its answer reaches the handler or is lost.
Commit(r) ==
    /\ pc[r] = "sent"
    /\ sent[r].rv = Latest
    /\ versions' = IF sent[r].data = versions[Latest] THEN versions
                   ELSE Append(versions, sent[r].data)
    /\ \E answer \in {"ok", "err"} : Finish(r, answer)
    /\ UNCHANGED <<heap, cached, req, alone>>

\* Mutant: the error of Update is ignored.
UpdateErrorIgnored(r) ==
    /\ pc[r] \in {"encode", "sent"}
    /\ Finish(r, "ok")
    /\ UNCHANGED <<versions, heap, cached, req, alone>>

\* The cluster manager is gone, the request does not get through, or the
\* server finds that the version is not the latest.  The object in the cache
\* keeps the edit.
UpdateFails(r) ==
    /\ pc[r] \in {"encode", "sent"}
    /\ Finish(r, "err")
    /\ UNCHANGED <<versions, heap, cached, req, alone>>

\* Two goroutines in one map, one of them writing: the runtime may notice and
\* then ends the process; if it does not, one comes before the other.  The
\* next process lists the ConfigMap anew.
Touches(r, a) == pc[r] \in {"mutate", "encode"} /\ held[r] = a

ConcurrentMapAccess ==
    /\ \E r, q \in Requests : /\ r # q /\ pc[r] = "mutate"
                              /\ Touches(q, held[r])
    /\ heap' = [a \in Addrs |-> Decode(Latest)]
    /\ pc' = [r \in Requests |-> IF pc[r] \in Handling THEN "lost" ELSE pc[r]]
    /\ held' = [r \in Requests |-> None]
    /\ sent' = [r \in Requests |-> NothingSent]
    /\ UNCHANGED <<versions, cached, req, alone>>

Step(r) ==
    \/ Arrive(r) \/ GetFromCache(r) \/ Mutate(r) \/ Encode(r)
    \/ Commit(r) \/ UpdateFails(r)

Next ==
    \/ ExternalWrite \/ Deliver \/ ConcurrentMapAccess
    \/ \E r \in Requests : Step(r)

Spec == Init /\ [][Next]_vars

-----------------------------------------------------------------------------
(***************************************************************************)
(* Properties that hold however the handlers interleave.                   *)
(***************************************************************************)

\* The requests whose edit has been made in some object.
Mutated(r) == pc[r] \in {"encode", "sent", "ok", "err"}

\* What a handler commits differs from the version before only in items that
\* users of k8z asked to change, and in the way they asked: however old
\* the cached object is and however many handlers share it, no edit
\* made by others in the meantime is undone.
CommitsOnlyWhatWasAsked ==
    [][\A r \in Requests :
           pc[r] = "sent" /\ pc'[r] # "sent" =>
               \A k \in Keys : versions'[Latest'][k] # versions[Latest][k] =>
                   \E q \in Requests : /\ Mutated(q) /\ req[q].key = k
                                       /\ Wanted(q) = versions'[Latest'][k]]_vars

\* A request that no other overlaps and that is answered with success has its
\* item on the server, whatever earlier requests left in the cached object.
SuccessIsStored ==
    [][\A r \in Requests :
           alone[r] /\ pc[r] = "sent" /\ pc'[r] = "ok" =>
               versions'[Latest'][req[r].key] = Wanted(r)]_vars

\* As long as no request failed and no two overlapped, a cache of the latest
\* version shows the items of that version, nothing more and nothing less.
Quiet == InFlight = {}

CacheIsHonest ==
    /\ Quiet
    /\ \A r \in Requests : alone[r] /\ pc[r] # "err"
    /\ heap[cached].rv = Latest
    => heap[cached].data = versions[Latest]

(***************************************************************************)
(* What the program says of itself and does not do.                        *)
(***************************************************************************)

\* "Save (add or modify) a configuration item": every item can be added, the
\* first one of an empty ConfigMap too.
SaveAddsItems == \A r \in Requests : pc[r] # "panic"

\* A save saves one item: the one of the request.  The edit of a request
\* that failed stays in the cached object and the next request commits it.
SaveSavesOneItem ==
    [][\A r \in Requests :
           pc[r] = "sent" /\ pc'[r] = "ok" =>
               \A k \in Keys \ {req[r].key} :
                   versions'[Latest'][k] = versions[Latest][k]]_vars

=============================================================================
