------------------------- MODULE ConfigMapEditProofs -------------------------
(***************************************************************************)
(* What holds of ConfigMapEdit for every number of requests, items and     *)
(* versions: optimistic concurrency protects the edits of others even      *)
(* though the handlers share and change the cached objects.                *)
(***************************************************************************)
EXTENDS ConfigMapEdit, TLAPS

USE DEF vars, Latest

LEMMA NoItemsType == NoItems \in Data
  BY DEF NoItems, Data

LEMMA DecodeType ==
  ASSUME versions \in Seq(Data), NEW v \in 1..Len(versions)
  PROVE  /\ Decode(v) \in Object
         /\ Decode(v).rv = v
         /\ Decode(v).data = versions[v]
  BY DEF Decode, Object

LEMMA OneVersion ==
  ASSUME NEW d \in Data
  PROVE  <<d>> \in Seq(Data) /\ Len(<<d>>) = 1
  OBVIOUS

LEMMA InitTypeOK == Init => TypeOK
  <1> SUFFICES ASSUME Init PROVE TypeOK
    OBVIOUS
  <1>1. versions \in Seq(Data) /\ Len(versions) = 1
    <2> PICK d \in Data : versions = <<d>>
      BY DEF Init
    <2> QED BY OneVersion
  <1>2. heap \in [Addrs -> Object]
    <2>1. 1 \in 1..Len(versions)
      BY <1>1
    <2>2. Decode(1) \in Object
      BY <1>1, <2>1, DecodeType
    <2> QED BY <2>2 DEF Init
  <1>3. RequestRecord # {}
    <2> PICK k \in Keys, v \in Values : TRUE
      BY NonEmptyAssumption
    <2>1. [op |-> "save", key |-> k, value |-> v] \in RequestRecord
      BY DEF RequestRecord
    <2> QED BY <2>1
  <1>4. req \in [Requests -> RequestRecord]
    BY <1>3 DEF Init
  <1>5. NothingSent \in [rv: Nat, data: Data]
    BY NoItemsType DEF NothingSent
  <1> QED BY <1>1, <1>2, <1>4, <1>5 DEF Init, TypeOK

LEMMA NothingSentType == NothingSent \in [rv: Nat, data: Data]
  BY NoItemsType DEF NothingSent

\* A version the server stores is appended to those it had.
LEMMA AppendFacts ==
  ASSUME versions \in Seq(Data), NEW d \in Data
  PROVE  /\ Append(versions, d) \in Seq(Data)
         /\ Len(Append(versions, d)) = Len(versions) + 1
         /\ \A v \in 1..Len(versions) : Append(versions, d)[v] = versions[v]
         /\ Append(versions, d)[Len(versions) + 1] = d
  OBVIOUS

-----------------------------------------------------------------------------
(***************************************************************************)
(* Every object in memory and every object under way to the server says    *)
(* what a version of the server says, but for items that somebody asked    *)
(* k8z to change.                                                          *)
(***************************************************************************)
Asked(k, v) == \E q \in Requests : Mutated(q) /\ req[q].key = k /\ Wanted(q) = v

Faithful(rv, data) ==
    /\ rv \in 1..Latest
    /\ \A k \in Keys : data[k] = versions[rv][k] \/ Asked(k, data[k])

ObjectsFaithful == \A a \in Addrs : Faithful(heap[a].rv, heap[a].data)

SentFaithful ==
    \A r \in Requests : pc[r] = "sent" => Faithful(sent[r].rv, sent[r].data)

HoldersHold ==
    \A r \in Requests : pc[r] \in {"mutate", "encode"} => held[r] \in Addrs

Inv == TypeOK /\ ObjectsFaithful /\ SentFaithful /\ HoldersHold

LEMMA InitInv == Init => Inv
  <1> SUFFICES ASSUME Init PROVE Inv
    OBVIOUS
  <1>1. TypeOK
    BY InitTypeOK
  <1>2. 1 \in 1..Len(versions)
    <2> PICK d \in Data : versions = <<d>>
      BY DEF Init
    <2> QED BY OneVersion
  <1>3. Decode(1).rv = 1 /\ Decode(1).data = versions[1]
    BY <1>1, <1>2, DecodeType DEF TypeOK
  <1> QED BY <1>1, <1>2, <1>3 DEF Init, Inv, ObjectsFaithful, SentFaithful, HoldersHold, Faithful

\* What was asked stays asked as long as no request is lost.
LEMMA AskedStays ==
  ASSUME TypeOK, NEW r \in Requests, NEW step, Goto(r, step), pc[r] # "idle" => req' = req,
         \A q \in Requests : q # r => req'[q] = req[q],
         Mutated(r) => step \in {"encode", "sent", "ok", "err"} /\ req' = req,
         NEW k, NEW v, Asked(k, v)
  PROVE  Asked(k, v)'
  <1> PICK q \in Requests : Mutated(q) /\ req[q].key = k /\ Wanted(q) = v
    BY DEF Asked
  <1>1. Mutated(q)' /\ req'[q] = req[q]
    BY DEF Mutated, Goto, TypeOK
  <1>2. Wanted(q)' = Wanted(q)
    BY <1>1 DEF Wanted
  <1> QED BY <1>1, <1>2 DEF Asked

\* Faithful objects stay so when versions are added and edits asked for.
LEMMA FaithfulStays ==
  ASSUME versions \in Seq(Data), versions' \in Seq(Data), Latest' >= Latest,
         \A v \in 1..Latest : versions'[v] = versions[v],
         \A k, v : Asked(k, v) => Asked(k, v)',
         NEW rv, NEW data, Faithful(rv, data)
  PROVE  /\ rv \in 1..Latest'
         /\ \A k \in Keys : data[k] = versions'[rv][k] \/ Asked(k, data[k])'
  <1>1. rv \in 1..Latest /\ rv \in 1..Latest'
    BY DEF Faithful
  <1>2. ASSUME NEW k \in Keys
        PROVE  data[k] = versions'[rv][k] \/ Asked(k, data[k])'
    <2>1. versions'[rv] = versions[rv]
      BY <1>1
    <2> QED BY <2>1 DEF Faithful
  <1> QED BY <1>1, <1>2

\* An object with one item changed is an object.
LEMMA EditedObject ==
  ASSUME NEW o \in Object, NEW k \in Keys, NEW v \in Values \cup {None}
  PROVE  [o EXCEPT !.data[k] = v] \in Object
  <1>1. [o.data EXCEPT ![k] = v] \in Data
    BY DEF Object, Data
  <1> QED BY <1>1 DEF Object

-----------------------------------------------------------------------------
(***************************************************************************)
(* Type correctness, one step per action.                                  *)
(***************************************************************************)
LEMMA StepTypeOK ==
  ASSUME TypeOK, HoldersHold, NEW r \in Requests, Step(r)
  PROVE  TypeOK'
  <1> USE DEF TypeOK, Goto, Finish, Answered, Handling
  <1>1. CASE Arrive(r)
    BY <1>1 DEF Arrive
  <1>2. CASE GetFromCache(r)
    BY <1>2 DEF GetFromCache
  <1>3. CASE Mutate(r)
    <2>1. held[r] \in Addrs /\ req[r].key \in Keys /\ Wanted(r) \in Values \cup {None}
      BY <1>3 DEF Mutate, HoldersHold, RequestRecord, Wanted
    <2>2. CASE req[r].op = "save" /\ heap[held[r]].isNil
      BY <1>3, <2>2, NothingSentType DEF Mutate
    <2>3. CASE ~ (req[r].op = "save" /\ heap[held[r]].isNil)
      <3>1. heap' = [heap EXCEPT ![held[r]].data[req[r].key] = Wanted(r)]
        BY <1>3, <2>3 DEF Mutate
      <3>2. [heap[held[r]] EXCEPT !.data[req[r].key] = Wanted(r)] \in Object
        BY <2>1, EditedObject
      <3>3. heap' \in [Addrs -> Object]
        BY <2>1, <3>1, <3>2
      <3> QED BY <1>3, <2>3, <3>3 DEF Mutate
    <2> QED BY <2>2, <2>3
  <1>4. CASE Encode(r)
    <2>1. held[r] \in Addrs
      BY <1>4 DEF Encode, HoldersHold
    <2> QED BY <1>4, <2>1 DEF Encode, Object
  <1>5. CASE Commit(r)
    <2>1. sent[r].data \in Data
      OBVIOUS
    <2>2. versions' \in Seq(Data) /\ Len(versions') > 0
      BY <1>5, <2>1, AppendFacts DEF Commit
    <2> QED BY <1>5, <2>2, NothingSentType DEF Commit
  <1>6. CASE UpdateFails(r)
    BY <1>6, NothingSentType DEF UpdateFails
  <1> QED BY <1>1, <1>2, <1>3, <1>4, <1>5, <1>6 DEF Step

LEMMA LatestExists == TypeOK => Latest \in 1..Len(versions)
  BY DEF TypeOK

LEMMA OtherTypeOK ==
  ASSUME TypeOK, ObjectsFaithful, ExternalWrite \/ Deliver \/ ConcurrentMapAccess
  PROVE  TypeOK'
  <1> USE DEF TypeOK
  <1>1. CASE ExternalWrite
    <2> PICK k \in Keys, v \in Values \cup {None} :
               versions' = Append(versions, [versions[Latest] EXCEPT ![k] = v])
      BY <1>1 DEF ExternalWrite
    <2>1. versions[Latest] \in Data
      BY LatestExists
    <2>2. [versions[Latest] EXCEPT ![k] = v] \in Data
      BY <2>1 DEF Data
    <2>3. versions' \in Seq(Data) /\ Len(versions') > 0
      BY <2>2, AppendFacts
    <2> QED BY <1>1, <2>3 DEF ExternalWrite
  <1>2. CASE Deliver
    <2> PICK a \in Addrs \ {cached}, v \in heap[cached].rv..Latest :
               heap' = [heap EXCEPT ![a] = Decode(v)] /\ cached' = a
      BY <1>2 DEF Deliver
    <2>1. v \in 1..Len(versions)
      BY DEF ObjectsFaithful, Faithful, Object
    <2>2. Decode(v) \in Object
      BY <2>1, DecodeType
    <2> QED BY <1>2, <2>2 DEF Deliver
  <1>3. CASE ConcurrentMapAccess
    <2>1. Decode(Latest) \in Object
      BY LatestExists, DecodeType
    <2> QED BY <1>3, <2>1, NothingSentType DEF ConcurrentMapAccess
  <1> QED BY <1>1, <1>2, <1>3

-----------------------------------------------------------------------------
(***************************************************************************)
(* The invariant.                                                          *)
(***************************************************************************)
LEMMA StepInv ==
  ASSUME Inv, NEW r \in Requests, Step(r)
  PROVE  Inv'
  <1>0. TypeOK /\ ObjectsFaithful /\ SentFaithful /\ HoldersHold
    BY DEF Inv
  <1>1. TypeOK'
    BY <1>0, StepTypeOK
  <1>2. /\ versions \in Seq(Data) /\ versions' \in Seq(Data)
        /\ pc \in [Requests -> {"idle", "lost"} \cup Answered \cup Handling]
        /\ heap \in [Addrs -> Object]
        /\ held \in [Requests -> Addrs \cup {None}]
        /\ sent \in [Requests -> [rv: Nat, data: Data]]
        /\ req \in [Requests -> RequestRecord]
        /\ cached \in Addrs
    BY <1>0, <1>1 DEF TypeOK
  <1>3. HoldersHold'
    BY <1>0, <1>2 DEF HoldersHold, Step, Arrive, GetFromCache, Mutate, Encode, Commit,
          UpdateFails, Goto, Finish
  <1>4. \A k, v : Asked(k, v) => Asked(k, v)'
    <2>1. \E step : /\ Goto(r, step)
                    /\ Mutated(r) => step \in {"encode", "sent", "ok", "err"} /\ req' = req
      BY <1>2 DEF Step, Arrive, GetFromCache, Mutate, Encode, Commit, UpdateFails, Finish,
            Goto, Mutated
    <2>2. pc[r] # "idle" => req' = req
      BY DEF Step, Arrive, GetFromCache, Mutate, Encode, Commit, UpdateFails
    <2>3. \A q \in Requests : q # r => req'[q] = req[q]
      BY <1>2 DEF Step, Arrive, GetFromCache, Mutate, Encode, Commit, UpdateFails
    <2> QED BY <1>0, <2>1, <2>2, <2>3, AskedStays
  <1>5. Latest' >= Latest /\ \A v \in 1..Latest : versions'[v] = versions[v]
    <2>1. CASE Commit(r)
      <3>1. sent[r].data \in Data
        BY <1>2
      <3> QED BY <1>2, <2>1, <3>1, AppendFacts DEF Commit
    <2>2. CASE ~ Commit(r)
      <3>1. versions' = versions
        BY <2>2 DEF Step, Arrive, GetFromCache, Mutate, Encode, UpdateFails
      <3> QED BY <1>2, <3>1
    <2> QED BY <2>1, <2>2
  <1>6. \A rv, data : Faithful(rv, data) => Faithful(rv, data)'
    BY <1>2, <1>4, <1>5, FaithfulStays DEF Faithful
  <1>7. ObjectsFaithful'
    <2>1. CASE heap' = heap
      BY <1>0, <1>6, <2>1 DEF ObjectsFaithful
    <2>2. CASE heap' # heap
      <3>1. /\ pc[r] = "mutate" /\ pc' = [pc EXCEPT ![r] = "encode"]
            /\ heap' = [heap EXCEPT ![held[r]].data[req[r].key] = Wanted(r)]
            /\ req' = req
        BY <2>2 DEF Step, Arrive, GetFromCache, Mutate, Encode, Commit, UpdateFails, Goto
      <3>2. held[r] \in Addrs /\ req[r].key \in Keys
        BY <1>0, <1>2, <3>1 DEF HoldersHold, RequestRecord
      <3>3. Asked(req[r].key, Wanted(r))'
        BY <1>2, <3>1 DEF Asked, Mutated, Wanted
      <3>6. Wanted(r)' = Wanted(r) /\ req'[r].key = req[r].key
        BY <3>1 DEF Wanted
      <3> SUFFICES ASSUME NEW a \in Addrs PROVE Faithful(heap[a].rv, heap[a].data)'
        BY DEF ObjectsFaithful
      <3>4. CASE a # held[r]
        BY <1>0, <1>2, <1>6, <3>1, <3>4 DEF ObjectsFaithful
      <3>5. CASE a = held[r]
        <4>1. heap'[a].rv = heap[a].rv
          BY <1>2, <3>1, <3>2, <3>5 DEF Object
        <4>2. heap'[a].data = [heap[a].data EXCEPT ![req[r].key] = Wanted(r)]
          BY <1>2, <3>1, <3>2, <3>5 DEF Object
        <4>3. PICK rv, before, after :
                  /\ rv = heap[a].rv /\ rv = heap'[a].rv
                  /\ before = heap[a].data /\ after = heap'[a].data
          BY <4>1
        <4>4. Faithful(rv, before)'
          BY <1>0, <1>6, <4>3 DEF ObjectsFaithful
        <4>5. ASSUME NEW k \in Keys
              PROVE  after[k] = versions'[rv][k] \/ Asked(k, after[k])'
          <5>1. CASE k = req[r].key
            <6>1. after[k] = Wanted(r)
              BY <1>2, <4>2, <4>3, <5>1 DEF Object, Data
            <6> QED BY <3>3, <5>1, <6>1, <3>6
          <5>2. CASE k # req[r].key
            <6>1. after[k] = before[k]
              BY <1>2, <4>2, <4>3, <5>2 DEF Object, Data
            <6> QED BY <4>4, <6>1 DEF Faithful
          <5> QED BY <5>1, <5>2
        <4>6. Faithful(rv, after)'
          BY <4>4, <4>5 DEF Faithful
        <4> QED BY <4>3, <4>6
      <3> QED BY <3>4, <3>5
    <2> QED BY <2>1, <2>2
  <1>8. SentFaithful'
    <2> SUFFICES ASSUME NEW q \in Requests, pc'[q] = "sent"
                 PROVE  Faithful(sent[q].rv, sent[q].data)'
      BY DEF SentFaithful
    <2>1. CASE sent'[q] = sent[q] /\ pc[q] = "sent"
      BY <1>0, <1>6, <2>1 DEF SentFaithful
    <2>2. CASE ~ (sent'[q] = sent[q] /\ pc[q] = "sent")
      <3>1. q = r /\ Encode(r)
        BY <1>2, <2>2 DEF Step, Arrive, GetFromCache, Mutate, Encode, Commit, UpdateFails,
              Goto, Finish
      <3>2. held[r] \in Addrs
        BY <1>0, <3>1 DEF Encode, HoldersHold
      <3>3. sent'[q].rv = heap'[held[r]].rv /\ sent'[q].data = heap'[held[r]].data
        BY <1>2, <3>1, <3>2 DEF Encode
      <3>4. Faithful(heap[held[r]].rv, heap[held[r]].data)
        BY <1>0, <3>2 DEF ObjectsFaithful
      <3>5. sent'[q].rv = heap[held[r]].rv /\ sent'[q].data = heap[held[r]].data
        BY <1>2, <3>1, <3>2 DEF Encode
      <3> QED BY <1>6, <3>4, <3>5
    <2> QED BY <2>1, <2>2
  <1> QED BY <1>1, <1>3, <1>7, <1>8 DEF Inv

LEMMA OtherInv ==
  ASSUME Inv, ExternalWrite \/ Deliver \/ ConcurrentMapAccess
  PROVE  Inv'
  <1>0. TypeOK /\ ObjectsFaithful /\ SentFaithful /\ HoldersHold
    BY DEF Inv
  <1>1. TypeOK'
    BY <1>0, OtherTypeOK
  <1>2. /\ versions \in Seq(Data) /\ versions' \in Seq(Data)
        /\ heap \in [Addrs -> Object] /\ cached \in Addrs
        /\ pc \in [Requests -> {"idle", "lost"} \cup Answered \cup Handling]
    BY <1>0, <1>1 DEF TypeOK
  <1>3. CASE ExternalWrite
    <2>1. PICK k \in Keys, v \in Values \cup {None} :
               versions' = Append(versions, [versions[Latest] EXCEPT ![k] = v])
      BY <1>3 DEF ExternalWrite
    <2>2. versions[Latest] \in Data
      BY <1>0, LatestExists DEF TypeOK
    <2>3. [versions[Latest] EXCEPT ![k] = v] \in Data
      BY <2>2 DEF Data
    <2>4. Latest' >= Latest /\ \A w \in 1..Latest : versions'[w] = versions[w]
      BY <1>2, <2>1, <2>3, AppendFacts
    <2>5. /\ UNCHANGED <<heap, cached, req, pc, held, sent>>
          /\ \A x, y : Asked(x, y) => Asked(x, y)'
      BY <1>3 DEF ExternalWrite, Asked, Mutated, Wanted
    <2>6. \A rv, data : Faithful(rv, data) => Faithful(rv, data)'
      BY <1>2, <2>4, <2>5, FaithfulStays DEF Faithful
    <2> QED BY <1>0, <1>1, <2>5, <2>6 DEF Inv, ObjectsFaithful, SentFaithful, HoldersHold
  <1>4. CASE Deliver
    <2>1. PICK a \in Addrs \ {cached}, v \in heap[cached].rv..Latest :
               heap' = [heap EXCEPT ![a] = Decode(v)] /\ cached' = a
      BY <1>4 DEF Deliver
    <2>2. v \in 1..Len(versions)
      BY <1>0, <2>1 DEF ObjectsFaithful, Faithful, TypeOK, Object
    <2>3. Decode(v).rv = v /\ Decode(v).data = versions[v]
      BY <1>2, <2>2, DecodeType
    <2>4. UNCHANGED <<versions, req, pc, held, sent>>
      BY <1>4 DEF Deliver
    <2>5. \A rv, data : Faithful(rv, data) => Faithful(rv, data)'
      BY <2>4 DEF Faithful, Asked, Mutated, Wanted
    <2>6. Faithful(v, versions[v])
      BY <2>2 DEF Faithful
    <2>7. ObjectsFaithful'
      BY <1>0, <1>2, <2>1, <2>3, <2>5, <2>6 DEF ObjectsFaithful
    <2> QED BY <1>0, <1>1, <2>4, <2>5, <2>7 DEF Inv, SentFaithful, HoldersHold
  <1>5. CASE ConcurrentMapAccess
    <2>1. /\ heap' = [a \in Addrs |-> Decode(Latest)] /\ versions' = versions
          /\ \A r \in Requests : pc'[r] \notin Handling
      BY <1>2, <1>5 DEF ConcurrentMapAccess, Handling
    <2>2. Latest \in 1..Len(versions)
      BY <1>0, LatestExists
    <2>3. Decode(Latest).rv = Latest /\ Decode(Latest).data = versions[Latest]
      BY <1>2, <2>2, DecodeType
    <2>4. ObjectsFaithful'
      BY <2>1, <2>2, <2>3 DEF ObjectsFaithful, Faithful
    <2> QED BY <1>1, <2>1, <2>4 DEF Inv, SentFaithful, HoldersHold, Handling
  <1> QED BY <1>3, <1>4, <1>5

LEMMA StutterInv == Inv /\ UNCHANGED vars => Inv'
  BY DEF Inv, TypeOK, ObjectsFaithful, SentFaithful, HoldersHold, Faithful, Asked, Mutated,
         Wanted

LEMMA Invariance == Spec => []Inv
  <1>1. Inv /\ [Next]_vars => Inv'
    BY StepInv, OtherInv, StutterInv DEF Next
  <1> QED BY <1>1, InitInv, PTL DEF Spec

\* Every reachable state has the types the module states.
THEOREM TypeCorrect == Spec => []TypeOK
  <1>1. Inv => TypeOK
    BY DEF Inv
  <1> QED BY <1>1, Invariance, PTL

\* No commit of a handler changes an item that nobody asked k8z to change, or
\* changes one in another way than was asked.
THEOREM CommitsAreAsked == Spec => CommitsOnlyWhatWasAsked
  <1> DEFINE OnlyAsked ==
        \A r \in Requests :
           pc[r] = "sent" /\ pc'[r] # "sent" =>
               \A k \in Keys : versions'[Latest'][k] # versions[Latest][k] =>
                   \E q \in Requests : /\ Mutated(q) /\ req[q].key = k
                                       /\ Wanted(q) = versions'[Latest'][k]
  <1>1. Inv /\ [Next]_vars => OnlyAsked
    <2> SUFFICES ASSUME Inv, [Next]_vars,
                        NEW r \in Requests, pc[r] = "sent", pc'[r] # "sent",
                        NEW k \in Keys, versions'[Latest'][k] # versions[Latest][k]
                 PROVE  Asked(k, versions'[Latest'][k])
      BY DEF Asked
    <2>1. TypeOK /\ SentFaithful
      BY DEF Inv
    <2>2. Commit(r)
      <3>1. pc \in [Requests -> {"idle", "lost"} \cup Answered \cup Handling]
        BY <2>1 DEF TypeOK
      <3>2. ~ (ExternalWrite \/ Deliver \/ ConcurrentMapAccess)
        BY DEF ExternalWrite, Deliver, ConcurrentMapAccess
      <3>3. PICK q \in Requests : Step(q)
        BY <3>2 DEF Next
      <3>4. Commit(q)
        BY <3>3 DEF Step, Arrive, GetFromCache, Mutate, Encode, UpdateFails
      <3>5. q = r
        BY <3>1, <3>4 DEF Commit, Finish, Goto
      <3> QED BY <3>4, <3>5
    <2>3. sent[r].data \in Data /\ versions \in Seq(Data)
      BY <2>1 DEF TypeOK
    <2>4. sent[r].rv = Latest /\ versions'[Latest'] = sent[r].data
      <3>1. sent[r].data # versions[Latest]
        BY <2>2 DEF Commit
      <3>2. versions' = Append(versions, sent[r].data)
        BY <2>2, <3>1 DEF Commit
      <3> QED BY <2>2, <2>3, <3>2, AppendFacts DEF Commit
    <2> QED BY <2>1, <2>4 DEF SentFaithful, Faithful
  <1>2. Spec => [][OnlyAsked]_vars
    BY <1>1, Invariance, PTL DEF Spec
  <1> QED BY <1>2 DEF CommitsOnlyWhatWasAsked

-----------------------------------------------------------------------------
(***************************************************************************)
(* Requests that no other overlaps.  What such a request writes into the   *)
(* object it shares with the cache is still there when it is sent, and     *)
(* what it sent is still what the object says when the server answers.     *)
(***************************************************************************)
Apart == \A r, q \in InFlight : alone[r] => r = q

SentAsHeld(r) ==
    /\ held[r] \in Addrs
    /\ sent[r].rv = heap[held[r]].rv
    /\ sent[r].data = heap[held[r]].data

OwnEdit ==
    \A r \in Requests : alone[r] =>
        /\ pc[r] = "encode" => heap[held[r]].data[req[r].key] = Wanted(r)
        /\ pc[r] = "sent" => sent[r].data[req[r].key] = Wanted(r) /\ SentAsHeld(r)

\* The object is held by a request that edited it and has no answer yet.
UnderEdit(a) == \E r \in Requests : pc[r] \in {"encode", "sent"} /\ held[r] = a

NothingWentWrong == \A r \in Requests : alone[r] /\ pc[r] # "err"

Honest ==
    NothingWentWrong =>
        \A a \in Addrs : heap[a].rv = Latest =>
            heap[a].data = versions[Latest] \/ UnderEdit(a)

Solo == Apart /\ OwnEdit /\ Honest

LEMMA InitSolo == Init => Solo
  <1> SUFFICES ASSUME Init PROVE Solo
    OBVIOUS
  <1>1. versions \in Seq(Data) /\ 1 \in 1..Len(versions)
    <2> PICK d \in Data : versions = <<d>>
      BY DEF Init
    <2> QED BY OneVersion
  <1>2. \A a \in Addrs : heap[a].rv = 1 /\ heap[a].data = versions[1]
    BY <1>1, DecodeType DEF Init
  <1> QED BY <1>2 DEF Init, Solo, Apart, InFlight, Handling, OwnEdit, Honest

\* What a step of one request leaves to the others.
LEMMA Undisturbed ==
  ASSUME TypeOK, Apart, NEW r \in Requests, Step(r)
  PROVE  /\ \A q \in Requests : q # r /\ alone'[q] => pc[q] \notin Handling
         /\ \A q \in Requests : alone'[q] => alone[q]
         /\ \A q \in Requests : q # r => /\ pc'[q] = pc[q] /\ held'[q] = held[q]
                                         /\ sent'[q] = sent[q] /\ req'[q] = req[q]
         /\ pc[r] = "idle" \/ (pc[r] \in Handling /\ req' = req /\ alone' = alone)
  <1>1. /\ pc \in [Requests -> {"idle", "lost"} \cup Answered \cup Handling]
        /\ held \in [Requests -> Addrs \cup {None}]
        /\ sent \in [Requests -> [rv: Nat, data: Data]]
        /\ req \in [Requests -> RequestRecord]
        /\ alone \in [Requests -> BOOLEAN]
    BY DEF TypeOK
  <1>2. \A q \in Requests : q # r => /\ pc'[q] = pc[q] /\ held'[q] = held[q]
                                     /\ sent'[q] = sent[q] /\ req'[q] = req[q]
    BY <1>1 DEF Step, Arrive, GetFromCache, Mutate, Encode, Commit, UpdateFails, Goto, Finish
  <1>3. CASE Arrive(r)
    <2>1. pc[r] = "idle"
      BY <1>3 DEF Arrive
    <2>2. /\ \A q \in Requests : q # r /\ alone'[q] => pc[q] \notin Handling
          /\ \A q \in Requests : alone'[q] => alone[q]
      <3>1. CASE InFlight = {}
        BY <1>3, <3>1 DEF Arrive, InFlight
      <3>2. CASE InFlight # {}
        BY <1>3, <3>2 DEF Arrive, InFlight
      <3> QED BY <3>1, <3>2
    <2> QED BY <1>2, <2>1, <2>2
  <1>4. CASE ~ Arrive(r)
    <2>1. pc[r] \in Handling /\ req' = req /\ alone' = alone
      BY <1>4 DEF Step, GetFromCache, Mutate, Encode, Commit, UpdateFails, Handling
    <2> QED BY <1>2, <2>1 DEF Apart, InFlight
  <1> QED BY <1>3, <1>4

LEMMA StepApart ==
  ASSUME TypeOK, Apart, NEW r \in Requests, Step(r)
  PROVE  Apart'
  <1>1. /\ \A q \in Requests : q # r => pc'[q] = pc[q]
        /\ pc[r] = "idle" \/ (pc[r] \in Handling /\ alone' = alone)
    BY Undisturbed
  <1>2. CASE pc[r] = "idle"
    <2>1. Arrive(r)
      BY <1>2 DEF Step, GetFromCache, Mutate, Encode, Commit, UpdateFails
    <2>2. CASE InFlight = {}
      <3>1. InFlight' \subseteq {r}
        BY <1>1, <2>2 DEF InFlight
      <3> QED BY <3>1 DEF Apart
    <2>3. CASE InFlight # {}
      <3>1. \A q \in InFlight' : ~ alone'[q]
        BY <1>1, <2>1, <2>3 DEF Arrive, InFlight
      <3> QED BY <3>1 DEF Apart
    <2> QED BY <2>2, <2>3
  <1>3. CASE pc[r] \in Handling /\ alone' = alone
    <2>1. InFlight' \subseteq InFlight
      BY <1>1, <1>3 DEF InFlight
    <2> QED BY <1>3, <2>1 DEF Apart
  <1> QED BY <1>1, <1>2, <1>3

LEMMA StepOwnEdit ==
  ASSUME Inv, Solo, NEW r \in Requests, Step(r)
  PROVE  OwnEdit'
  <1>1. /\ \A q \in Requests : q # r /\ alone'[q] => pc[q] \notin Handling
        /\ \A q \in Requests : alone'[q] => alone[q]
        /\ \A q \in Requests : q # r => pc'[q] = pc[q]
    BY Undisturbed DEF Inv, Solo
  <1>2. /\ pc \in [Requests -> {"idle", "lost"} \cup Answered \cup Handling]
        /\ heap \in [Addrs -> Object]
        /\ held \in [Requests -> Addrs \cup {None}]
        /\ sent \in [Requests -> [rv: Nat, data: Data]]
        /\ req \in [Requests -> RequestRecord]
        /\ HoldersHold
    BY DEF Inv, TypeOK
  <1>3. SUFFICES ASSUME alone'[r]
                 PROVE  /\ pc'[r] = "encode" =>
                              heap'[held'[r]].data[req'[r].key] = Wanted(r)'
                        /\ pc'[r] = "sent" =>
                              sent'[r].data[req'[r].key] = Wanted(r)' /\ SentAsHeld(r)'
    BY <1>1 DEF OwnEdit, Handling
  <1>4. alone[r]
    BY <1>1, <1>3
  <1>5. CASE Mutate(r) /\ pc'[r] = "encode"
    <2>1. /\ heap' = [heap EXCEPT ![held[r]].data[req[r].key] = Wanted(r)]
          /\ req' = req /\ held' = held /\ pc[r] = "mutate"
      BY <1>2, <1>5 DEF Mutate, Finish, Goto
    <2>2. held[r] \in Addrs /\ req[r].key \in Keys
      BY <1>2, <2>1 DEF HoldersHold, RequestRecord
    <2>3. heap[held[r]].data \in Data
      BY <1>2, <2>2 DEF Object
    <2>4. heap'[held[r]].data[req[r].key] = Wanted(r)
      BY <1>2, <2>1, <2>2, <2>3 DEF Object, Data
    <2>5. Wanted(r)' = Wanted(r)
      BY <2>1 DEF Wanted
    <2> QED BY <1>5, <2>1, <2>4, <2>5
  <1>6. CASE Encode(r)
    <2>1. /\ pc[r] = "encode" /\ pc'[r] = "sent"
          /\ sent'[r] = [rv |-> heap[held[r]].rv, data |-> heap[held[r]].data]
          /\ UNCHANGED <<heap, req, held>>
      BY <1>2, <1>6 DEF Encode, Goto
    <2>2. held[r] \in Addrs /\ heap[held[r]].data[req[r].key] = Wanted(r)
      BY <1>2, <1>4, <2>1 DEF HoldersHold, Solo, OwnEdit
    <2>3. Wanted(r)' = Wanted(r)
      BY <2>1 DEF Wanted
    <2> QED BY <2>1, <2>2, <2>3 DEF SentAsHeld
  <1>7. CASE ~ (Mutate(r) /\ pc'[r] = "encode") /\ ~ Encode(r)
    <2>1. pc'[r] \notin {"encode", "sent"}
      BY <1>2, <1>7 DEF Step, Arrive, GetFromCache, Mutate, Commit, UpdateFails, Goto, Finish
    <2> QED BY <2>1
  <1> QED BY <1>5, <1>6, <1>7

LEMMA StepHonest ==
  ASSUME Inv, Solo, NEW r \in Requests, Step(r)
  PROVE  Honest'
  <1>1. /\ \A q \in Requests : alone'[q] => alone[q]
        /\ \A q \in Requests : q # r => pc'[q] = pc[q] /\ held'[q] = held[q]
        /\ pc[r] = "idle" \/ pc[r] \in Handling
    BY Undisturbed DEF Inv, Solo
  <1>2. /\ pc \in [Requests -> {"idle", "lost"} \cup Answered \cup Handling]
        /\ heap \in [Addrs -> Object]
        /\ held \in [Requests -> Addrs \cup {None}]
        /\ sent \in [Requests -> [rv: Nat, data: Data]]
        /\ versions \in Seq(Data)
    BY DEF Inv, TypeOK
  <1>3. SUFFICES ASSUME NothingWentWrong', NEW a \in Addrs, heap'[a].rv = Latest'
                 PROVE  heap'[a].data = versions'[Latest'] \/ UnderEdit(a)'
    BY DEF Honest
  <1>4. NothingWentWrong
    <2>1. \A q \in Requests : alone[q] /\ (q # r => pc[q] # "err")
      BY <1>1, <1>3 DEF NothingWentWrong
    <2> QED BY <1>1, <2>1 DEF NothingWentWrong, Handling
  <1>5. heap[a].rv = Latest => heap[a].data = versions[Latest] \/ UnderEdit(a)
    BY <1>4 DEF Solo, Honest
  \* A step after which r is not at work on an object, and was not before.
  <1>6. ASSUME UNCHANGED <<versions, heap>>, pc[r] \notin {"encode", "sent"}
        PROVE  heap'[a].data = versions'[Latest'] \/ UnderEdit(a)'
    <2>1. UnderEdit(a) => UnderEdit(a)'
      BY <1>1, <1>6 DEF UnderEdit
    <2> QED BY <1>3, <1>5, <1>6, <2>1
  <1>7. CASE Arrive(r) \/ GetFromCache(r)
    BY <1>6, <1>7 DEF Arrive, GetFromCache
  <1>8. CASE Mutate(r)
    <2>1. CASE heap' = heap
      BY <1>6, <1>8, <2>1 DEF Mutate
    <2>2. CASE heap' # heap
      <3>1. /\ heap' = [heap EXCEPT ![held[r]].data[req[r].key] = Wanted(r)]
            /\ pc'[r] = "encode" /\ held' = held /\ pc[r] = "mutate" /\ versions' = versions
        BY <1>2, <1>8, <2>2 DEF Mutate, Goto
      <3>2. CASE a = held[r]
        BY <3>1, <3>2 DEF UnderEdit
      <3>3. CASE a # held[r]
        <4>1. heap'[a] = heap[a]
          BY <1>2, <3>1, <3>3
        <4>2. UnderEdit(a) => UnderEdit(a)'
          BY <1>1, <3>1 DEF UnderEdit
        <4> QED BY <1>3, <1>5, <3>1, <4>1, <4>2
      <3> QED BY <3>2, <3>3
    <2> QED BY <2>1, <2>2
  <1>9. CASE Encode(r)
    <2>1. /\ UNCHANGED <<versions, heap, held>>
          /\ pc[r] = "encode" /\ pc'[r] = "sent"
      BY <1>2, <1>9 DEF Encode, Goto
    <2>2. UnderEdit(a) => UnderEdit(a)'
      BY <1>1, <2>1 DEF UnderEdit
    <2> QED BY <1>3, <1>5, <2>1, <2>2
  <1>10. CASE Commit(r)
    <2>1. /\ pc[r] = "sent" /\ sent[r].rv = Latest /\ heap' = heap
          /\ versions' = IF sent[r].data = versions[Latest] THEN versions
                         ELSE Append(versions, sent[r].data)
      BY <1>10 DEF Commit
    <2>2. SentAsHeld(r)
      BY <1>4, <2>1 DEF NothingWentWrong, Solo, OwnEdit
    <2>3. heap[a].rv \in 1..Latest
      BY DEF Inv, ObjectsFaithful, Faithful
    <2>4. CASE sent[r].data = versions[Latest]
      <3>1. CASE a = held[r]
        BY <2>1, <2>2, <2>4, <3>1 DEF SentAsHeld
      <3>2. CASE a # held[r]
        <4>1. UnderEdit(a) => UnderEdit(a)'
          BY <1>1, <3>2 DEF UnderEdit
        <4> QED BY <1>3, <1>5, <2>1, <2>4, <4>1
      <3> QED BY <3>1, <3>2
    <2>5. CASE sent[r].data # versions[Latest]
      <3>1. Latest' = Latest + 1
        BY <1>2, <2>1, <2>5, AppendFacts
      <3>2. Latest \in Nat
        BY <1>2
      <3> QED BY <1>3, <2>1, <2>3, <3>1, <3>2
    <2> QED BY <2>4, <2>5
  <1>11. CASE UpdateFails(r)
    <2>1. pc'[r] = "err"
      BY <1>2, <1>11 DEF UpdateFails, Finish, Goto
    <2> QED BY <1>3, <2>1 DEF NothingWentWrong
  <1> QED BY <1>7, <1>8, <1>9, <1>10, <1>11 DEF Step

\* The server, the informer and the runtime leave what an undisturbed request
\* relies on alone.
LEMMA OtherSolo ==
  ASSUME Inv, Solo, ExternalWrite \/ Deliver \/ ConcurrentMapAccess
  PROVE  Solo'
  <1>1. /\ pc \in [Requests -> {"idle", "lost"} \cup Answered \cup Handling]
        /\ heap \in [Addrs -> Object]
        /\ versions \in Seq(Data)
        /\ HoldersHold
        /\ Latest \in 1..Len(versions)
    BY LatestExists DEF Inv, TypeOK
  <1>2. CASE ExternalWrite
    <2>1. PICK k \in Keys, v \in Values \cup {None} :
               versions' = Append(versions, [versions[Latest] EXCEPT ![k] = v])
      BY <1>2 DEF ExternalWrite
    <2>2. [versions[Latest] EXCEPT ![k] = v] \in Data
      BY <1>1 DEF Data
    <2>3. Latest' = Latest + 1
      BY <1>1, <2>1, <2>2, AppendFacts
    <2>4. UNCHANGED <<heap, cached, req, pc, held, sent, alone>>
      BY <1>2 DEF ExternalWrite
    <2>5. \A a \in Addrs : heap'[a].rv # Latest'
      BY <1>1, <2>3, <2>4 DEF Inv, ObjectsFaithful, Faithful
    <2>6. Apart' /\ OwnEdit'
      BY <2>4 DEF Solo, Apart, InFlight, OwnEdit, SentAsHeld, Wanted
    <2> QED BY <2>5, <2>6 DEF Solo, Honest
  <1>3. CASE Deliver
    <2>1. PICK a \in Addrs \ {cached}, v \in heap[cached].rv..Latest :
               /\ \A r \in InFlight : held[r] # a
               /\ heap' = [heap EXCEPT ![a] = Decode(v)]
      BY <1>3 DEF Deliver
    <2>2. v \in 1..Len(versions)
      BY <1>1, <2>1 DEF Inv, TypeOK, ObjectsFaithful, Faithful, Object
    <2>3. Decode(v).rv = v /\ Decode(v).data = versions[v]
      BY <1>1, <2>2, DecodeType
    <2>4. UNCHANGED <<versions, req, pc, held, sent, alone>>
      BY <1>3 DEF Deliver
    <2>5. heap'[a] = Decode(v) /\ \A b \in Addrs : b # a => heap'[b] = heap[b]
      BY <1>1, <2>1
    <2>6. OwnEdit'
      <3> SUFFICES ASSUME NEW r \in Requests, alone[r]
                   PROVE  /\ pc[r] = "encode" =>
                                heap'[held[r]].data[req[r].key] = Wanted(r)
                          /\ pc[r] = "sent" => sent[r].data[req[r].key] = Wanted(r)
                                               /\ SentAsHeld(r)'
        BY <2>4 DEF OwnEdit, Wanted
      <3>1. pc[r] = "encode" => held[r] \in Addrs /\ held[r] # a
        BY <1>1, <2>1 DEF InFlight, Handling, HoldersHold
      <3>2. pc[r] = "sent" => SentAsHeld(r) /\ held[r] # a
        BY <2>1 DEF InFlight, Handling, Solo, OwnEdit
      <3> QED BY <2>4, <2>5, <3>1, <3>2 DEF Solo, OwnEdit, SentAsHeld
    <2>7. Honest'
      <3> SUFFICES ASSUME NothingWentWrong, NEW b \in Addrs, heap'[b].rv = Latest
                   PROVE  heap'[b].data = versions[Latest] \/ UnderEdit(b)
        BY <2>4 DEF Honest, NothingWentWrong, UnderEdit
      <3>1. CASE b = a
        BY <2>3, <2>5, <3>1
      <3>2. CASE b # a
        BY <2>5, <3>2 DEF Solo, Honest
      <3> QED BY <3>1, <3>2
    <2>8. Apart'
      BY <2>4 DEF Solo, Apart, InFlight
    <2> QED BY <2>6, <2>7, <2>8 DEF Solo
  <1>4. CASE ConcurrentMapAccess
    <2>1. /\ heap' = [a \in Addrs |-> Decode(Latest)] /\ versions' = versions
          /\ \A r \in Requests : pc'[r] \notin Handling
      BY <1>1, <1>4 DEF ConcurrentMapAccess, Handling
    <2>2. Decode(Latest).data = versions[Latest]
      BY <1>1, DecodeType
    <2> QED BY <2>1, <2>2 DEF Solo, Apart, InFlight, OwnEdit, Honest, Handling
  <1> QED BY <1>2, <1>3, <1>4

LEMMA StutterSolo == Solo /\ UNCHANGED vars => Solo'
  BY DEF Solo, Apart, InFlight, OwnEdit, SentAsHeld, Honest, NothingWentWrong, UnderEdit, Wanted

LEMMA SoloCorrect == Spec => []Solo
  <1>1. Inv /\ Solo /\ (\E r \in Requests : Step(r)) => Solo'
    BY StepApart, StepOwnEdit, StepHonest DEF Solo, Inv
  <1>2. Inv /\ Solo /\ [Next]_vars => Solo'
    BY <1>1, OtherSolo, StutterSolo DEF Next
  <1> QED BY <1>2, InitSolo, Invariance, PTL DEF Spec

\* As long as no request failed and no two overlapped, a cache of the latest
\* version shows what the server stores, although every handler writes into it.
THEOREM CacheStaysHonest == Spec => []CacheIsHonest
  <1>1. Inv /\ Solo => CacheIsHonest
    BY DEF Inv, TypeOK, Solo, Honest, NothingWentWrong, UnderEdit, CacheIsHonest, Quiet,
           InFlight, Handling
  <1> QED BY <1>1, Invariance, SoloCorrect, PTL

\* A request that no other overlaps and that succeeds has its item on the
\* server, whatever earlier requests left in the object it shares with the cache.
THEOREM SuccessesAreStored == Spec => SuccessIsStored
  <1> DEFINE Stored ==
        \A r \in Requests :
           alone[r] /\ pc[r] = "sent" /\ pc'[r] = "ok" =>
               versions'[Latest'][req[r].key] = Wanted(r)
  <1>1. Inv /\ Solo /\ [Next]_vars => Stored
    <2> SUFFICES ASSUME Inv, Solo, [Next]_vars,
                        NEW r \in Requests, alone[r], pc[r] = "sent", pc'[r] = "ok"
                 PROVE  versions'[Latest'][req[r].key] = Wanted(r)
      OBVIOUS
    <2>1. /\ pc \in [Requests -> {"idle", "lost"} \cup Answered \cup Handling]
          /\ versions \in Seq(Data)
          /\ sent[r].data \in Data
      BY DEF Inv, TypeOK
    <2>2. Commit(r)
      <3>1. ~ (ExternalWrite \/ Deliver \/ ConcurrentMapAccess)
        BY <2>1 DEF ExternalWrite, Deliver, ConcurrentMapAccess, Handling
      <3>2. PICK q \in Requests : Step(q)
        BY <3>1 DEF Next
      <3>3. q = r
        BY <2>1, <3>2 DEF Step, Arrive, GetFromCache, Mutate, Encode, Commit, UpdateFails,
              Goto, Finish
      <3> QED BY <2>1, <3>2, <3>3 DEF Step, Arrive, GetFromCache, Mutate, Encode, UpdateFails,
              Goto, Finish
    <2>3. versions'[Latest'] = sent[r].data
      BY <2>1, <2>2, AppendFacts DEF Commit
    <2> QED BY <2>3 DEF Solo, OwnEdit
  <1>2. Spec => [][Stored]_vars
    BY <1>1, Invariance, SoloCorrect, PTL DEF Spec
  <1> QED BY <1>2 DEF SuccessIsStored
=============================================================================
