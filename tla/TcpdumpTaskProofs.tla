--------------------------- MODULE TcpdumpTaskProofs ---------------------------
(***************************************************************************)
(* Captures over REST, for any number of captures, of requests to stop and of *)
(* crashes, and whatever fails on the disk.                                  *)
(***************************************************************************)
EXTENDS TcpdumpTask, TLAPS

Capture == [run : {"new", "start", "answer", "answered", "failed", "dead"} \cup Puts,
            status : {"absent", "", "1", "2"}, meta : {"absent", "", "written"},
            packets : {"absent", "", "written"},
            exec : {"none", "running", "ended", "failed"}, ctx : {"none", "live", "cancelled", "expired"},
            poller : {"none", "look", "read", "sleep", "open", "write", "gone"}, died : BOOLEAN]

\* What is stored, in the order of Run.
Ordered(k) ==
    /\ k.run \in {"new", "status", "statusWrite"} => k.meta = "absent"
    /\ k.meta # "absent" \/ k.run \in {"meta", "metaWrite", "start"} => k.status \in {"1", "2"}

\* What the poller knows when it leaves.
Polled(k) ==
    /\ k.run \in {"new", "start"} \cup Puts => k.poller = "none"
    /\ k.poller = "none" => k.ctx = "none"
    /\ k.poller \in {"look", "read", "sleep"} => k.ctx # "none"
    /\ k.ctx = "cancelled" => k.status = "2"
    /\ k.poller \in {"open", "write", "gone"} => k.died \/ k.ctx = "expired" \/ k.status = "2"

\* Who leaves a file empty.
Excused(k, may) ==
    k.died \/ "write" \in may \/
        /\ k.status = "" => k.run = "statusWrite"
        /\ k.meta = "" => k.run = "metaWrite"
        /\ k.packets = "" => k.poller = "write"

Known == \A t \in Tasks : Ordered(task[t]) /\ Polled(task[t]) /\ Excused(task[t], faults)

StopsKnow ==
    /\ stop \in [Stops -> [step : {"idle", "read", "write", "sleep"}, task : Tasks \cup {None}]]
    /\ \A s \in Stops : stop[s].step # "idle" => stop[s].task \in Tasks

TaskInv ==
    /\ faults \in SUBSET Faults
    /\ task \in [Tasks -> Capture]
    /\ StopsKnow
    /\ list \in [step : {"idle", "meta", "status", "done", "failed"}, todo : SUBSET Tasks,
                 at : Tasks \cup {None}, shown : SUBSET {"", "1", "2"}]
    /\ list.step = "status" => list.at \in Tasks /\ task[list.at].meta = "written"
    /\ list.shown \subseteq {"1", "2"}
    /\ crashes \in 0..MaxCrashes
    /\ Known

-----------------------------------------------------------------------------
LEMMA KnownKept ==
    ASSUME Known, UNCHANGED <<faults, task>>
    PROVE  Known'
BY DEF Known, Ordered, Polled, Excused

LEMMA StopsKept ==
    ASSUME StopsKnow, UNCHANGED stop
    PROVE  StopsKnow'
BY DEF StopsKnow

\* A step of Run or of one of its goroutines changes one capture, keeps what is known of it, and
\* does not take back a meta that is written.
LEMMA OneTask ==
    ASSUME TaskInv, NEW t \in Tasks, NEW k \in Capture, task' = [task EXCEPT ![t] = k], OnlyTasks,
           Ordered(k), Polled(k), Excused(k, faults),
           task[t].meta = "written" => k.meta = "written"
    PROVE  TaskInv'
<1>1. task' \in [Tasks -> Capture]
  BY DEF TaskInv
<1>2. \A u \in Tasks : task'[u] = IF u = t THEN k ELSE task[u]
  BY DEF TaskInv
<1>3. UNCHANGED <<faults, stop, list, crashes>>
  BY DEF OnlyTasks
<1>4. \A u \in Tasks : Ordered(task'[u]) /\ Polled(task'[u]) /\ Excused(task'[u], faults)
  BY <1>2 DEF TaskInv, Known
<1>5. list.step = "status" => list.at \in Tasks /\ task'[list.at].meta = "written"
  BY <1>2 DEF TaskInv
<1>6. Known'
  BY <1>3, <1>4 DEF Known, Ordered, Polled, Excused
<1> QED
  BY <1>1, <1>3, <1>5, <1>6, StopsKept DEF TaskInv

-----------------------------------------------------------------------------
(* One step per action.                                                      *)

LEMMA TasksBegin == TaskInit => TaskInv
<1> SUFFICES ASSUME TaskInit
             PROVE  TaskInv
  OBVIOUS
<1> DEFINE k == [run |-> "new", status |-> "absent", meta |-> "absent", packets |-> "absent",
                 exec |-> "none", ctx |-> "none", poller |-> "none", died |-> FALSE]
<1>1. k \in Capture /\ Ordered(k) /\ Polled(k) /\ Excused(k, faults)
  <2>1. k \in Capture
    BY DEF Capture
  <2>2. Ordered(k) /\ Polled(k)
    BY DEF Ordered, Polled
  <2>3. Excused(k, faults)
    BY DEF Excused
  <2> QED
    BY <2>1, <2>2, <2>3
<1>2. task = [t \in Tasks |-> k]
  BY DEF TaskInit
<1>3. list = IdleList /\ stop = [s \in Stops |-> Idle] /\ crashes = 0 /\ faults \in SUBSET Faults
  BY DEF TaskInit
<1> HIDE DEF k
<1>4. task \in [Tasks -> Capture] /\ \A t \in Tasks : task[t] = k
  BY <1>1, <1>2
<1>5. \A t \in Tasks : Ordered(task[t]) /\ Polled(task[t]) /\ Excused(task[t], faults)
  BY <1>1, <1>4
<1>6. Known
  BY <1>5 DEF Known
<1>7. 0 \in 0..MaxCrashes
  BY TaskAssumption
<1> QED
  BY <1>3, <1>4, <1>6, <1>7 DEF TaskInv, StopsKnow, Idle, IdleList

LEMMA RunKeeps ==
    ASSUME TaskInv, NEW t \in Tasks, Begin(t) \/ Handler(t)
    PROVE  TaskInv'
<1> DEFINE old == task[t]
<1>1. old \in Capture /\ Ordered(old) /\ Polled(old) /\ Excused(old, faults)
  BY DEF TaskInv, Known
<1>2. CASE Begin(t)
  <2> DEFINE k == [old EXCEPT !.run = "status"]
  <2>1. k \in Capture /\ Ordered(k) /\ Polled(k) /\ Excused(k, faults) /\ k.meta = old.meta
    BY <1>1, <1>2 DEF Begin, Capture, Ordered, Polled, Excused, Puts
  <2>2. task' = [task EXCEPT ![t] = k] /\ OnlyTasks
    BY <1>2 DEF Begin
  <2> HIDE DEF k
  <2> QED
    BY <2>1, <2>2, OneTask
<1>3. CASE RunPuts(t)
  <2>1. OnlyTasks
    BY <1>3 DEF RunPuts
  <2>2. CASE old.run = "status"
    <3> DEFINE k == [old EXCEPT !.run = "statusWrite", !.status = Opened(old.status)]
    <3>1. k \in Capture /\ Ordered(k) /\ Polled(k) /\ Excused(k, faults) /\ k.meta = old.meta
      BY <1>1, <2>2 DEF Opened, Capture, Ordered, Polled, Excused, Puts
    <3>2. task' = [task EXCEPT ![t] = k]
      BY <1>3, <2>2 DEF RunPuts
    <3> HIDE DEF k
    <3> QED
      BY <2>1, <3>1, <3>2, OneTask
  <2>3. CASE old.run = "statusWrite"
    <3> DEFINE k == [old EXCEPT !.run = "meta", !.status = "1"]
    <3>1. k \in Capture /\ Ordered(k) /\ Polled(k) /\ Excused(k, faults) /\ k.meta = old.meta
      BY <1>1, <2>3 DEF Capture, Ordered, Polled, Excused, Puts
    <3>2. task' = [task EXCEPT ![t] = k]
      BY <1>3, <2>3 DEF RunPuts
    <3> HIDE DEF k
    <3> QED
      BY <2>1, <3>1, <3>2, OneTask
  <2>4. CASE old.run = "meta"
    <3> DEFINE k == [old EXCEPT !.run = "metaWrite", !.meta = Opened(old.meta)]
    <3>1. k \in Capture /\ Ordered(k) /\ Polled(k) /\ Excused(k, faults)
          /\ (old.meta = "written" => k.meta = "written")
      BY <1>1, <2>4 DEF Opened, Capture, Ordered, Polled, Excused, Puts
    <3>2. task' = [task EXCEPT ![t] = k]
      BY <1>3, <2>4 DEF RunPuts
    <3> HIDE DEF k
    <3> QED
      BY <2>1, <3>1, <3>2, OneTask
  <2>5. CASE old.run = "metaWrite"
    <3> DEFINE k == [old EXCEPT !.run = "start", !.meta = "written"]
    <3>1. k \in Capture /\ Ordered(k) /\ Polled(k) /\ Excused(k, faults) /\ k.meta = "written"
      BY <1>1, <2>5 DEF Capture, Ordered, Polled, Excused, Puts
    <3>2. task' = [task EXCEPT ![t] = k]
      BY <1>3, <2>5 DEF RunPuts
    <3> HIDE DEF k
    <3> QED
      BY <2>1, <3>1, <3>2, OneTask
  <2> QED
    BY <1>3, <2>2, <2>3, <2>4, <2>5 DEF RunPuts
<1>4. CASE RunCannotPut(t)
  <2> DEFINE k == [old EXCEPT !.run = "failed"]
  <2>1. k \in Capture /\ Ordered(k) /\ Polled(k) /\ Excused(k, faults) /\ k.meta = old.meta
    BY <1>1, <1>4 DEF RunCannotPut, Capture, Ordered, Polled, Excused, Puts
  <2>2. task' = [task EXCEPT ![t] = k] /\ OnlyTasks
    BY <1>4 DEF RunCannotPut
  <2> HIDE DEF k
  <2> QED
    BY <2>1, <2>2, OneTask
<1>5. CASE StartGoroutines(t)
  <2> DEFINE k == [old EXCEPT !.run = "answer", !.exec = "running", !.ctx = "live", !.poller = "look"]
  <2>1. k \in Capture /\ Ordered(k) /\ Polled(k) /\ Excused(k, faults) /\ k.meta = old.meta
    BY <1>1, <1>5 DEF StartGoroutines, Capture, Ordered, Polled, Excused, Puts
  <2>2. task' = [task EXCEPT ![t] = k] /\ OnlyTasks
    BY <1>5 DEF StartGoroutines
  <2> HIDE DEF k
  <2> QED
    BY <2>1, <2>2, OneTask
<1>6. CASE Answer(t)
  <2>1. PICK run \in {"answered", "failed"} : task' = [task EXCEPT ![t].run = run]
    BY <1>6 DEF Answer
  <2> DEFINE k == [old EXCEPT !.run = run]
  <2>2. k \in Capture /\ Ordered(k) /\ Polled(k) /\ Excused(k, faults) /\ k.meta = old.meta
    <3>1. k \in Capture
      BY <1>1 DEF Capture
    <3>2. /\ k.run = run /\ k.status = old.status /\ k.meta = old.meta /\ k.packets = old.packets
          /\ k.ctx = old.ctx /\ k.poller = old.poller /\ k.died = old.died /\ old.run = "answer"
      BY <1>1, <1>6 DEF Answer, Capture
    <3> HIDE DEF k, old
    <3>3. Ordered(k)
      BY <1>1, <3>2 DEF Ordered
    <3>4. Polled(k)
      BY <1>1, <3>2 DEF Polled, Puts
    <3>5. Excused(k, faults)
      BY <1>1, <3>2 DEF Excused
    <3> QED
      BY <3>1, <3>2, <3>3, <3>4, <3>5
  <2>3. task' = [task EXCEPT ![t] = k] /\ OnlyTasks
    BY <1>6, <2>1 DEF Answer
  <2> HIDE DEF k
  <2> QED
    BY <2>2, <2>3, OneTask
<1> QED
  BY <1>2, <1>3, <1>4, <1>5, <1>6 DEF Handler

\* A step of the goroutines leaves the handler, the status and meta alone.
LEMMA GoroutineStep ==
    ASSUME TaskInv, NEW t \in Tasks, NEW k \in Capture, task' = [task EXCEPT ![t] = k], OnlyTasks,
           k.run = task[t].run, k.status = task[t].status, k.meta = task[t].meta, k.died = task[t].died,
           task[t].poller = "none" => k.poller = "none",
           k.poller = "none" => k.ctx = "none",
           k.poller \in {"look", "read", "sleep"} => k.ctx # "none",
           k.ctx = "cancelled" => k.status = "2",
           k.poller \in {"open", "write", "gone"} => k.died \/ k.ctx = "expired" \/ k.status = "2",
           k.packets = "" => k.died \/ "write" \in faults \/ k.poller = "write"
    PROVE  TaskInv'
<1>1. Ordered(task[t]) /\ Polled(task[t]) /\ Excused(task[t], faults)
  BY DEF TaskInv, Known
<1>2. Ordered(k)
  BY <1>1 DEF Ordered
<1>3. Polled(k)
  BY <1>1 DEF Polled
<1>4. Excused(k, faults)
  BY <1>1 DEF Excused
<1> QED
  BY <1>2, <1>3, <1>4, OneTask

LEMMA GoroutineKeeps ==
    ASSUME TaskInv, NEW t \in Tasks, ExecEnds(t) \/ TimeOut(t) \/ Poller(t)
    PROVE  TaskInv'
<1> DEFINE old == task[t]
<1>1. /\ old \in Capture
      /\ old.poller = "none" => old.ctx = "none"
      /\ old.poller \in {"look", "read", "sleep"} => old.ctx # "none"
      /\ old.ctx = "cancelled" => old.status = "2"
      /\ old.poller \in {"open", "write", "gone"} => old.died \/ old.ctx = "expired" \/ old.status = "2"
      /\ old.packets = "" => old.died \/ "write" \in faults \/ old.poller = "write"
  BY DEF TaskInv, Known, Polled, Excused
<1>2. CASE ExecEnds(t)
  <2>1. PICK exec \in {"ended", "failed"} : task' = [task EXCEPT ![t].exec = exec]
    BY <1>2 DEF ExecEnds
  <2> DEFINE k == [old EXCEPT !.exec = exec]
  <2>2. task' = [task EXCEPT ![t] = k] /\ OnlyTasks
    BY <1>2, <2>1 DEF ExecEnds
  <2>3. k \in Capture
    BY <1>1 DEF Capture
  <2>4. /\ k.run = old.run /\ k.status = old.status /\ k.meta = old.meta /\ k.died = old.died
        /\ k.packets = old.packets /\ k.ctx = old.ctx /\ k.poller = old.poller
    BY <1>1 DEF Capture
  <2> HIDE DEF k
  <2> QED
    BY <1>1, <2>2, <2>3, <2>4, GoroutineStep
<1>3. CASE TimeOut(t)
  <2> DEFINE k == [old EXCEPT !.ctx = "expired"]
  <2>1. task' = [task EXCEPT ![t] = k] /\ OnlyTasks
    BY <1>3 DEF TimeOut
  <2>2. k \in Capture
    BY <1>1 DEF Capture
  <2>3. /\ k.run = old.run /\ k.status = old.status /\ k.meta = old.meta /\ k.died = old.died
        /\ k.packets = old.packets /\ k.ctx = "expired" /\ k.poller = old.poller
    BY <1>1 DEF Capture
  <2>4. old.ctx = "live" /\ old.poller # "gone"
    BY <1>3 DEF TimeOut
  <2> HIDE DEF k
  <2> QED
    BY <1>1, <2>1, <2>2, <2>3, <2>4, GoroutineStep
<1>4. CASE Look(t)
  <2>1. CASE task' = [task EXCEPT ![t].poller = "read"] /\ old.poller = "look" /\ old.ctx = "live"
    <3> DEFINE k == [old EXCEPT !.poller = "read"]
    <3>1. task' = [task EXCEPT ![t] = k] /\ OnlyTasks
      BY <1>4, <2>1 DEF Look
    <3>2. k \in Capture
      BY <1>1 DEF Capture
    <3>3. /\ k.run = old.run /\ k.status = old.status /\ k.meta = old.meta /\ k.died = old.died
          /\ k.packets = old.packets /\ k.ctx = old.ctx /\ k.poller = "read"
      BY <1>1 DEF Capture
    <3>4. old.poller = "look" /\ old.ctx = "live"
      BY <1>4, <2>1 DEF Look
    <3> HIDE DEF k
    <3> QED
      BY <1>1, <3>1, <3>2, <3>3, <3>4, GoroutineStep
  <2>2. CASE task' = [task EXCEPT ![t].poller = "open"] /\ old.poller = "look" /\ old.ctx \in {"cancelled", "expired"}
    <3> DEFINE k == [old EXCEPT !.poller = "open"]
    <3>1. task' = [task EXCEPT ![t] = k] /\ OnlyTasks
      BY <1>4, <2>2 DEF Look
    <3>2. k \in Capture
      BY <1>1 DEF Capture
    <3>3. /\ k.run = old.run /\ k.status = old.status /\ k.meta = old.meta /\ k.died = old.died
          /\ k.packets = old.packets /\ k.ctx = old.ctx /\ k.poller = "open"
      BY <1>1 DEF Capture
    <3>4. old.poller = "look" /\ old.ctx \in {"cancelled", "expired"}
      BY <1>4, <2>2 DEF Look
    <3> HIDE DEF k
    <3> QED
      BY <1>1, <3>1, <3>2, <3>3, <3>4, GoroutineStep
  <2>3. CASE task' = [task EXCEPT ![t].poller = "gone"] /\ old.poller = "look" /\ old.ctx \in {"cancelled", "expired"}
    <3> DEFINE k == [old EXCEPT !.poller = "gone"]
    <3>1. task' = [task EXCEPT ![t] = k] /\ OnlyTasks
      BY <1>4, <2>3 DEF Look
    <3>2. k \in Capture
      BY <1>1 DEF Capture
    <3>3. /\ k.run = old.run /\ k.status = old.status /\ k.meta = old.meta /\ k.died = old.died
          /\ k.packets = old.packets /\ k.ctx = old.ctx /\ k.poller = "gone"
      BY <1>1 DEF Capture
    <3>4. old.poller = "look" /\ old.ctx \in {"cancelled", "expired"}
      BY <1>4, <2>3 DEF Look
    <3> HIDE DEF k
    <3> QED
      BY <1>1, <3>1, <3>2, <3>3, <3>4, GoroutineStep
  <2> QED
    BY <1>1, <1>4, <2>1, <2>2, <2>3 DEF Look, Capture
<1>5. CASE Read(t)
  <2>1. CASE task' = [task EXCEPT ![t].poller = "look"]
    <3> DEFINE k == [old EXCEPT !.poller = "look"]
    <3>1. task' = [task EXCEPT ![t] = k] /\ OnlyTasks
      BY <1>5, <2>1 DEF Read
    <3>2. k \in Capture
      BY <1>1 DEF Capture
    <3>3. /\ k.run = old.run /\ k.status = old.status /\ k.meta = old.meta /\ k.died = old.died
          /\ k.packets = old.packets /\ k.ctx = old.ctx /\ k.poller = "look"
      BY <1>1 DEF Capture
    <3>4. old.poller = "read"
      BY <1>5, <2>1 DEF Read
    <3> HIDE DEF k
    <3> QED
      BY <1>1, <3>1, <3>2, <3>3, <3>4, GoroutineStep
  <2>2. CASE task' # [task EXCEPT ![t].poller = "look"] /\ old.status = "2" /\ old.ctx = "live"
    <3> DEFINE k == [old EXCEPT !.poller = "sleep", !.ctx = "cancelled"]
    <3>1. task' = [task EXCEPT ![t] = k] /\ OnlyTasks
      BY <1>5, <2>2 DEF Read
    <3>2. k \in Capture
      BY <1>1 DEF Capture
    <3>3. /\ k.run = old.run /\ k.status = old.status /\ k.meta = old.meta /\ k.died = old.died
          /\ k.packets = old.packets /\ k.ctx = "cancelled" /\ k.poller = "sleep"
      BY <1>1 DEF Capture
    <3>4. old.poller = "read" /\ old.status = "2"
      BY <1>5, <2>2 DEF Read
    <3> HIDE DEF k
    <3> QED
      BY <1>1, <3>1, <3>2, <3>3, <3>4, GoroutineStep
  <2>3. CASE task' # [task EXCEPT ![t].poller = "look"] /\ ~ (old.status = "2" /\ old.ctx = "live")
    <3> DEFINE k == [old EXCEPT !.poller = "sleep"]
    <3>1. task' = [task EXCEPT ![t] = k] /\ OnlyTasks
      BY <1>5, <2>3 DEF Read
    <3>2. k \in Capture
      BY <1>1 DEF Capture
    <3>3. /\ k.run = old.run /\ k.status = old.status /\ k.meta = old.meta /\ k.died = old.died
          /\ k.packets = old.packets /\ k.ctx = old.ctx /\ k.poller = "sleep"
      BY <1>1 DEF Capture
    <3>4. old.poller = "read"
      BY <1>5, <2>3 DEF Read
    <3> HIDE DEF k
    <3> QED
      BY <1>1, <3>1, <3>2, <3>3, <3>4, GoroutineStep
  <2> QED
    BY <1>5, <2>1, <2>2, <2>3 DEF Read
<1>6. CASE Sleep(t)
  <2> DEFINE k == [old EXCEPT !.poller = "look"]
  <2>1. task' = [task EXCEPT ![t] = k] /\ OnlyTasks
    BY <1>6 DEF Sleep
  <2>2. k \in Capture
    BY <1>1 DEF Capture
  <2>3. /\ k.run = old.run /\ k.status = old.status /\ k.meta = old.meta /\ k.died = old.died
        /\ k.packets = old.packets /\ k.ctx = old.ctx /\ k.poller = "look"
    BY <1>1 DEF Capture
  <2>4. old.poller = "sleep"
    BY <1>6 DEF Sleep
  <2> HIDE DEF k
  <2> QED
    BY <1>1, <2>1, <2>2, <2>3, <2>4, GoroutineStep
<1>7. CASE StorePackets(t)
  <2>1. CASE task' = [task EXCEPT ![t].poller = "gone"] /\ "write" \in faults /\ old.poller \in {"open", "write"}
    <3> DEFINE k == [old EXCEPT !.poller = "gone"]
    <3>1. task' = [task EXCEPT ![t] = k] /\ OnlyTasks
      BY <1>7, <2>1 DEF StorePackets
    <3>2. k \in Capture
      BY <1>1 DEF Capture
    <3>3. /\ k.run = old.run /\ k.status = old.status /\ k.meta = old.meta /\ k.died = old.died
          /\ k.packets = old.packets /\ k.ctx = old.ctx /\ k.poller = "gone"
      BY <1>1 DEF Capture
    <3>4. "write" \in faults /\ old.poller \in {"open", "write"}
      BY <1>7, <2>1 DEF StorePackets
    <3> HIDE DEF k
    <3> QED
      BY <1>1, <3>1, <3>2, <3>3, <3>4, GoroutineStep
  <2>2. CASE task' = [task EXCEPT ![t].poller = "write", ![t].packets = Opened(@)] /\ old.poller = "open"
    <3> DEFINE k == [old EXCEPT !.poller = "write", !.packets = Opened(old.packets)]
    <3>1. task' = [task EXCEPT ![t] = k] /\ OnlyTasks
      BY <1>7, <2>2 DEF StorePackets
    <3>2. k \in Capture
      BY <1>1 DEF Capture, Opened
    <3>3. /\ k.run = old.run /\ k.status = old.status /\ k.meta = old.meta /\ k.died = old.died
          /\ k.packets = Opened(old.packets) /\ k.ctx = old.ctx /\ k.poller = "write"
      BY <1>1 DEF Capture
    <3>4. old.poller = "open"
      BY <1>7, <2>2 DEF StorePackets
    <3> HIDE DEF k
    <3> QED
      BY <1>1, <3>1, <3>2, <3>3, <3>4, GoroutineStep DEF Opened
  <2>3. CASE task' = [task EXCEPT ![t].poller = "gone", ![t].packets = "written"] /\ old.poller = "write"
    <3> DEFINE k == [old EXCEPT !.poller = "gone", !.packets = "written"]
    <3>1. task' = [task EXCEPT ![t] = k] /\ OnlyTasks
      BY <1>7, <2>3 DEF StorePackets
    <3>2. k \in Capture
      BY <1>1 DEF Capture
    <3>3. /\ k.run = old.run /\ k.status = old.status /\ k.meta = old.meta /\ k.died = old.died
          /\ k.packets = "written" /\ k.ctx = old.ctx /\ k.poller = "gone"
      BY <1>1 DEF Capture
    <3>4. old.poller = "write"
      BY <1>7, <2>3 DEF StorePackets
    <3> HIDE DEF k
    <3> QED
      BY <1>1, <3>1, <3>2, <3>3, <3>4, GoroutineStep
  <2> QED
    BY <1>7, <2>1, <2>2, <2>3 DEF StorePackets
<1> QED
  BY <1>2, <1>3, <1>4, <1>5, <1>6, <1>7 DEF Poller

-----------------------------------------------------------------------------
LEMMA StopKeeps ==
    ASSUME TaskInv, NEW s \in Stops, Stopper(s) \/ \E t \in Tasks : StopBegins(s, t)
    PROVE  TaskInv'
<1>1. CASE \E t \in Tasks : StopBegins(s, t)
  <2>1. UNCHANGED <<faults, task, list, crashes>>
    BY <1>1 DEF StopBegins
  <2>2. PICK t \in Tasks : stop' = [stop EXCEPT ![s] = [step |-> "read", task |-> t]]
    BY <1>1 DEF StopBegins
  <2> DEFINE h == [step |-> "read", task |-> t]
  <2>3. h \in [step : {"idle", "read", "write", "sleep"}, task : Tasks \cup {None}] /\ h.task \in Tasks
    OBVIOUS
  <2>4. stop' = [stop EXCEPT ![s] = h]
    BY <2>2
  <2> HIDE DEF h
  <2>5. StopsKnow'
    BY <2>3, <2>4 DEF TaskInv, StopsKnow
  <2> QED
    BY <2>1, <2>5, KnownKept DEF TaskInv
<1>2. CASE StopReads(s) \/ StopAnswers(s)
  <2>1. UNCHANGED <<faults, task, list, crashes>>
    BY <1>2 DEF StopReads, StopAnswers
  <2>2. \/ stop' = [stop EXCEPT ![s] = Idle]
        \/ stop[s].step = "read" /\ stop' = [stop EXCEPT ![s].step = "write"]
    BY <1>2 DEF StopReads, StopAnswers
  <2>3. StopsKnow'
    <3>1. Idle \in [step : {"idle", "read", "write", "sleep"}, task : Tasks \cup {None}] /\ Idle.step = "idle"
      BY DEF Idle
    <3>2. CASE stop' = [stop EXCEPT ![s] = Idle]
      BY <3>1, <3>2 DEF TaskInv, StopsKnow
    <3>3. CASE stop[s].step = "read" /\ stop' = [stop EXCEPT ![s].step = "write"]
      BY <3>3 DEF TaskInv, StopsKnow
    <3> QED
      BY <2>2, <3>2, <3>3
  <2> QED
    BY <2>1, <2>3, KnownKept DEF TaskInv
<1>3. CASE StopWrites(s)
  <2> DEFINE at == stop[s].task
  <2>1. at \in Tasks /\ task[at] \in Capture /\ task \in [Tasks -> Capture]
    BY <1>3 DEF StopWrites, TaskInv, StopsKnow
  <2>2. UNCHANGED <<faults, list, crashes>> /\ stop' = [stop EXCEPT ![s].step = "sleep"]
    BY <1>3 DEF StopWrites
  <2>3. StopsKnow'
    BY <2>1, <2>2 DEF TaskInv, StopsKnow
  <2>4. CASE UNCHANGED task
    BY <2>2, <2>3, <2>4, KnownKept DEF TaskInv
  <2>5. CASE task' = [task EXCEPT ![at].status = "2"]
    <3> DEFINE k == [task[at] EXCEPT !.status = "2"]
    <3>1. k \in Capture
      BY <2>1 DEF Capture
    <3>2. /\ k.run = task[at].run /\ k.status = "2" /\ k.meta = task[at].meta
          /\ k.packets = task[at].packets /\ k.ctx = task[at].ctx
          /\ k.poller = task[at].poller /\ k.died = task[at].died
      BY <2>1 DEF Capture
    <3>3. task' = [task EXCEPT ![at] = k]
      BY <2>5
    <3> HIDE DEF k, at
    <3>4. Ordered(task[at]) /\ Polled(task[at]) /\ Excused(task[at], faults)
      BY <2>1 DEF TaskInv, Known
    <3>5. Ordered(k)
      BY <3>2, <3>4 DEF Ordered
    <3>6. Polled(k)
      BY <3>2, <3>4 DEF Polled
    <3>7. Excused(k, faults)
      BY <3>2, <3>4 DEF Excused
    <3>8. task' \in [Tasks -> Capture] /\ \A u \in Tasks : task'[u] = IF u = at THEN k ELSE task[u]
      BY <2>1, <3>1, <3>3
    <3>9. \A u \in Tasks : Ordered(task'[u]) /\ Polled(task'[u]) /\ Excused(task'[u], faults)
      BY <3>5, <3>6, <3>7, <3>8 DEF TaskInv, Known
    <3>10. Known'
      BY <2>2, <3>9 DEF Known, Ordered, Polled, Excused
    <3>11. list.step = "status" => list.at \in Tasks /\ task'[list.at].meta = "written"
      BY <3>2, <3>8 DEF TaskInv
    <3> QED
      BY <2>2, <2>3, <3>8, <3>10, <3>11 DEF TaskInv
  <2> QED
    BY <1>3, <2>4, <2>5 DEF StopWrites
<1> QED
  BY <1>1, <1>2, <1>3 DEF Stopper

LEMMA ListKeeps ==
    ASSUME TaskInv, ListBegins \/ Lister
    PROVE  TaskInv'
<1>1. OnlyList
  BY DEF ListBegins, Lister, ListEnds, ListReadsMeta, ListReadsStatus
<1>2. Known' /\ StopsKnow'
  BY <1>1, KnownKept, StopsKept DEF OnlyList, TaskInv
<1> SUFFICES /\ list' \in [step : {"idle", "meta", "status", "done", "failed"}, todo : SUBSET Tasks,
                           at : Tasks \cup {None}, shown : SUBSET {"", "1", "2"}]
             /\ list'.step = "status" => list'.at \in Tasks /\ task[list'.at].meta = "written"
             /\ list'.shown \subseteq {"1", "2"}
  BY <1>1, <1>2 DEF OnlyList, TaskInv
<1>3. /\ list \in [step : {"idle", "meta", "status", "done", "failed"}, todo : SUBSET Tasks,
                   at : Tasks \cup {None}, shown : SUBSET {"", "1", "2"}]
      /\ list.shown \subseteq {"1", "2"}
      /\ list.step = "status" => list.at \in Tasks /\ task[list.at].meta = "written"
  BY DEF TaskInv
<1>4. CASE ListBegins
  BY <1>4 DEF ListBegins, IdleList
<1>5. CASE ListEnds
  BY <1>3, <1>5 DEF ListEnds
<1>6. ASSUME NEW t \in Tasks, ListReadsMeta(t)
      PROVE  /\ list' \in [step : {"idle", "meta", "status", "done", "failed"}, todo : SUBSET Tasks,
                           at : Tasks \cup {None}, shown : SUBSET {"", "1", "2"}]
             /\ list'.step = "status" => list'.at \in Tasks /\ task[list'.at].meta = "written"
             /\ list'.shown \subseteq {"1", "2"}
  BY <1>3, <1>6 DEF ListReadsMeta, Skip
<1>7. ASSUME NEW t \in Tasks, ListReadsStatus(t)
      PROVE  /\ list' \in [step : {"idle", "meta", "status", "done", "failed"}, todo : SUBSET Tasks,
                           at : Tasks \cup {None}, shown : SUBSET {"", "1", "2"}]
             /\ list'.step = "status" => list'.at \in Tasks /\ task[list'.at].meta = "written"
             /\ list'.shown \subseteq {"1", "2"}
  <2>1. task[t].meta = "written" /\ t = list.at /\ t \in Tasks
    BY <1>3, <1>7 DEF ListReadsStatus
  <2>2. task[t].status \in {"1", "2"}
    BY <2>1 DEF TaskInv, Known, Ordered
  <2> DEFINE l == Skip(t)
  <2>3. /\ l \in [step : {"idle", "meta", "status", "done", "failed"}, todo : SUBSET Tasks,
                  at : Tasks \cup {None}, shown : SUBSET {"", "1", "2"}]
        /\ l.step = "meta" /\ l.shown = list.shown
    BY <1>3 DEF Skip
  <2> DEFINE shown == l.shown \cup {task[t].status}
  <2>4. list' = l \/ list' = [l EXCEPT !.shown = shown]
    BY <1>7 DEF ListReadsStatus
  <2> HIDE DEF l
  <2>5. shown \subseteq {"1", "2"} /\ shown \in SUBSET {"", "1", "2"}
    BY <1>3, <2>2, <2>3
  <2> HIDE DEF shown
  <2>6. CASE list' = l
    BY <1>3, <2>3, <2>6
  <2>7. CASE list' = [l EXCEPT !.shown = shown]
    BY <2>3, <2>5, <2>7
  <2> QED
    BY <2>4, <2>6, <2>7
<1> QED
  BY <1>4, <1>5, <1>6, <1>7 DEF Lister

LEMMA CrashKeeps ==
    ASSUME TaskInv, Crash
    PROVE  TaskInv'
<1> DEFINE k(u) == [task[u] EXCEPT !.run = "dead", !.exec = "none", !.ctx = "none",
                                   !.poller = IF @ = "none" THEN @ ELSE "gone", !.died = TRUE]
<1>1. faults' = faults /\ stop' = [s \in Stops |-> Idle] /\ list' = IdleList /\ crashes' \in 0..MaxCrashes
  <2>1. crashes \in 0..MaxCrashes
    BY DEF TaskInv
  <2>2. crashes < MaxCrashes /\ crashes' = crashes + 1
    BY DEF Crash
  <2>3. crashes' \in 0..MaxCrashes
    BY <2>1, <2>2, TaskAssumption
  <2>4. faults' = faults /\ stop' = [s \in Stops |-> Idle] /\ list' = IdleList
    BY DEF Crash
  <2> QED
    BY <2>3, <2>4
<1>2. \A u \in Tasks : task'[u] = task[u] \/ task'[u] = k(u)
  BY DEF Crash
<1>3. \A u \in Tasks : task[u] \in Capture
  BY DEF TaskInv
<1>4. \A u \in Tasks :
        /\ k(u) \in Capture
        /\ k(u).run = "dead" /\ k(u).status = task[u].status /\ k(u).meta = task[u].meta
        /\ k(u).died /\ k(u).ctx = "none"
        /\ k(u).poller \in {"none", "gone"}
  BY <1>3 DEF Capture
<1> HIDE DEF k
<1>5. \A u \in Tasks : Ordered(task[u]) /\ Polled(task[u]) /\ Excused(task[u], faults)
  BY DEF TaskInv, Known
<1>6. \A u \in Tasks : Ordered(k(u))
  BY <1>4, <1>5 DEF Ordered
<1>7. \A u \in Tasks : Polled(k(u))
  BY <1>4 DEF Polled, Puts
<1>8. \A u \in Tasks : Excused(k(u), faults)
  BY <1>4 DEF Excused
<1>9. \A u \in Tasks : Ordered(task'[u]) /\ Polled(task'[u]) /\ Excused(task'[u], faults)
  BY <1>2, <1>5, <1>6, <1>7, <1>8
<1>10. Known'
  BY <1>1, <1>9 DEF Known, Ordered, Polled, Excused
<1>11. task' \in [Tasks -> Capture]
  <2>1. \A u \in Tasks : task'[u] \in Capture
    BY <1>2, <1>3, <1>4
  <2> QED
    BY <2>1 DEF Crash
<1>12. StopsKnow'
  BY <1>1 DEF StopsKnow, Idle
<1> QED
  BY <1>1, <1>10, <1>11, <1>12 DEF TaskInv, IdleList

-----------------------------------------------------------------------------
(* The theorems.                                                             *)

LEMMA TaskStep ==
    ASSUME TaskInv, [TaskNext]_taskVars
    PROVE  TaskInv'
<1>1. CASE UNCHANGED taskVars
  BY <1>1, KnownKept, StopsKept DEF taskVars, TaskInv
<1>2. CASE TaskNext
  BY <1>2, RunKeeps, GoroutineKeeps, StopKeeps, ListKeeps, CrashKeeps DEF TaskNext
<1> QED
  BY <1>1, <1>2

LEMMA TaskInvariant == TaskSpec => []TaskInv
<1>1. TaskInit => TaskInv
  BY TasksBegin
<1>2. TaskInv /\ [TaskNext]_taskVars => TaskInv'
  BY TaskStep
<1> QED
  BY <1>1, <1>2, PTL DEF TaskSpec

LEMMA TasksAreTyped == TaskInv => TaskTypeOK
BY DEF TaskInv, StopsKnow, TaskTypeOK, Capture

\* Type correctness of the captures, of their files and of the handlers.
THEOREM TaskTypeCorrect == TaskSpec => []TaskTypeOK
BY TasksAreTyped, TaskInvariant, PTL

\* List never shows a status that was not written, a file is empty only while it is being
\* written, after a crash or when the disk fails, and a capture whose status says that it is
\* running is looked after, or timed out, or its process died.
THEOREM TaskFilesTrue == TaskSpec => []TaskFilesAreTrue
<1>1. TaskInv => ListedStatusIsReal
  BY DEF TaskInv, ListedStatusIsReal
<1>2. TaskInv => HalfWrittenIsExcused
  BY DEF TaskInv, Known, Excused, HalfWrittenIsExcused
<1>3. TaskInv => RunningIsPolled
  BY DEF TaskInv, Known, Polled, RunningIsPolled
<1>4. TaskInv => TaskFilesAreTrue
  BY <1>1, <1>2, <1>3 DEF TaskFilesAreTrue
<1> QED
  BY <1>4, TaskInvariant, PTL
=============================================================================
