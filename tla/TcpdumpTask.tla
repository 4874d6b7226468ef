----------------------------- MODULE TcpdumpTask -----------------------------
(***************************************************************************)
(* Captures over REST: Run, Stop, List and DownloadPackets of                *)
(* internal/service/tcpdump.go on the files of pkg/storage/filesystem.       *)
(* Run stores status and meta of the capture and starts two goroutines: one  *)
(* runs tcpdump, the poller looks at the status once a second and stores     *)
(* the packets when it says "2" or after thirty minutes.  The status file    *)
(* is all that Stop and the poller share.  A file is created by one step of  *)
(* PutBytes and written by the next, so it is empty in between, for ever     *)
(* when the process dies there.                                              *)
(***************************************************************************)
EXTENDS Naturals

CONSTANTS Tasks,       \* keys of captures
          Stops,       \* requests to stop that are handled at the same time
          MaxCrashes,  \* bound on the crashes of the process
          None

ASSUME TaskAssumption == MaxCrashes \in Nat /\ None \notin Tasks

VARIABLES faults,    \* the operations on files that fail now and then
          task,      \* the captures: their files, Run and its goroutines
          stop,      \* the handlers of Stop
          list,      \* the handler of List
          crashes

taskVars == <<faults, task, stop, list, crashes>>

Faults == {"read", "write", "temporary"}
Puts   == {"status", "statusWrite", "meta", "metaWrite"}   \* opening and writing the two files of Run

TaskTypeOK ==
    /\ faults \subseteq Faults
    /\ task \in [Tasks ->
           [run : {"new", "start", "answer", "answered", "failed", "dead"} \cup Puts,
            status : {"absent", "", "1", "2"}, meta : {"absent", "", "written"},
            packets : {"absent", "", "written"},
            exec : {"none", "running", "ended", "failed"}, ctx : {"none", "live", "cancelled", "expired"},
            poller : {"none", "look", "read", "sleep", "open", "write", "gone"}, died : BOOLEAN]]
    /\ stop \in [Stops -> [step : {"idle", "read", "write", "sleep"}, task : Tasks \cup {None}]]
    /\ list \in [step : {"idle", "meta", "status", "done", "failed"}, todo : SUBSET Tasks,
                 at : Tasks \cup {None}, shown : SUBSET {"", "1", "2"}]
    /\ crashes \in 0..MaxCrashes

Idle     == [step |-> "idle", task |-> None]
IdleList == [step |-> "idle", todo |-> {}, at |-> None, shown |-> {}]

TaskInit ==
    /\ faults \in SUBSET Faults
    /\ task = [t \in Tasks |-> [run |-> "new", status |-> "absent", meta |-> "absent", packets |-> "absent",
                                exec |-> "none", ctx |-> "none", poller |-> "none", died |-> FALSE]]
    /\ stop = [s \in Stops |-> Idle]
    /\ list = IdleList
    /\ crashes = 0

\* os.OpenFile with O_CREATE, without O_TRUNC
Opened(file) == IF file = "absent" THEN "" ELSE file

-----------------------------------------------------------------------------
(* Run, up to its goroutines.                                                *)

OnlyTasks == UNCHANGED <<faults, stop, list, crashes>>

\* The cluster and the temporary file are there; PutBytes creates the directory of the capture.
Begin(t) ==
    /\ task[t].run = "new"
    /\ task' = [task EXCEPT ![t].run = "status"]
    /\ OnlyTasks

\* Mutant: meta is stored before the status.
RunPutsMetaFirst(t) ==
    /\ \/ /\ task[t].run = "status"
          /\ task' = [task EXCEPT ![t].run = "metaWrite", ![t].meta = Opened(@)]
       \/ /\ task[t].run = "metaWrite"
          /\ task' = [task EXCEPT ![t].run = "statusWrite", ![t].meta = "written", ![t].status = Opened(@)]
       \/ /\ task[t].run = "statusWrite"
          /\ task' = [task EXCEPT ![t].run = "start", ![t].status = "1"]
    /\ OnlyTasks

\* status, then meta
RunPuts(t) ==
    /\ \/ /\ task[t].run = "status"
          /\ task' = [task EXCEPT ![t].run = "statusWrite", ![t].status = Opened(@)]
       \/ /\ task[t].run = "statusWrite"
          /\ task' = [task EXCEPT ![t].run = "meta", ![t].status = "1"]
       \/ /\ task[t].run = "meta"
          /\ task' = [task EXCEPT ![t].run = "metaWrite", ![t].meta = Opened(@)]
       \/ /\ task[t].run = "metaWrite"
          /\ task' = [task EXCEPT ![t].run = "start", ![t].meta = "written"]
    /\ OnlyTasks

RunCannotPut(t) ==
    /\ "write" \in faults /\ task[t].run \in Puts
    /\ task' = [task EXCEPT ![t].run = "failed"]
    /\ OnlyTasks

StartGoroutines(t) ==
    /\ task[t].run = "start"
    /\ task' = [task EXCEPT ![t].run = "answer", ![t].exec = "running", ![t].ctx = "live", ![t].poller = "look"]
    /\ OnlyTasks

\* The goroutine that runs tcpdump shares err, the result of Run, and may have set it by now.
Answer(t) ==
    /\ task[t].run = "answer"
    /\ \E run \in {"answered"} \cup (IF task[t].exec = "failed" THEN {"failed"} ELSE {}) :
          task' = [task EXCEPT ![t].run = run]
    /\ OnlyTasks

\* tcpdump ends or fails, its thirty minutes are over, or the poller has closed its output
ExecEnds(t) ==
    /\ task[t].exec = "running"
    /\ \E exec \in {"ended", "failed"} : task' = [task EXCEPT ![t].exec = exec]
    /\ OnlyTasks

-----------------------------------------------------------------------------
(* The poller.                                                               *)

\* the thirty minutes of the context
TimeOut(t) ==
    /\ task[t].ctx = "live" /\ task[t].poller # "gone"
    /\ task' = [task EXCEPT ![t].ctx = "expired"]
    /\ OnlyTasks

\* select; when the context is done the temporary file is read, which may fail
Look(t) ==
    /\ task[t].poller = "look"
    /\ \/ task[t].ctx = "live" /\ task' = [task EXCEPT ![t].poller = "read"]
       \/ task[t].ctx # "live" /\ task' = [task EXCEPT ![t].poller = "open"]
       \/ task[t].ctx # "live" /\ "temporary" \in faults /\ task' = [task EXCEPT ![t].poller = "gone"]
    /\ OnlyTasks

\* cancel has no effect on a context that has expired; an error is tried again at once
Read(t) ==
    /\ task[t].poller = "read"
    /\ \/ task' = [task EXCEPT ![t].poller = "sleep",
                               ![t].ctx = IF task[t].status = "2" /\ @ = "live" THEN "cancelled" ELSE @]
       \/ "read" \in faults /\ task' = [task EXCEPT ![t].poller = "look"]
    /\ OnlyTasks

Sleep(t) ==
    /\ task[t].poller = "sleep"
    /\ task' = [task EXCEPT ![t].poller = "look"]
    /\ OnlyTasks

\* The packets are stored, or not, and the temporary file is removed.
StorePackets(t) ==
    /\ \/ /\ task[t].poller = "open"
          /\ task' = [task EXCEPT ![t].poller = "write", ![t].packets = Opened(@)]
       \/ /\ task[t].poller = "write"
          /\ task' = [task EXCEPT ![t].poller = "gone", ![t].packets = "written"]
       \/ /\ task[t].poller \in {"open", "write"} /\ "write" \in faults
          /\ task' = [task EXCEPT ![t].poller = "gone"]
    /\ OnlyTasks

-----------------------------------------------------------------------------
(* Stop.                                                                     *)

\* The key is in the answer of Run and in the list.
StopBegins(s, t) ==
    /\ stop[s].step = "idle" /\ task[t].meta = "written"
    /\ stop' = [stop EXCEPT ![s] = [step |-> "read", task |-> t]]
    /\ UNCHANGED <<faults, task, list, crashes>>

\* A status that is not "1" is left alone.
StopReads(s) ==
    /\ stop[s].step = "read"
    /\ \/ /\ task[stop[s].task].status = "1"
          /\ stop' = [stop EXCEPT ![s].step = "write"]
       \/ /\ task[stop[s].task].status # "1" \/ "read" \in faults
          /\ stop' = [stop EXCEPT ![s] = Idle]
    /\ UNCHANGED <<faults, task, list, crashes>>

\* Nobody looks at the error of PutBytes.
StopWrites(s) ==
    /\ stop[s].step = "write"
    /\ stop' = [stop EXCEPT ![s].step = "sleep"]
    /\ \/ task' = [task EXCEPT ![stop[s].task].status = "2"]
       \/ "write" \in faults /\ UNCHANGED task
    /\ UNCHANGED <<faults, list, crashes>>

StopAnswers(s) ==
    /\ stop[s].step = "sleep"
    /\ stop' = [stop EXCEPT ![s] = Idle]
    /\ UNCHANGED <<faults, task, list, crashes>>

-----------------------------------------------------------------------------
(* List.                                                                     *)

OnlyList == UNCHANGED <<faults, task, stop, crashes>>

\* The directory of the capture is there.
Listed(t) == task[t].run # "new"

\* a directory that is not there is an error
ListBegins ==
    LET names == {t \in Tasks : Listed(t)} IN
    /\ list.step \in {"idle", "done", "failed"}
    /\ list' = IF names = {} THEN [IdleList EXCEPT !.step = "failed"]
               ELSE [IdleList EXCEPT !.step = "meta", !.todo = names]
    /\ OnlyList

Skip(t) == [list EXCEPT !.step = "meta", !.at = None, !.todo = @ \ {t}]

\* A meta that does not parse fails the list, one that cannot be read is skipped.
ListReadsMeta(t) ==
    /\ list.step = "meta" /\ t \in list.todo
    /\ \/ task[t].meta = "written" /\ list' = [list EXCEPT !.step = "status", !.at = t]
       \/ task[t].meta = "" /\ list' = [list EXCEPT !.step = "failed", !.at = t, !.todo = {}]
       \/ (task[t].meta = "absent" \/ "read" \in faults) /\ list' = Skip(t)
    /\ OnlyList

ListReadsStatus(t) ==
    /\ list.step = "status" /\ t = list.at
    /\ \/ task[t].status # "absent" /\ list' = [Skip(t) EXCEPT !.shown = @ \cup {task[t].status}]
       \/ (task[t].status = "absent" \/ "read" \in faults) /\ list' = Skip(t)
    /\ OnlyList

ListEnds ==
    /\ list.step = "meta" /\ list.todo = {}
    /\ list' = [list EXCEPT !.step = "done"]
    /\ OnlyList

-----------------------------------------------------------------------------
\* The process dies and is started again: the files stay, and nobody looks after them.
Crash ==
    /\ crashes < MaxCrashes
    /\ task' = [t \in Tasks |->
                   IF task[t].run = "new" THEN task[t]
                   ELSE [task[t] EXCEPT !.run = "dead", !.exec = "none", !.ctx = "none",
                                        !.poller = IF @ = "none" THEN @ ELSE "gone", !.died = TRUE]]
    /\ stop' = [s \in Stops |-> Idle]
    /\ list' = IdleList
    /\ crashes' = crashes + 1
    /\ UNCHANGED faults

Handler(t) == RunPuts(t) \/ RunCannotPut(t) \/ StartGoroutines(t) \/ Answer(t)
Poller(t)  == Look(t) \/ Read(t) \/ Sleep(t) \/ StorePackets(t)
Stopper(s) == StopReads(s) \/ StopWrites(s) \/ StopAnswers(s)
Lister     == ListEnds \/ \E t \in Tasks : ListReadsMeta(t) \/ ListReadsStatus(t)

TaskNext ==
    \/ \E t \in Tasks : Begin(t) \/ Handler(t) \/ ExecEnds(t) \/ TimeOut(t) \/ Poller(t)
    \/ \E s \in Stops : Stopper(s) \/ \E t \in Tasks : StopBegins(s, t)
    \/ ListBegins \/ Lister
    \/ Crash

\* Goroutines are scheduled and the timer fires; nobody has to ask for anything.
TaskFairness ==
    /\ \A t \in Tasks : WF_taskVars(Handler(t)) /\ WF_taskVars(Poller(t)) /\ WF_taskVars(TimeOut(t))
    /\ \A s \in Stops : WF_taskVars(Stopper(s))

TaskSpec == TaskInit /\ [][TaskNext]_taskVars /\ TaskFairness

-----------------------------------------------------------------------------
(* Properties                                                                *)

\* A capture that is listed is running or stopped: List reads meta before the status and Run
\* stores them in the other order, so the status is never read before it was written, nor after
\* a crash between the two.
ListedStatusIsReal == list.shown \subseteq {"1", "2"}

\* A file is found empty only while somebody is about to write it, after a crash at that moment,
\* or when the disk fails.  An empty meta fails every List of its namespace (tcpdump.go:357),
\* empty packets are downloaded as they are.
HalfWrittenIsExcused ==
    \A t \in Tasks :
        task[t].died \/ "write" \in faults \/
            /\ task[t].status = "" => task[t].run = "statusWrite"
            /\ task[t].meta = "" => task[t].run = "metaWrite"
            /\ task[t].packets = "" => task[t].poller = "write"

\* The poller of a capture that says it is running is at work, but for the thirty minutes and
\* for crashes, after which the status remains "1" (tcpdump.go:297).
RunningIsPolled ==
    \A t \in Tasks :
        task[t].status = "1" /\ task[t].poller \in {"open", "write", "gone"}
            => task[t].died \/ task[t].ctx = "expired"

\* What the files say is true, in these three ways.
TaskFilesAreTrue == ListedStatusIsReal /\ HalfWrittenIsExcused /\ RunningIsPolled

\* What must not last (Connections, LeftoversEnd).  Stop is a message to the poller: it leads to
\* stored packets, whenever it comes, unless the process or the disk fails.
PacketsAreDue ==
    /\ faults \subseteq {"read"}
    /\ \E t \in Tasks : task[t].status = "2" /\ ~task[t].died /\ task[t].packets # "written"

\* Nor does a poller run for ever, although it tries again at once what it cannot read.
SomePollerRuns == \E t \in Tasks : task[t].poller \notin {"none", "gone"}
=============================================================================
