---------------------------- MODULE TcpdumpSession ----------------------------
(***************************************************************************)
(* A live capture over a websocket: RunWS of internal/service/tcpdump.go.  *)
(* A session is four activities that share a pipe and a connection:        *)
(*   - the reader, the handler itself, which reads the client's messages   *)
(*     and kills the remote tcpdump when it is told to stop or loses the   *)
(*     client;                                                             *)
(*   - the exec goroutine, which runs tcpdump in the container, feeds its  *)
(*     output to the pipe and closes the pipe when tcpdump has ended;      *)
(*   - the copier, which drains the pipe into a file, the connection or    *)
(*     Wireshark, and at the end tells the client that it is done;         *)
(*   - the remote tcpdump, started some time after it was asked for.       *)
(* This is one session.  The others on the container matter only because   *)
(* each kill ends every tcpdump there; see ProcessExits.                   *)
(***************************************************************************)
EXTENDS Naturals, Sequences

CONSTANTS Modes,      \* the modes that a client may ask for
          Faults,     \* what may go wrong
          MaxInbox    \* bound: messages of the client that are not read yet

ASSUME ModesAssumption == Modes \subseteq {"file", "stdout", "wireshark", "other"}
ASSUME FaultsAssumption == Faults \subseteq {"setup", "exec", "exit", "kill", "storage"}
ASSUME MaxInboxAssumption == MaxInbox \in Nat

VARIABLES
    mode,       \* req.Mode
    faults,     \* what may go wrong in this session
    reader,     \* the handler: its step, "gone" once it has returned
    stopped,    \* the handler's variable of that name
    inbox,      \* what the client sent and the reader has not read
    conn,       \* who closed the connection, if anybody
    writing,    \* which goroutine is writing to the connection, if any
    proc,       \* the remote tcpdump
    pipe,       \* whether the pipe holds output, or is closed for writing
    copier,     \* the copy goroutine: its step
    status,     \* the status file of a capture in mode "file": "1", "2" or none
    packets,    \* whether the stored packets are all that tcpdump wrote
    gotDone,    \* the client has received "done"
    crashed     \* a goroutine without recovery panicked: the process is gone

asked  == <<mode, faults>>
stored == <<status, packets>>
vars   == <<asked, reader, stopped, inbox, conn, writing, proc, pipe, copier, stored,
            gotDone, crashed>>

Messages == {"stop", "ping", "malformed"}

TypeOK ==
    /\ mode \in Modes /\ faults \subseteq Faults
    /\ reader \in {"setup", "read", "kill", "lastKill", "pong", "gone"}
    /\ stopped \in BOOLEAN
    /\ inbox \in Seq(Messages)
    /\ conn \in {"open", "client closed", "server closed"}
    /\ writing \in {"nobody", "reader", "copier"}
    /\ proc \in {"none", "asked", "running", "ended"}
    /\ pipe \in {"empty", "output", "closed"}
    /\ copier \in {"none", "copy", "stdout", "status", "packets", "done", "sending", "end"}
    /\ status \in {"none", "1", "2"}
    /\ packets \in {"none", "partial", "complete"}
    /\ gotDone \in BOOLEAN
    /\ crashed \in BOOLEAN

Init ==
    /\ mode \in Modes /\ faults \in SUBSET Faults
    /\ reader = "setup" /\ stopped = FALSE
    /\ inbox = <<>> /\ conn = "open" /\ writing = "nobody"
    /\ proc = "none" /\ pipe = "empty" /\ copier = "none"
    /\ status = "none" /\ packets = "none"
    /\ gotDone = FALSE /\ crashed = FALSE

-----------------------------------------------------------------------------
(***************************************************************************)
(* The client.  The page pings until it sends "stop" and not after.        *)
(***************************************************************************)
Send(message) ==
    /\ conn = "open"
    /\ Len(inbox) < MaxInbox
    /\ inbox' = Append(inbox, message)
    /\ UNCHANGED <<asked, reader, stopped, conn, writing, proc, pipe, copier, stored,
                   gotDone, crashed>>

SendStop == Send("stop")

SendPing ==
    /\ ~ stopped /\ \A i \in 1..Len(inbox) : inbox[i] # "stop"
    /\ Send("ping")

SendMalformed == Send("malformed")

Disconnect ==
    /\ conn = "open"
    /\ conn' = "client closed"
    /\ UNCHANGED <<asked, reader, stopped, inbox, writing, proc, pipe, copier, stored,
                   gotDone, crashed>>

-----------------------------------------------------------------------------
(***************************************************************************)
(* The handler.                                                            *)
(***************************************************************************)

\* Mutant: the mode is stored in place of the status.
SetupStoresMode ==
    /\ reader = "setup" /\ mode # "other"
    /\ reader' = "read" /\ copier' = "copy" /\ proc' = "asked"
    /\ status' = mode
    /\ UNCHANGED <<asked, stopped, inbox, conn, writing, pipe, packets, gotDone, crashed>>

\* The cluster is found, static-tcpdump is uploaded, in mode "file" the file
\* and the status are written, and the goroutines are started.
Setup ==
    /\ reader = "setup" /\ mode # "other"
    /\ reader' = "read" /\ copier' = "copy" /\ proc' = "asked"
    /\ status' = IF mode = "file" THEN "1" ELSE status
    /\ UNCHANGED <<asked, stopped, inbox, conn, writing, pipe, packets, gotDone, crashed>>

\* Something of that fails: the handler returns and the connection is closed.
\* Nothing was started yet.
SetupFails ==
    /\ reader = "setup" /\ "setup" \in faults
    /\ reader' = "gone" /\ conn' = "server closed"
    /\ UNCHANGED <<asked, stopped, inbox, writing, proc, pipe, copier, stored, gotDone,
                   crashed>>

\* Wireshark does not start: the client is told "done" with an error.  The copier
\* is there already and waits for output of a tcpdump that is never asked for.
WiresharkFails ==
    /\ reader = "setup" /\ mode = "wireshark" /\ "setup" \in faults
    /\ reader' = "gone" /\ copier' = "copy" /\ conn' = "server closed"
    /\ gotDone' = (conn = "open")
    /\ UNCHANGED <<asked, stopped, inbox, writing, proc, pipe, stored, crashed>>

\* A mode that is none of the three: the client is told "done", the connection is
\* closed, and the handler goes on with a command that is empty.
SetupOther ==
    /\ reader = "setup" /\ mode = "other"
    /\ reader' = "read" /\ proc' = "asked"
    /\ conn' = "server closed" /\ gotDone' = (conn = "open")
    /\ UNCHANGED <<asked, stopped, inbox, writing, pipe, copier, stored, crashed>>

\* ReadMessage fails once the connection is closed: at once when the server did
\* it, after what was sent before when the client did.
ReadFails ==
    /\ reader = "read"
    /\ \/ conn = "server closed"
       \/ conn = "client closed" /\ inbox = <<>>
    /\ reader' = "lastKill"
    /\ UNCHANGED <<asked, stopped, inbox, conn, writing, proc, pipe, copier, stored,
                   gotDone, crashed>>

\* Mutant: stopped is set before it is looked at.
ReadSetsStoppedFirst ==
    /\ reader = "read" /\ conn # "server closed" /\ inbox # <<>>
    /\ inbox' = Tail(inbox)
    /\ stopped' = (stopped \/ Head(inbox) = "stop")
    /\ reader' = IF Head(inbox) = "malformed" THEN "lastKill"
                 ELSE IF Head(inbox) = "ping" THEN "pong" ELSE "read"
    /\ UNCHANGED <<asked, conn, writing, proc, pipe, copier, stored, gotDone, crashed>>

\* A "stop" is acted upon once.
Read ==
    /\ reader = "read" /\ conn # "server closed" /\ inbox # <<>>
    /\ inbox' = Tail(inbox)
    /\ stopped' = (stopped \/ Head(inbox) = "stop")
    /\ reader' = IF Head(inbox) = "malformed" THEN "lastKill"
                 ELSE IF Head(inbox) = "ping" THEN "pong"
                 ELSE IF stopped THEN "read" ELSE "kill"
    /\ UNCHANGED <<asked, conn, writing, proc, pipe, copier, stored, gotDone, crashed>>

\* killRemoteTcpdump: a shell in the container kills every tcpdump it finds
\* there.  One that is only asked for is not there yet.  Then the handler goes
\* on, or returns and the connection is closed.
Kill(result) ==
    /\ reader \in {"kill", "lastKill"}
    /\ proc' = result
    /\ reader' = IF reader = "kill" THEN "read" ELSE "gone"
    /\ conn' = IF reader = "lastKill" /\ conn = "open" THEN "server closed" ELSE conn
    /\ UNCHANGED <<asked, stopped, inbox, writing, pipe, copier, stored, gotDone, crashed>>

KillRemoteTcpdump == Kill(IF proc = "running" THEN "ended" ELSE proc)

KillFails == "kill" \in faults /\ Kill(proc)

-----------------------------------------------------------------------------
(***************************************************************************)
(* Writing to the connection.  It takes time and allows one writer: the    *)
(* second one panics.  In the handler's goroutine the server recovers and  *)
(* the handler is gone; in the copier's nobody does and the process ends.  *)
(***************************************************************************)
BeginPong ==
    /\ reader = "pong" /\ writing = "nobody"
    /\ writing' = "reader"
    /\ UNCHANGED <<asked, reader, stopped, inbox, conn, proc, pipe, copier, stored, gotDone,
                   crashed>>

PongPanics ==
    /\ reader = "pong" /\ writing = "copier"
    /\ reader' = "gone"
    /\ conn' = IF conn = "open" THEN "server closed" ELSE conn
    /\ UNCHANGED <<asked, stopped, inbox, writing, proc, pipe, copier, stored, gotDone,
                   crashed>>

EndPong ==
    /\ reader = "pong" /\ writing = "reader"
    /\ writing' = "nobody" /\ reader' = "read"
    /\ UNCHANGED <<asked, stopped, inbox, conn, proc, pipe, copier, stored, gotDone, crashed>>

\* The copier starts to write what it writes in the given step.
CopierWrites(step) ==
    /\ IF writing = "nobody"
         THEN writing' = "copier" /\ copier' = step /\ UNCHANGED crashed
         ELSE crashed' = TRUE /\ UNCHANGED <<writing, copier>>
    /\ UNCHANGED <<asked, reader, stopped, inbox, conn, proc, stored, gotDone>>

-----------------------------------------------------------------------------
(***************************************************************************)
(* The exec goroutine, the remote tcpdump and the pipe between them and    *)
(* the copier.                                                             *)
(***************************************************************************)
SetProc(state) ==
    /\ proc' = state
    /\ UNCHANGED <<asked, reader, stopped, inbox, conn, writing, pipe, copier, stored,
                   gotDone, crashed>>

ProcessStarts == proc = "asked" /\ mode # "other" /\ SetProc("running")

\* The container cannot be reached, or is given an empty command.
ExecFails ==
    /\ "exec" \in faults \/ mode = "other"
    /\ proc = "asked" /\ SetProc("ended")

\* Not this session ends it: a bad filter, a pod that goes away, a broken
\* stream, or the kill of another session on the container.
ProcessExits == "exit" \in faults /\ proc = "running" /\ SetProc("ended")

SetPipe(state) ==
    /\ pipe' = state
    /\ UNCHANGED <<asked, reader, stopped, inbox, conn, writing, proc, copier, stored,
                   gotDone, crashed>>

ProcessWrites == proc = "running" /\ pipe = "empty" /\ SetPipe("output")

\* Mutant: after a stop the goroutine returns without pw.Close().
ClosePipeUnlessStopped ==
    ~ stopped /\ proc = "ended" /\ pipe = "empty" /\ SetPipe("closed")

\* PodExecuteCommand returns after the output has been taken, then pw.Close().
ClosePipe == proc = "ended" /\ pipe = "empty" /\ SetPipe("closed")

-----------------------------------------------------------------------------
(***************************************************************************)
(* The copier.                                                             *)
(***************************************************************************)
Copy == copier = "copy" /\ pipe = "output" /\ mode # "stdout" /\ SetPipe("empty")

BeginStdout ==
    /\ copier = "copy" /\ pipe = "output" /\ mode = "stdout"
    /\ pipe' = "empty"
    /\ CopierWrites("stdout")

EndStdout ==
    /\ copier = "stdout"
    /\ writing' = "nobody" /\ copier' = "copy"
    /\ UNCHANGED <<asked, reader, stopped, inbox, conn, proc, pipe, stored, gotDone, crashed>>

\* io.Copy returns, the goroutine goes on.
AfterCopy ==
    /\ copier' = IF mode = "file" THEN "status" ELSE "done"
    /\ UNCHANGED <<asked, reader, stopped, inbox, conn, writing, proc, stored, gotDone,
                   crashed>>

\* Mutant: the copier does not wait for the rest of the output after a stop.
CopyEndsWhenStopped ==
    copier = "copy" /\ (pipe = "closed" \/ stopped) /\ UNCHANGED pipe /\ AfterCopy

\* The pipe is drained and closed.
CopyEnds == copier = "copy" /\ pipe = "closed" /\ UNCHANGED pipe /\ AfterCopy

\* What the copier has read cannot be written: the file system fails, or the
\* user has quit Wireshark.  Nobody reads the pipe any more.
CopyFails ==
    /\ copier = "copy" /\ pipe = "output"
    /\ \/ mode = "wireshark"
       \/ mode = "file" /\ "storage" \in faults
    /\ pipe' = "empty"
    /\ AfterCopy

\* Mutant: the packets are not stored before "done" is sent.
SaveStatusOnly ==
    /\ copier = "status"
    /\ status' = "2" /\ copier' = "done"
    /\ UNCHANGED <<asked, reader, stopped, inbox, conn, writing, proc, pipe, packets, gotDone,
                   crashed>>

\* Nothing asks whether the status and the packets could be stored.
SaveStatus ==
    /\ copier = "status"
    /\ \/ status' = "2"
       \/ "storage" \in faults /\ UNCHANGED status
    /\ copier' = "packets"
    /\ UNCHANGED <<asked, reader, stopped, inbox, conn, writing, proc, pipe, packets, gotDone,
                   crashed>>

\* The file holds everything that tcpdump wrote iff nothing is left to come.  If
\* it cannot be read back the goroutine returns at once; if the packets
\* cannot be stored nothing asks.
SavePackets ==
    /\ copier = "packets"
    /\ \/ /\ packets' = IF proc = "ended" /\ pipe = "closed" THEN "complete" ELSE "partial"
          /\ copier' = "done"
       \/ /\ "storage" \in faults
          /\ \/ packets' \in {packets, "partial"} /\ copier' = "done"
             \/ UNCHANGED packets /\ copier' = "end"
    /\ UNCHANGED <<asked, reader, stopped, inbox, conn, writing, proc, pipe, status, gotDone,
                   crashed>>

BeginDone == copier = "done" /\ CopierWrites("sending") /\ UNCHANGED pipe

\* Mutant: the connection is left open.
EndDoneNoClose ==
    /\ copier = "sending"
    /\ writing' = "nobody" /\ copier' = "end"
    /\ gotDone' = (gotDone \/ conn = "open")
    /\ UNCHANGED <<asked, reader, stopped, inbox, conn, proc, pipe, stored, crashed>>

EndDone ==
    /\ copier = "sending"
    /\ writing' = "nobody" /\ copier' = "end"
    /\ gotDone' = (gotDone \/ conn = "open")
    /\ conn' = "server closed"
    /\ UNCHANGED <<asked, reader, stopped, inbox, proc, pipe, stored, crashed>>

-----------------------------------------------------------------------------
Client == SendStop \/ SendPing \/ SendMalformed \/ Disconnect

Reader ==
    \/ Setup \/ SetupFails \/ WiresharkFails \/ SetupOther \/ ReadFails \/ Read
    \/ KillRemoteTcpdump \/ KillFails \/ BeginPong \/ PongPanics \/ EndPong

Remote == ProcessExits \/ ProcessWrites

Exec == ProcessStarts \/ ExecFails \/ ClosePipe

Copier ==
    \/ Copy \/ BeginStdout \/ EndStdout \/ CopyEnds
    \/ SaveStatus \/ SavePackets \/ BeginDone \/ EndDone

Next == ~ crashed /\ (Client \/ Reader \/ Remote \/ Exec \/ Copier \/ CopyFails)

Spec == Init /\ [][Next]_vars

\* The goroutines are scheduled, a tcpdump that was asked for starts or fails,
\* a kill returns.  Nobody has to send, quit or disconnect, nothing has to fail
\* and no packet has to be seen.
Fairness ==
    /\ WF_vars(~ crashed /\ Reader)
    /\ WF_vars(~ crashed /\ Exec)
    /\ WF_vars(~ crashed /\ Copier)

FairSpec == Spec /\ Fairness

-----------------------------------------------------------------------------
(***************************************************************************)
(* Properties.                                                             *)
(***************************************************************************)

\* The status file says "2" only about a capture that is over and whose
\* output is in the file, whoever ended the tcpdump and however it ended,
\* unless the disk fails.
FinishedMeansDrained ==
    "storage" \notin faults /\ status = "2" => proc = "ended" /\ pipe = "closed"

\* The page lets the user download once it has received "done": the packets
\* are stored by then, all of them, unless the disk fails.
DoneMeansDownloadable ==
    "storage" \notin faults /\ mode = "file" /\ gotDone => packets = "complete"

\* Once tcpdump has ended, by the session's kill or by any other cause, the
\* client is told so, unless the connection is lost or the disk of a capture to
\* a file fails: as long as the copier drains the pipe to its end no
\* goroutine waits for another forever.
EndIsReported ==
    (copier = "copy" /\ proc = "ended" /\ (mode = "file" => "storage" \notin faults)) ~> (gotDone \/ conn # "open" \/ crashed)

\* A session whose client says "stop" or leaves while tcpdump runs ends it,
\* in whatever state the copier and the pipe are, unless the kill itself fails.
StopEndsCapture ==
    (/\ proc = "running" /\ reader = "read" /\ ~ stopped /\ "kill" \notin faults
     /\ \/ inbox # <<>> /\ Head(inbox) = "stop"
        \/ inbox = <<>> /\ conn # "open")
    ~> (proc = "ended" \/ crashed)

\* Quitting Wireshark ends the remote tcpdump too: the copier closes the
\* connection, and that takes the reader out of its loop.
QuitEndsCapture ==
    (/\ mode = "wireshark" /\ proc = "running" /\ "kill" \notin faults
     /\ copier = "end" /\ reader # "gone")
    ~> (proc = "ended" \/ crashed)

\* What the user ends has ended: the remote tcpdump does not outlive its session.
CaptureEnds == StopEndsCapture /\ QuitEndsCapture

(***************************************************************************)
(* What the program says of itself and does not do.                        *)
(***************************************************************************)

\* "Click stop and you can download what was captured": the page of mode "file".
\* A stop that arrives before tcpdump has started kills nothing, and the next
\* one is ignored.
StopDelivers ==
    (mode = "file" /\ reader = "read" /\ ~ stopped /\ inbox # <<>> /\ Head(inbox) = "stop")
    ~> (gotDone \/ conn # "open")

=============================================================================
