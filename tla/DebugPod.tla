------------------------------- MODULE DebugPod -------------------------------
(***************************************************************************)
(* The server's end of a debug session: DebugRun of internal/apiv1/debug.go  *)
(* copies a pod, waits until the copy is ready, runs a shell in it and       *)
(* removes it.  The shell's streams are goroutines that share the websocket  *)
(* through internal/service/terminal/transport: one reads it for the shell's *)
(* input, its sizes and pings, one writes the shell's output to it, one      *)
(* takes the sizes.  When the websocket is lost the first types "exit", over *)
(* and over, which a program in the foreground may not take for its end.     *)
(***************************************************************************)
VARIABLE ds  \* the session

Handlers == {"find", "create", "wait", "attach", "stream", "remove", "tell", "telling", "done", "died"}
Leaks    == {"lostAnswer", "timeout", "noTerminal", "notRemoved"}

DebugTypeOK ==
    ds \in [handler : Handlers, err : BOOLEAN, why : Leaks \cup {"none"},
            pod : {"none", "new", "starting", "ready", "gone"}, minute : BOOLEAN,
            conn : {"open", "left", "closed"}, closed : BOOLEAN,
            reader : {"none", "read", "exit", "pong", "resize", "gone"},
            output : {"none", "copy", "write", "gone"}, sizes : {"none", "next", "encode"},
            shell : {"none", "running", "ended"}, busy : BOOLEAN, told : BOOLEAN]

Began ==
    [handler |-> "find", err |-> FALSE, why |-> "none", pod |-> "none", minute |-> FALSE,
          conn |-> "open", closed |-> FALSE, reader |-> "none", output |-> "none", sizes |-> "none",
          shell |-> "none", busy |-> FALSE, told |-> FALSE]

DebugInit == ds = Began

\* a session that was refused
Over == [Began EXCEPT !.handler = "done", !.conn = "closed"]

Tell(why) == [ds EXCEPT !.handler = "tell", !.why = why]

-----------------------------------------------------------------------------
(* DebugRun, up to the shell.                                                *)

\* parameters, cluster and pod
FindPod ==
    /\ ds.handler = "find"
    /\ ds' = [ds EXCEPT !.handler = "create"] \/ ds' = Tell("none")

\* An error may be that of the answer only.
CreatePod ==
    /\ ds.handler = "create"
    /\ \/ ds' = [ds EXCEPT !.handler = "wait", !.pod = "new"]
       \/ ds' = Tell("none")
       \/ ds' = [Tell("lostAnswer") EXCEPT !.pod = "new"]

\* context.WithTimeout
MinuteIsOver ==
    /\ ds.handler = "wait" /\ ~ ds.minute
    /\ ds' = [ds EXCEPT !.minute = TRUE]

\* Mutant: the pod is not removed when it cannot be looked at.
TickKeepsPod ==
    /\ ds.handler = "wait"
    /\ IF ds.minute THEN ds' = Tell("timeout")
       ELSE \/ ds.pod \in {"new", "ready"} /\ ds' = [ds EXCEPT !.handler = "attach"]
            \/ ds.pod = "starting" /\ UNCHANGED ds
            \/ ds' = Tell("none")

\* A pod that has no conditions yet is taken for one that is ready.  One that cannot be looked
\* at, because it is gone or for any other reason, is removed.
Tick ==
    /\ ds.handler = "wait"
    /\ IF ds.minute THEN ds' = Tell("timeout")
       ELSE \/ ds.pod \in {"new", "ready"} /\ ds' = [ds EXCEPT !.handler = "attach"]
            \/ ds.pod = "starting" /\ UNCHANGED ds
            \/ ds' = [ds EXCEPT !.handler = "remove", !.err = TRUE]

\* NewWebTerminal, and the connection Stream makes
Attach ==
    /\ ds.handler = "attach"
    /\ \/ ds' = Tell("noTerminal")
       \/ ds' = [ds EXCEPT !.handler = "remove", !.err = TRUE]
       \/ /\ ds.pod = "ready"
          /\ ds' = [ds EXCEPT !.handler = "stream", !.reader = "read", !.output = "copy",
                              !.sizes = "next", !.shell = "running"]

\* What the cluster does to the pod; without it there is no shell.
PodChanges ==
    \/ ds.pod = "new" /\ ds' = [ds EXCEPT !.pod = "starting"]
    \/ ds.pod = "starting" /\ ds' = [ds EXCEPT !.pod = "ready"]
    \/ /\ ds.pod \in {"new", "starting", "ready"}
       /\ ds' = [ds EXCEPT !.pod = "gone", !.shell = IF @ = "running" THEN "ended" ELSE @]

-----------------------------------------------------------------------------
(* The shell and its user.                                                   *)

\* An input ends the shell, begins a program in its foreground or does neither of the two; the
\* program, and the shell for whatever reason, end when they like.
ShellGoesOn ==
    /\ ds.shell = "running"
    /\ \/ ds.conn = "open" /\ ~ ds.closed /\ \E busy \in BOOLEAN : ds' = [ds EXCEPT !.busy = busy]
       \/ ds' = [ds EXCEPT !.busy = FALSE]
       \/ ds' = [ds EXCEPT !.shell = "ended"]

\* the prompt reads "exit"
ShellExits ==
    /\ ds.shell = "running" /\ ds.told /\ ~ ds.busy
    /\ ds' = [ds EXCEPT !.shell = "ended"]

Leave ==
    /\ ds.conn = "open"
    /\ ds' = [ds EXCEPT !.conn = "left"]

-----------------------------------------------------------------------------
(* WSTransport.  A websocket has one writer at a time: gorilla panics when it *)
(* sees a second one, in a goroutine of Stream without recovery.              *)

Writes == ds.reader = "pong" \/ ds.output = "write" \/ ds.handler = "telling"

Died == [ds EXCEPT !.handler = "died", !.conn = "closed", !.reader = "gone", !.output = "gone", !.sizes = "none"]

\* Read, of a message: input, a size, a ping, or one of no known type, which ends the terminal.
\* Input for a shell that has ended ends the reading.
ReadMessage ==
    /\ ds.reader = "read" /\ ~ ds.closed /\ ds.conn = "open"
    /\ \/ ds' = [ds EXCEPT !.reader = "resize"]
       \/ ds' = [ds EXCEPT !.reader = "pong"]
       \/ Writes /\ ds' = Died
       \/ ds' = [ds EXCEPT !.reader = "exit", !.closed = TRUE]
       \/ ds.shell = "ended" /\ ds' = [ds EXCEPT !.reader = "gone"]

\* Read, when the websocket is lost or the terminal has ended
ReadLoss ==
    /\ ds.reader = "read" /\ (ds.closed \/ ds.conn # "open")
    /\ ds' = [ds EXCEPT !.reader = "exit", !.closed = TRUE]

\* "exit" is written to the shell, whose stream may be closed.
WriteExit ==
    /\ ds.reader = "exit"
    /\ ds' = IF ds.shell = "ended" THEN [ds EXCEPT !.reader = "gone"]
             ELSE [ds EXCEPT !.reader = "read", !.told = TRUE]

\* sizeChan has no buffer
HandSizeOver ==
    /\ ds.reader = "resize" /\ ds.sizes = "next"
    /\ ds' = [ds EXCEPT !.reader = "read", !.sizes = "encode"]

SizeEncoded ==
    /\ ds.sizes = "encode"
    /\ ds' = [ds EXCEPT !.sizes = "next"]

EndPong ==
    /\ ds.reader = "pong"
    /\ ds' = [ds EXCEPT !.reader = "read"]

\* Write
BeginOutput ==
    /\ ds.output = "copy" /\ ds.shell = "running"
    /\ \/ ds' = [ds EXCEPT !.output = "write"]
       \/ Writes /\ ds' = Died

EndOutput ==
    /\ ds.output = "write"
    /\ ds' = [ds EXCEPT !.output = IF ds.conn = "open" THEN "copy" ELSE "gone"]

OutputEnds ==
    /\ ds.output = "copy" /\ ds.shell = "ended"
    /\ ds' = [ds EXCEPT !.output = "gone"]

-----------------------------------------------------------------------------
(* DebugRun, after the shell.                                                *)

\* Stream waits for the output to end and for the shell's result.
StreamEnds ==
    /\ ds.handler = "stream" /\ ds.output = "gone" /\ ds.shell = "ended"
    /\ \E err \in BOOLEAN : ds' = [ds EXCEPT !.handler = "remove", !.err = err]

\* The end of DebugRun closes the websocket.
Done == [ds EXCEPT !.handler = "done", !.conn = "closed"]

\* Nobody looks at the error of Delete.
RemovePod ==
    LET Then(s) == [s EXCEPT !.handler = IF ds.err THEN "tell" ELSE "done",
                             !.conn = IF ds.err THEN @ ELSE "closed"] IN
    /\ ds.handler = "remove"
    /\ \/ ds' = Then([ds EXCEPT !.pod = "gone"])
       \/ ds' = Then([ds EXCEPT !.why = "notRemoved"])

\* A panic of the handler is recovered.
TellUser ==
    \/ /\ ds.handler = "tell"
       /\ \/ ds' = [ds EXCEPT !.handler = "telling"]
          \/ Writes /\ ds' = Done
    \/ ds.handler = "telling" /\ ds' = Done

-----------------------------------------------------------------------------
Handler == FindPod \/ CreatePod \/ Tick \/ Attach \/ StreamEnds \/ RemovePod \/ TellUser
Reader  == ReadLoss \/ WriteExit \/ HandSizeOver \/ EndPong
Writer  == EndOutput \/ OutputEnds

DebugNext ==
    /\ ds.handler # "died"
    /\ \/ Handler \/ Reader \/ Writer \/ MinuteIsOver \/ BeginOutput \/ SizeEncoded \/ ReadMessage
       \/ PodChanges \/ ShellGoesOn \/ ShellExits \/ Leave

\* Goroutines are scheduled, the minute ends, and a shell at its prompt reads what is typed.
DebugFairness ==
    /\ WF_ds(Handler) /\ WF_ds(Reader) /\ WF_ds(Writer)
    /\ WF_ds(MinuteIsOver) /\ WF_ds(SizeEncoded) /\ WF_ds(ShellExits)

DebugSpec == DebugInit /\ [][DebugNext]_ds /\ DebugFairness

-----------------------------------------------------------------------------
(* Properties                                                                *)

\* DebugRun leaves no copy of the pod behind, which would sleep for ten hours, but in four cases:
\* the answer to the creation was lost, the minute was over (debug.go:63), the terminal could not
\* be made (debug.go:90), or the removal failed.
DebugPodIsRemoved == ds.handler = "done" /\ ds.pod \notin {"none", "gone"} => ds.why \in Leaks

\* What must not last (Connections, LeftoversEnd): a session that lost its user, and its pod with it,
\* while no program runs in the foreground of the shell, and somebody who waits for the websocket of
\* a session that has ended.
SessionLingers ==
    \/ ds.conn # "open" /\ ds.handler \notin {"done", "died"} /\ ~ds.busy
    \/ ds.handler = "done" /\ ds.reader \notin {"none", "gone"}
=============================================================================
