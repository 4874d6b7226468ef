------------------------------ MODULE Connections ------------------------------
(***************************************************************************)
(* The parts that outlive a request: the sockets of the capture and terminal *)
(* pages, the desktop application with its server process, and on the server *)
(* the goroutines of a capture that was started by REST and those of a debug *)
(* session.  Like the pages of Workbench each is explored on its own: part   *)
(* says which, and the others keep an initial state in which nothing is      *)
(* under way.                                                                *)
(***************************************************************************)
EXTENDS TcpdumpClient, Launcher, TcpdumpTask, Sequences

CONSTANTS Pods, ContainersOf, MaxTerminals, MaxInstances  \* TerminalClient

VARIABLES part,
          tm, rushed, twice,  \* TerminalClient
          ds                  \* DebugPod

Terminal == INSTANCE TerminalClient WITH MaxSockets <- MaxTerminals, hasty <- rushed
Debugging == INSTANCE DebugPod

ASSUME ClientAssumed    == ClientAssumption
ASSUME TerminalAssumed  == Terminal!TerminalAssumption
ASSUME LauncherAssumed  == LauncherAssumption

capture  == clientVars
terminal == <<tm, rushed, twice>>
vars     == <<part, capture, terminal, app, taskVars, ds>>

\* the application after it has found no port
Stranded == [mac |-> FALSE, own |-> TRUE, alive |-> TRUE, step |-> "failed", checks |-> 1, server |-> "none",
             dialog |-> FALSE, windows |-> {"loading"}, closing |-> {}, shown |-> FALSE, quitting |-> FALSE]

Init ==
    /\ part \in {"capture", "terminal", "desktop", "tasks", "debug"}
    /\ ClientInit /\ (part # "capture" => tc.wireshark = "hidden")
    /\ Terminal!TerminalInit
    /\ part # "terminal" => tm.page = "debug" /\ tm.pod = CHOOSE p \in Pods : TRUE
    /\ IF part = "desktop" THEN LauncherInit ELSE app = Stranded
    /\ IF part = "debug" THEN Debugging!DebugInit ELSE ds = Debugging!Over
    /\ TaskInit /\ (part # "tasks" => faults = {})

Next ==
    /\ UNCHANGED part
    /\ \/ part = "capture" /\ ClientNext /\ UNCHANGED <<terminal, app, taskVars, ds>>
       \/ part = "terminal" /\ Terminal!TerminalNext /\ UNCHANGED <<capture, app, taskVars, ds>>
       \/ part = "desktop" /\ LauncherNext /\ UNCHANGED <<capture, terminal, taskVars, ds>>
       \/ part = "tasks" /\ TaskNext /\ UNCHANGED <<capture, terminal, app, ds>>
       \/ part = "debug" /\ Debugging!DebugNext /\ UNCHANGED <<capture, terminal, app, taskVars>>

Fairness ==
    /\ ClientFairness
    /\ Terminal!TerminalFairness
    /\ LauncherFairness
    /\ TaskFairness
    /\ Debugging!DebugFairness

Spec == Init /\ [][Next]_vars /\ Fairness

-----------------------------------------------------------------------------
\* Types of all parts.
ConnectionsTypeOK ==
    /\ ClientTypeOK /\ Terminal!TerminalTypeOK
    /\ LauncherTypeOK /\ TaskTypeOK /\ Debugging!DebugTypeOK

\* See TerminalClient: the only shell is that of the terminal on the screen.
ShellIsShown == Terminal!ShellIsShown

\* See TerminalClient: the shell is that of the container on the screen.
ShellInShownContainer == Terminal!ShellInShownContainer

\* See DebugPod: no copy of a pod is left behind.
DebugPodIsRemoved == Debugging!DebugPodIsRemoved

\* What was begun ends, always again nothing of it is left: the connection of a capture whose page was left, the spinner of a debug
\* session, an application that has lost its windows, a capture over REST, with its packets stored when it
\* was stopped, and the server's end of a debug session, with its pod.
Leftovers ==
    \/ CaptureLingers \/ Terminal!SpinnerTurns \/ Windowless
    \/ PacketsAreDue \/ SomePollerRuns \/ Debugging!SessionLingers
LeftoversEnd == []<>~Leftovers
=============================================================================
