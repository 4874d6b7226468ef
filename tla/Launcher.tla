------------------------------- MODULE Launcher -------------------------------
(***************************************************************************)
(* The life of the desktop application (ui/src/main: index.ts, init.ts,      *)
(* server.ts): a loading window, a server process on a free port, the main   *)
(* window once something listens on that port, and the ways out.             *)
(*                                                                           *)
(* Electron, as far as the code relies on it: quit() asks the windows that   *)
(* exist to close; when the last window is closed it emits will-quit if      *)
(* quit() was called, and window-all-closed otherwise.  A window that is     *)
(* created after quit() was not asked to close.                              *)
(***************************************************************************)
EXTENDS Naturals

CONSTANT MaxCheckTimes \* how often the port is tried: 30 in server.ts

\* checkTimes starts at 1 and is counted up before it is compared
LauncherAssumption == MaxCheckTimes \in Nat \ {0, 1}

VARIABLE app

Windows == {"loading", "main"}

LauncherTypeOK ==
    app \in [mac : BOOLEAN, own : BOOLEAN,     \* macOS; no SERVER_PORT in the environment
             alive : BOOLEAN,
             step : {"port", "waiting", "opened", "failed"}, \* of the callback of the loading window
             checks : 1..MaxCheckTimes,
             server : {"none", "running", "told", "ended"}, dialog : BOOLEAN,
             windows : SUBSET Windows, closing : SUBSET Windows, shown : BOOLEAN,
             quitting : BOOLEAN]

-----------------------------------------------------------------------------
Tell(a) == [a EXCEPT !.server = IF @ = "running" THEN "told" ELSE @]

\* Mutant: the server is not killed.
WillQuitLeavesServer(a) == [a EXCEPT !.alive = FALSE]

\* will-quit, after which the process ends
WillQuit(a) == [Tell(a) EXCEPT !.alive = FALSE]

\* app.quit()
Quit(a) ==
    LET b == [a EXCEPT !.quitting = TRUE, !.closing = a.windows]
    IN  IF a.windows = {} THEN WillQuit(b) ELSE b

\* Mutant: on macOS nothing is done.
WindowAllClosedIgnored(a) == IF a.mac THEN a ELSE Quit(Tell(a))

\* window-all-closed
WindowAllClosed(a) == IF a.mac THEN Tell(a) ELSE Quit(Tell(a))

\* createWindow, after the handler of getBaseUrl is there.  activate never calls it again:
\* mainWindow is undefined or a window, not null.
CreateWindow(a) == [a EXCEPT !.step = "opened", !.windows = @ \cup {"main"}]

LauncherInit ==
    \E mac, own \in BOOLEAN :
        app = [mac |-> mac, own |-> own, alive |-> TRUE, step |-> "port", checks |-> 1,
               server |-> "none", dialog |-> FALSE, windows |-> {"loading"}, closing |-> {},
               shown |-> FALSE, quitting |-> FALSE]

-----------------------------------------------------------------------------
(* runServer                                                                 *)

PortFound ==
    /\ app.alive /\ app.step = "port"
    /\ app' = IF app.own THEN [app EXCEPT !.step = "waiting", !.server = "running"]
              ELSE CreateWindow(app)

\* The promise is rejected and nobody looks: the loading window stays.
PortNotFound ==
    /\ app.alive /\ app.step = "port"
    /\ app' = [app EXCEPT !.step = "failed"]

\* Mutant: one check too many.
CheckOnceMore(connects) ==
    /\ app.alive /\ app.step = "waiting"
    /\ LET a == [app EXCEPT !.checks = @ + 1] IN
       app' = IF connects THEN CreateWindow(a)
              ELSE IF a.checks > MaxCheckTimes THEN CreateWindow(Quit(a))
              ELSE a

\* waitUntilServerReady: whoever listens on the port counts, and giving up returns like success
Check(connects) ==
    /\ app.alive /\ app.step = "waiting"
    /\ LET a == [app EXCEPT !.checks = @ + 1] IN
       app' = IF connects THEN CreateWindow(a)
              ELSE IF a.checks >= MaxCheckTimes THEN CreateWindow(Quit(a))
              ELSE a

\* the close event of the process
ServerCloses(code) ==
    /\ app.alive /\ app.server \in {"running", "told"}
    /\ LET a == [app EXCEPT !.server = "ended"]
       IN  app' = IF code = 0 THEN Quit(a) ELSE [a EXCEPT !.dialog = TRUE]

\* both buttons of the dialog end the application
DialogAnswered ==
    /\ app.alive /\ app.dialog
    /\ app' = Quit([app EXCEPT !.dialog = FALSE])

-----------------------------------------------------------------------------
(* Windows                                                                   *)

ReadyToShow ==
    /\ app.alive /\ "main" \in app.windows /\ ~app.shown
    /\ app' = [app EXCEPT !.shown = TRUE, !.closing = @ \cup ({"loading"} \cap app.windows)]

UserCloses(w) ==
    /\ app.alive /\ w \in app.windows \ app.closing
    /\ app' = [app EXCEPT !.closing = @ \cup {w}]

UserQuits ==
    /\ app.alive
    /\ app' = Quit(app)

WindowCloses(w) ==
    /\ app.alive /\ w \in app.closing
    /\ LET a == [app EXCEPT !.windows = @ \ {w}, !.closing = @ \ {w}]
       IN  app' = IF a.windows # {} THEN a
                  ELSE IF a.quitting THEN WillQuit(a) ELSE WindowAllClosed(a)

LauncherNext ==
    \/ PortFound \/ PortNotFound \/ DialogAnswered \/ ReadyToShow \/ UserQuits
    \/ \E connects \in BOOLEAN : Check(connects)
    \/ \E code \in {0, 1} : ServerCloses(code)   \* 1 stands for any other code, or a signal
    \/ \E w \in Windows : UserCloses(w) \/ WindowCloses(w)

\* A port is found or not, the timer of the check runs, a window that is asked to closes, and so
\* does a server that was told to stop.
ToldServerCloses == app.server = "told" /\ \E code \in {0, 1} : ServerCloses(code)
FindsPort == PortFound \/ PortNotFound

LauncherFairness ==
    /\ WF_app(FindsPort)
    /\ WF_app(\E connects \in BOOLEAN : Check(connects))
    /\ WF_app(ToldServerCloses)
    /\ \A w \in Windows : WF_app(WindowCloses(w))

LauncherSpec == LauncherInit /\ [][LauncherNext]_app /\ LauncherFairness

-----------------------------------------------------------------------------
(* Properties                                                                *)

Life == IF ~app.alive THEN "gone" ELSE IF app.step = "opened" THEN "open" ELSE "starting"

Promise == INSTANCE DesktopApp WITH life <- Life, server <- app.server, own <- app.own

\* The application keeps its promise about the server on every way out, also when the user
\* closes the loading window, the server dies, or the wait for it is given up while the main
\* window is created (server.ts:84).
KeepsPromise == Promise!DesktopSpec

\* What must not last (Connections, LeftoversEnd): an application without a window, which ends, opens
\* one or says why, on macOS too, where the last window to be closed does not quit it: the server
\* it told to stop does (server.ts:45-70).  With SERVER_PORT, or without a port, it stays.
Windowless == app.own /\ app.alive /\ app.step # "failed" /\ app.windows = {} /\ ~app.dialog
=============================================================================
