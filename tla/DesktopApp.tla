------------------------------ MODULE DesktopApp ------------------------------
(***************************************************************************)
(* What the desktop application promises about the server it brings along:  *)
(* the main window opens after the server was started, the server is not     *)
(* started after the application has ended, and the application does not end *)
(* without telling a running server to stop.  Launcher implements this.      *)
(***************************************************************************)
VARIABLES life,    \* "starting", "open" once there was a main window, "gone"
          server,  \* "none", "running", "told" to stop, "ended"
          own      \* the application starts a server; otherwise it was given a port

desktopVars == <<life, server, own>>

DesktopInit == life = "starting" /\ server = "none" /\ own \in BOOLEAN

StartServer ==
    /\ own /\ life = "starting" /\ server = "none"
    /\ server' = "running"
    /\ UNCHANGED <<life, own>>

OpenWindow ==
    /\ life = "starting" /\ (own => server # "none")
    /\ life' = "open"
    /\ UNCHANGED <<server, own>>

\* on the way out, or when the last window was closed
TellServer ==
    /\ life # "gone" /\ server = "running"
    /\ server' = "told"
    /\ UNCHANGED <<life, own>>

\* by itself or because it was told to
ServerEnds ==
    /\ life # "gone" /\ server \in {"running", "told"}
    /\ server' = "ended"
    /\ life' \in {life, "gone"}
    /\ UNCHANGED own

Exit ==
    /\ life # "gone"
    /\ life' = "gone"
    /\ server' = IF server = "running" THEN "told" ELSE server
    /\ UNCHANGED own

DesktopNext == StartServer \/ OpenWindow \/ TellServer \/ ServerEnds \/ Exit

DesktopSpec == DesktopInit /\ [][DesktopNext]_desktopVars
=============================================================================
