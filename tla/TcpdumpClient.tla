---------------------------- MODULE TcpdumpClient ----------------------------
(***************************************************************************)
(* The page of the live capture (ui/src/pages/Tools/Tcpdump): buttons, the   *)
(* socket of the capture and the key of the file to download.  It is the     *)
(* other end of TcpdumpSession.                                              *)
(*                                                                           *)
(* The handlers of every socket act on socketRef.current, whichever socket   *)
(* that is by now.  The rendering sees socketRef.current as it was when      *)
(* something last made React render (seen).                                  *)
(***************************************************************************)
EXTENDS Naturals, FiniteSets

CONSTANTS MaxSockets, \* bound on the captures that are started
          Deaf        \* the captures whose stop comes before the remote tcpdump has started: the
                      \* server may lose it (tcpdump.go:155; TcpdumpSession, run early_stop)

ClientAssumption == MaxSockets \in Nat /\ Deaf \subseteq 1..MaxSockets

VARIABLES tc,      \* the page, its timers and its sockets
          hasty    \* history: see Start and ThrownStop

clientVars == <<tc, hasty>>

Ids   == 1..MaxSockets
Modes == {"stdout", "file", "wireshark"}
\* 0 stands for no socket
Socket == [mode : Modes, state : {"none", "connecting", "open", "closing", "closed"},
           told : BOOLEAN,    \* stop was sent
           done : BOOLEAN]    \* the server has said done

ClientTypeOK ==
    /\ tc \in [open : BOOLEAN, ref : 0..MaxSockets, seen : 0..MaxSockets, last : 0..MaxSockets,
               isStart : BOOLEAN, mode : Modes \cup {"none"}, texts : SUBSET Ids, key : 0..MaxSockets,
               waits : SUBSET Modes,
               wireshark : {"hidden", "checking", "missing", "ready"}, sockets : [Ids -> Socket]]
    /\ hasty \in BOOLEAN

State(t, s) == IF s = 0 THEN "none" ELSE t.sockets[s].state
Rendered(t) == [t EXCEPT !.seen = t.ref]

\* Mutant: the socket is forgotten without a word.
StopSocketSilently(t) == IF State(t, t.ref) \in {"none", "connecting"} THEN t ELSE [t EXCEPT !.ref = 0]

\* stopSocket; send throws while the socket is connecting, and then the reference stays
StopSocket(t) ==
    IF State(t, t.ref) \in {"none", "connecting"} THEN t
    ELSE [t EXCEPT !.ref = 0, !.sockets[t.ref].told = @ \/ State(t, t.ref) = "open"]

\* handleSocketClose
SocketClose(t) ==
    IF State(t, t.ref) = "open"
    THEN [t EXCEPT !.ref = 0, !.sockets[t.ref].told = TRUE, !.sockets[t.ref].state = "closing"]
    ELSE [t EXCEPT !.ref = 0]

ClientInit ==
    /\ \E wireshark \in {"hidden", "checking"} :   \* only the desktop application offers it
        tc = [open |-> TRUE, ref |-> 0, seen |-> 0, last |-> 0, isStart |-> FALSE, mode |-> "none",
              texts |-> {}, key |-> 0, waits |-> {},
              wireshark |-> wireshark,
              sockets |-> [s \in Ids |-> [mode |-> "stdout", state |-> "none", told |-> FALSE, done |-> FALSE]]]
    /\ hasty = FALSE

-----------------------------------------------------------------------------
(* The user.                                                                 *)

\* caughtModes
Offered(mode) == mode # "wireshark" \/ tc.wireshark = "ready"

\* TcpdumpForm has one button, which starts or stops.
CanStart(mode) == tc.open /\ ~tc.isStart /\ Offered(mode)
CanStop        == tc.open /\ tc.isStart

\* handleStartTcpdump.  Nothing renders before the timer when there was nothing to reset: until
\* then the button starts captures that nobody can stop.
Start(mode) ==
    LET s == tc.last + 1
        t == [tc EXCEPT !.texts = {}, !.key = 0, !.waits = @ \cup {mode}, !.last = s, !.ref = s,
                        !.sockets[s] = [@ EXCEPT !.mode = mode, !.state = "connecting"]]
    IN  /\ CanStart(mode) /\ tc.seen = 0
        /\ tc.last < MaxSockets
        /\ tc' = IF tc.texts # {} \/ tc.key # 0 THEN Rendered(t) ELSE t
        /\ hasty' = (hasty \/ \E r \in Ids : State(tc, r) \notin {"none", "closed"})

\* INIT_MONACO_WAIT after a start, whatever has become of its socket
ShowStarted(mode) ==
    /\ mode \in tc.waits
    /\ tc' = Rendered([tc EXCEPT !.waits = @ \ {mode}, !.mode = mode, !.isStart = TRUE])
    /\ UNCHANGED hasty

ThrownStop == State(tc, tc.ref) = "connecting"

\* handleStopTcpdump
Stop ==
    /\ CanStop
    /\ tc' = Rendered(StopSocket([tc EXCEPT !.isStart = FALSE]))
    /\ hasty' = (hasty \/ ThrownStop)

\* The page is left: the clean-up stops.
Leave ==
    /\ tc.open
    /\ tc' = StopSocket([tc EXCEPT !.open = FALSE, !.isStart = FALSE, !.waits = {}, !.texts = {}, !.key = 0])
    /\ hasty' = (hasty \/ ThrownStop)

\* Another pod is chosen, which renders the page and leaves the capture alone.
ChangePod ==
    /\ tc.open
    /\ tc' = Rendered(tc)
    /\ UNCHANGED hasty

\* handleCheckTcpdumpWireshark
WiresharkChecked ==
    /\ tc.open /\ tc.wireshark = "checking"
    /\ \E found \in {"missing", "ready"} : tc' = Rendered([tc EXCEPT !.wireshark = found])
    /\ UNCHANGED hasty

\* The button is there; what it downloads is the file of tc.key.
CanDownload == ~tc.isStart /\ tc.key # 0 /\ tc.mode = "file"

-----------------------------------------------------------------------------
(* The sockets.                                                              *)

\* handleClientSocket; the pings that keep a connection alive are in TcpdumpSession
Opens(s) ==
    /\ State(tc, s) = "connecting"
    /\ tc' = [tc EXCEPT !.sockets[s].state = "open"]
    /\ UNCHANGED hasty

\* handleWriteMessage
Output(s) ==
    /\ State(tc, s) = "open" /\ ~tc.sockets[s].done /\ tc.sockets[s].mode = "stdout"
    /\ tc' = IF tc.open THEN Rendered([tc EXCEPT !.texts = @ \cup {s}]) ELSE tc
    /\ UNCHANGED hasty

\* done, with the key of a stored capture; closing the reference, if there is one
Done(s) ==
    /\ State(tc, s) = "open" /\ ~tc.sockets[s].done
    /\ \E key \in IF tc.sockets[s].mode = "file" THEN {0, s} ELSE {0} :
        LET t == [tc EXCEPT !.sockets[s].done = TRUE, !.ref = 0,
                            !.key = IF key # 0 /\ tc.open THEN key ELSE @]
            u == IF State(tc, tc.ref) \in {"connecting", "open"}
                 THEN [t EXCEPT !.sockets[tc.ref].state = "closing"] ELSE t
        IN  tc' = IF t.key # tc.key THEN Rendered(u) ELSE u
    /\ UNCHANGED hasty

\* The socket is closed, refused or lost; its onclose acts on the reference.
Closed(s) ==
    /\ State(tc, s) \in {"connecting", "open", "closing"}
    /\ tc' = SocketClose([tc EXCEPT !.sockets[s].state = "closed"])
    /\ UNCHANGED hasty

ClientNext ==
    \/ \E mode \in Modes : Start(mode) \/ ShowStarted(mode)
    \/ Stop \/ Leave \/ ChangePod \/ WiresharkChecked
    \/ \E s \in Ids : Opens(s) \/ Output(s) \/ Done(s) \/ Closed(s)

\* A connection opens or is refused, the server answers a stop that it did not lose
\* (TcpdumpSession: CaptureEnds), and a session that is done or closing is closed.
AnswersStop(s) == tc.sockets[s].told /\ Done(s)
Resolves(s) == State(tc, s) = "connecting" /\ (Opens(s) \/ Closed(s))
GetsClosed(s) == (tc.sockets[s].done \/ State(tc, s) = "closing") /\ Closed(s)

ClientFairness ==
    /\ \A s \in Ids : WF_clientVars(Resolves(s)) /\ WF_clientVars(GetsClosed(s))
    /\ \A s \in Ids \ Deaf : WF_clientVars(AnswersStop(s))

ClientSpec == ClientInit /\ [][ClientNext]_clientVars /\ ClientFairness

-----------------------------------------------------------------------------
(* Properties                                                                *)

Untold(s) == State(tc, s) \in {"connecting", "open"} /\ ~tc.sockets[s].told

\* A capture that has not been told to stop is the one that the stop button, or leaving the page,
\* will stop.  Two ways out (hasty): starting while the socket of the capture before is still
\* there, whose done or close event acts on the new one (useSocketTcpdump.ts:59 and 85), and
\* stopping before the socket is open, where send throws (useSocketTcpdump.ts:93).
CaptureCanBeStopped ==
    ~hasty => \A s \in Ids : Untold(s) => tc.open /\ s = tc.ref

\* What must not last (Connections, LeftoversEnd): a connection after the page was left, but for
\* the same two ways out and for the captures whose stop the server lost.
CaptureLingers ==
    ~tc.open /\ ~hasty /\ \E s \in Ids \ Deaf : State(tc, s) \notin {"none", "closed"}
=============================================================================
