------------------------- MODULE TcpdumpClientProofs -------------------------
(***************************************************************************)
(* The capture page can stop its capture, for any number of captures.        *)
(***************************************************************************)
EXTENDS TcpdumpClient, TLAPS

Page == [open : BOOLEAN, ref : 0..MaxSockets, seen : 0..MaxSockets, last : 0..MaxSockets,
         isStart : BOOLEAN, mode : Modes \cup {"none"}, texts : SUBSET Ids, key : 0..MaxSockets,
         waits : SUBSET Modes, wireshark : {"hidden", "checking", "missing", "ready"},
         sockets : [Ids -> Socket]]

Live(t, s) == t.sockets[s].state \in {"connecting", "open", "closing"}

\* One socket is alive at a time, the latest, and the reference is to it or to none; the socket
\* that was not told to stop is the one of the reference, on a page that is open.
OneSocket(t) ==
    /\ t.ref \in {0, t.last}
    /\ \A s \in Ids : Live(t, s) => s = t.last
    /\ \A s \in Ids :
        t.sockets[s].state \in {"connecting", "open"} /\ ~t.sockets[s].told => t.open /\ s = t.ref

ClientInv == ClientTypeOK /\ (~hasty => OneSocket(tc))

-----------------------------------------------------------------------------
(* The operators on a page that several handlers share.                      *)

\* A page with another reference and other sockets is a page.
LEMMA PageWith ==
    ASSUME NEW t \in Page, NEW ref \in 0..MaxSockets, NEW f \in [Ids -> Socket]
    PROVE  [t EXCEPT !.ref = ref, !.sockets = f] \in Page
BY DEF Page

\* Rendering only takes note of the reference.
LEMMA RenderedKeeps ==
    ASSUME NEW t \in Page
    PROVE  Rendered(t) \in Page /\ (OneSocket(t) => OneSocket(Rendered(t)))
BY DEF Page, Rendered, OneSocket, Live

\* A stop is sent to the socket of the reference, unless that is connecting.
LEMMA StopSocketKeeps ==
    ASSUME ClientAssumption, NEW t \in Page
    PROVE  /\ StopSocket(t) \in Page
           /\ StopSocket(t).open = t.open /\ StopSocket(t).last = t.last
           /\ State(t, t.ref) # "connecting" /\ OneSocket([t EXCEPT !.open = TRUE]) => OneSocket(StopSocket(t))
<1>1. CASE State(t, t.ref) \in {"none", "connecting"}
  <2>1. StopSocket(t) = t
    BY <1>1 DEF StopSocket
  <2>2. ASSUME State(t, t.ref) = "none", OneSocket([t EXCEPT !.open = TRUE])
        PROVE  OneSocket(t)
    BY <2>2 DEF OneSocket, Live, State, Page, Socket, Ids, ClientAssumption
  <2> QED
    BY <1>1, <2>1, <2>2
<1>2. CASE State(t, t.ref) \notin {"none", "connecting"}
  <2> DEFINE u == StopSocket(t)
             r == t.ref
  <2>1. r \in Ids
    BY <1>2 DEF State, Page, Ids, ClientAssumption
  <2> DEFINE v == t.sockets[r].told \/ t.sockets[r].state = "open"
  <2>2. u = [t EXCEPT !.ref = 0, !.sockets[r].told = v]
    BY <1>2, <2>1 DEF StopSocket, State, Ids, ClientAssumption
  <2>0. v \in BOOLEAN
    OBVIOUS
  <2>3. u \in Page
    <3> DEFINE w == [t.sockets[r] EXCEPT !.told = v]
               f == [t.sockets EXCEPT ![r] = w]
    <3>1. t.sockets \in [Ids -> Socket]
      BY DEF Page
    <3>2. w \in Socket
      <4> HIDE DEF v
      <4> QED
        BY <2>0, <2>1, <3>1 DEF Socket
    <3>3. f \in [Ids -> Socket]
      <4> HIDE DEF w
      <4> QED
        BY <2>1, <3>1, <3>2
    <3>4. u = [t EXCEPT !.ref = 0, !.sockets = f]
      <4> HIDE DEF u, v
      <4> QED
        BY <2>2 DEF Page
    <3>5. 0 \in 0..MaxSockets
      BY DEF ClientAssumption
    <3> HIDE DEF u, f
    <3> QED
      BY <3>3, <3>4, <3>5, PageWith
  <2>4. /\ u.open = t.open /\ u.last = t.last /\ u.ref = 0
        /\ \A s \in Ids : u.sockets[s].state = t.sockets[s].state
        /\ \A s \in Ids \ {r} : u.sockets[s].told = t.sockets[s].told
        /\ u.sockets[r].told = v
    <3> HIDE DEF u, v
    <3> QED
      BY <2>1, <2>2 DEF Page, Socket
  <2>5. ASSUME OneSocket([t EXCEPT !.open = TRUE])
        PROVE  OneSocket(u)
    <3>1. /\ \A s \in Ids : Live(t, s) => s = t.last
          /\ \A s \in Ids : t.sockets[s].state \in {"connecting", "open"} /\ ~t.sockets[s].told => s = r
      BY <2>5 DEF OneSocket, Page, Live
    <3>2. t.sockets[r].state # "connecting"
      BY <1>2, <2>1 DEF State, Ids, ClientAssumption
    <3> HIDE DEF u
    <3> QED
      BY <2>1, <2>4, <3>1, <3>2 DEF OneSocket, Live
  <2> QED
    BY <2>3, <2>4, <2>5
<1> QED
  BY <1>1, <1>2

\* The same for one socket.
LEMMA SocketIn ==
    ASSUME NEW t \in Page, NEW s \in Ids, NEW w \in Socket
    PROVE  /\ [t EXCEPT !.sockets[s] = w] \in Page
           /\ [t EXCEPT !.sockets[s] = w].sockets = [t.sockets EXCEPT ![s] = w]
<1>1. [t.sockets EXCEPT ![s] = w] \in [Ids -> Socket]
  BY DEF Page
<1>2. [t EXCEPT !.sockets[s] = w] = [t EXCEPT !.ref = t.ref, !.sockets = [t.sockets EXCEPT ![s] = w]]
  BY DEF Page
<1>3. t.ref \in 0..MaxSockets
  BY DEF Page
<1>4. [t EXCEPT !.sockets[s] = w] \in Page
  BY <1>1, <1>2, <1>3, PageWith
<1> QED
  BY <1>4 DEF Page

\* A page on which a socket is in another state.
InState(t, s, state) == [t EXCEPT !.sockets[s].state = state]

\* It is a page, and the socket was told or not as before.
LEMMA StateIn ==
    ASSUME NEW t \in Page, NEW s \in Ids, NEW state \in {"none", "connecting", "open", "closing", "closed"}
    PROVE  LET u == InState(t, s, state)
           IN  /\ u \in Page
               /\ u.open = t.open /\ u.last = t.last /\ u.ref = t.ref
               /\ u.sockets[s].state = state /\ u.sockets[s].told = t.sockets[s].told
               /\ \A r \in Ids \ {s} : u.sockets[r] = t.sockets[r]
<1> DEFINE w == [t.sockets[s] EXCEPT !.state = state]
           u == InState(t, s, state)
<1>1. t.sockets[s] \in Socket
  BY DEF Page
<1>2. w \in Socket /\ w.state = state /\ w.told = t.sockets[s].told
  BY <1>1 DEF Socket
<1>3. u = [t EXCEPT !.sockets[s] = w]
  BY DEF Page, InState
<1> HIDE DEF w
<1>4. [t EXCEPT !.sockets[s] = w] \in Page /\ [t EXCEPT !.sockets[s] = w].sockets = [t.sockets EXCEPT ![s] = w]
  <2> HIDE DEF u
  <2> QED
    BY <1>2, SocketIn
<1>5. u \in Page /\ u.sockets = [t.sockets EXCEPT ![s] = w]
  <2> HIDE DEF u
  <2> QED
    BY <1>3, <1>4
<1>6. u.sockets[s] = w /\ \A r \in Ids \ {s} : u.sockets[r] = t.sockets[r]
  <2> HIDE DEF u
  <2> QED
    BY <1>5 DEF Page
<1>7. u.open = t.open /\ u.last = t.last /\ u.ref = t.ref
  BY DEF Page, InState
<1> QED
  BY <1>2, <1>5, <1>6, <1>7

\* handleSocketClose, unless the reference is to a connecting socket.
LEMMA SocketCloseKeeps ==
    ASSUME ClientAssumption, NEW t \in Page
    PROVE  /\ SocketClose(t) \in Page
           /\ State(t, t.ref) # "connecting" /\ OneSocket(t) => OneSocket(SocketClose(t))
<1>1. CASE State(t, t.ref) # "open"
  <2>1. SocketClose(t) = [t EXCEPT !.ref = 0]
    BY <1>1 DEF SocketClose
  <2>2. [t EXCEPT !.ref = 0] \in Page
    BY DEF Page, ClientAssumption
  <2>3. ASSUME State(t, t.ref) # "connecting", OneSocket(t)
        PROVE  OneSocket([t EXCEPT !.ref = 0])
    BY <1>1, <2>3 DEF OneSocket, Live, State, Page, Ids, ClientAssumption
  <2> QED
    BY <2>1, <2>2, <2>3
<1>2. CASE State(t, t.ref) = "open"
  <2> DEFINE r == t.ref
             w == [[t.sockets[r] EXCEPT !.told = TRUE] EXCEPT !.state = "closing"]
             f == [t.sockets EXCEPT ![r] = w]
             u == SocketClose(t)
  <2>1. r \in Ids
    BY <1>2 DEF State, Page, Ids, ClientAssumption
  <2>2. t.sockets[r] \in Socket /\ t.sockets \in [Ids -> Socket]
    BY <2>1 DEF Page
  <2>3. w \in Socket /\ w.state = "closing"
    BY <2>2 DEF Socket
  <2>4. u = [t EXCEPT !.ref = 0, !.sockets = f]
    <3>1. u = [t EXCEPT !.ref = 0, !.sockets[r].told = TRUE, !.sockets[r].state = "closing"]
      BY <1>2 DEF SocketClose
    <3> QED
      BY <2>1, <2>2, <3>1 DEF Page, Socket
  <2>5. f \in [Ids -> Socket] /\ f[r] = w /\ \A s \in Ids \ {r} : f[s] = t.sockets[s]
    <3> HIDE DEF w
    <3> QED
      BY <2>1, <2>2, <2>3
  <2>6. 0 \in 0..MaxSockets
    BY DEF ClientAssumption
  <2> HIDE DEF f, w, u
  <2>7. u \in Page
    BY <2>4, <2>5, <2>6, PageWith
  <2>8. u.open = t.open /\ u.last = t.last /\ u.ref = 0 /\ u.sockets = f
    BY <2>4 DEF Page
  <2>9. OneSocket(t) => OneSocket(u)
    BY <2>1, <2>3, <2>5, <2>8, <1>2 DEF OneSocket, Live, State, Ids
  <2> QED
    BY <2>7, <2>9 DEF u
<1> QED
  BY <1>1, <1>2

-----------------------------------------------------------------------------
(* One step per action.                                                      *)

\* The page as it is opened.
LEMMA ClientBegins ==
    ASSUME ClientAssumption
    PROVE  ClientInit => ClientInv
<1> SUFFICES ASSUME ClientInit
             PROVE  ClientInv
  OBVIOUS
<1>1. tc \in Page /\ hasty \in BOOLEAN
  <2> DEFINE fresh == [mode |-> "stdout", state |-> "none", told |-> FALSE, done |-> FALSE]
             f == [s \in Ids |-> fresh]
  <2>1. PICK wireshark \in {"hidden", "checking"} :
          tc = [open |-> TRUE, ref |-> 0, seen |-> 0, last |-> 0, isStart |-> FALSE, mode |-> "none",
                texts |-> {}, key |-> 0, waits |-> {}, wireshark |-> wireshark, sockets |-> f]
    BY DEF ClientInit
  <2>2. fresh \in Socket
    BY DEF Socket, Modes
  <2>3. f \in [Ids -> Socket]
    BY <2>2
  <2>4. 0 \in 0..MaxSockets
    BY DEF ClientAssumption
  <2>5. hasty \in BOOLEAN
    BY DEF ClientInit
  <2> HIDE DEF f
  <2>6. tc \in Page
    BY <2>1, <2>3, <2>4 DEF Page
  <2> QED
    BY <2>5, <2>6
<1>2. OneSocket(tc)
  BY DEF ClientInit, OneSocket, Live, Ids
<1> QED
  BY <1>1, <1>2 DEF ClientInv, ClientTypeOK, Page

\* Without haste nothing else is alive when a capture starts.
LEMMA StartKeeps ==
    ASSUME ClientAssumption, ClientInv, NEW mode \in Modes, Start(mode)
    PROVE  ClientInv'
<1> DEFINE s == tc.last + 1
           w == [tc.sockets[s] EXCEPT !.mode = mode, !.state = "connecting"]
           f == [tc.sockets EXCEPT ![s] = w]
           t == [tc EXCEPT !.texts = {}, !.key = 0, !.waits = @ \cup {mode}, !.last = s, !.ref = s,
                           !.sockets[s] = [@ EXCEPT !.mode = mode, !.state = "connecting"]]
<1>1. tc \in Page /\ hasty \in BOOLEAN
  BY DEF ClientInv, ClientTypeOK, Page
<1>2. s \in Ids /\ tc.open
  BY <1>1 DEF Start, CanStart, Ids, Page, ClientAssumption
<1>3. tc.sockets \in [Ids -> Socket] /\ tc.sockets[s] \in Socket
  BY <1>1, <1>2 DEF Page
<1>4. w \in Socket
  BY <1>3 DEF Socket
<1>5. f \in [Ids -> Socket] /\ f[s] = w /\ \A r \in Ids \ {s} : f[r] = tc.sockets[r]
  <2> HIDE DEF w
  <2> QED
    BY <1>2, <1>3, <1>4
<1>6. t = [tc EXCEPT !.texts = {}, !.key = 0, !.waits = @ \cup {mode}, !.last = s, !.ref = s, !.sockets = f]
  BY <1>1 DEF Page
<1>7. t \in Page
  <2> HIDE DEF t, f
  <2> QED
    <3>1. s \in 0..MaxSockets /\ 0 \in 0..MaxSockets
      BY <1>2 DEF Ids, ClientAssumption
    <3>2. tc.waits \cup {mode} \in SUBSET Modes
      BY <1>1 DEF Page
    <3> HIDE DEF s
    <3> QED
      BY <1>1, <1>5, <1>6, <3>1, <3>2 DEF Page
<1>8. t.open = tc.open /\ t.last = s /\ t.ref = s /\ t.sockets = f
  <2> HIDE DEF t, f
  <2> QED
    BY <1>1, <1>6 DEF Page
<1>9. ASSUME \A r \in Ids : State(tc, r) \in {"none", "closed"}
      PROVE  OneSocket(t)
  <2> HIDE DEF t, f, w, s
  <2> QED
    BY <1>1, <1>2, <1>5, <1>8, <1>9 DEF OneSocket, Live, State, Ids, ClientAssumption
<1>10. tc' = t \/ tc' = Rendered(t)
  BY DEF Start
<1>11. hasty' = (hasty \/ \E r \in Ids : State(tc, r) \notin {"none", "closed"})
  BY DEF Start
<1>12. hasty' \in BOOLEAN
  BY <1>11
<1> HIDE DEF t
<1>13. tc' \in Page /\ (OneSocket(t) => OneSocket(tc)')
  BY <1>7, <1>10, RenderedKeeps DEF OneSocket, Live
<1> QED
  BY <1>9, <1>11, <1>12, <1>13 DEF ClientInv, ClientTypeOK, Page

\* Stopping and leaving go through stopSocket.
LEMMA StopSends ==
    ASSUME ClientAssumption, ClientInv, Stop \/ Leave
    PROVE  ClientInv'
<1>1. tc \in Page /\ hasty \in BOOLEAN
  BY DEF ClientInv, ClientTypeOK, Page
<1>2. ASSUME NEW t \in Page, t.ref = tc.ref, t.sockets = tc.sockets, t.last = tc.last,
             tc' = StopSocket(t) \/ tc' = Rendered(StopSocket(t)), hasty' = (hasty \/ ThrownStop),
             OneSocket(tc) => tc.open
      PROVE  ClientInv'
  <2>1. StopSocket(t) \in Page
    BY StopSocketKeeps
  <2>2. OneSocket(tc) => OneSocket([t EXCEPT !.open = TRUE])
    BY <1>1, <1>2 DEF OneSocket, Live, Page
  <2>3. State(t, t.ref) = State(tc, tc.ref)
    BY <1>2 DEF State
  <2>4. ~ThrownStop /\ OneSocket(tc) => OneSocket(StopSocket(t))
    BY <2>2, <2>3, StopSocketKeeps DEF ThrownStop
  <2>5. tc' \in Page /\ (OneSocket(StopSocket(t)) => OneSocket(tc)')
    BY <1>2, <2>1, RenderedKeeps DEF OneSocket, Live
  <2>6. hasty' \in BOOLEAN
    BY <1>2
  <2> QED
    BY <1>2, <2>4, <2>5, <2>6 DEF ClientInv, ClientTypeOK, Page
<1>3. CASE Stop
  <2> DEFINE t == [tc EXCEPT !.isStart = FALSE]
  <2>1. t \in Page /\ t.ref = tc.ref /\ t.sockets = tc.sockets /\ t.last = tc.last
    BY <1>1 DEF Page
  <2>2. tc.open /\ tc' = Rendered(StopSocket(t)) /\ hasty' = (hasty \/ ThrownStop)
    BY <1>3 DEF Stop, CanStop
  <2> HIDE DEF t
  <2> QED
    BY <1>2, <2>1, <2>2
<1>4. CASE Leave
  <2> DEFINE t == [tc EXCEPT !.open = FALSE, !.isStart = FALSE, !.waits = {}, !.texts = {}, !.key = 0]
  <2>1. 0 \in 0..MaxSockets
    BY DEF ClientAssumption
  <2>2. t \in Page /\ t.ref = tc.ref /\ t.sockets = tc.sockets /\ t.last = tc.last
    BY <1>1, <2>1 DEF Page
  <2>3. tc.open /\ tc' = StopSocket(t) /\ hasty' = (hasty \/ ThrownStop)
    BY <1>4 DEF Leave
  <2> HIDE DEF t
  <2> QED
    BY <1>2, <2>2, <2>3
<1> QED
  BY <1>3, <1>4

\* Whatever leaves the sockets, the reference and the openness of the page alone.
LEMMA ViewKeeps ==
    ASSUME ClientAssumption, ClientInv, NEW t \in Page, t.open = tc.open, t.ref = tc.ref, t.last = tc.last,
           t.sockets = tc.sockets, tc' = t \/ tc' = Rendered(t), UNCHANGED hasty
    PROVE  ClientInv'
<1>1. tc' \in Page /\ (OneSocket(t) => OneSocket(tc)')
  BY RenderedKeeps DEF OneSocket, Live
<1>2. OneSocket(tc) => OneSocket(t)
  BY DEF OneSocket, Live
<1>3. hasty' \in BOOLEAN
  BY DEF ClientInv, ClientTypeOK
<1> QED
  BY <1>1, <1>2, <1>3 DEF ClientInv, ClientTypeOK, Page

LEMMA RenderingKeeps ==
    ASSUME ClientAssumption, ClientInv,
           \/ \E mode \in Modes : ShowStarted(mode)
           \/ ChangePod \/ WiresharkChecked
           \/ \E s \in Ids : Output(s)
    PROVE  ClientInv'
<1>1. tc \in Page
  BY DEF ClientInv, ClientTypeOK, Page
<1>2. ASSUME NEW mode \in Modes, ShowStarted(mode)
      PROVE  ClientInv'
  <2> DEFINE t == [tc EXCEPT !.waits = @ \ {mode}, !.mode = mode, !.isStart = TRUE]
  <2>1. tc.waits \ {mode} \in SUBSET Modes
    BY <1>1 DEF Page
  <2>2. t \in Page /\ t.open = tc.open /\ t.ref = tc.ref /\ t.last = tc.last /\ t.sockets = tc.sockets
    BY <1>1, <2>1 DEF Page
  <2>3. tc' = Rendered(t) /\ UNCHANGED hasty
    BY <1>2 DEF ShowStarted
  <2> HIDE DEF t
  <2> QED
    BY <2>2, <2>3, ViewKeeps
<1>3. CASE ChangePod
  BY <1>1, <1>3, ViewKeeps DEF ChangePod
<1>4. CASE WiresharkChecked
  <2>1. PICK found \in {"missing", "ready"} : tc' = Rendered([tc EXCEPT !.wireshark = found])
    BY <1>4 DEF WiresharkChecked
  <2> DEFINE t == [tc EXCEPT !.wireshark = found]
  <2>2. t \in Page /\ t.open = tc.open /\ t.ref = tc.ref /\ t.last = tc.last /\ t.sockets = tc.sockets
    BY <1>1 DEF Page
  <2>3. tc' = Rendered(t) /\ UNCHANGED hasty
    BY <1>4, <2>1 DEF WiresharkChecked
  <2> HIDE DEF t
  <2> QED
    BY <2>2, <2>3, ViewKeeps
<1>5. ASSUME NEW s \in Ids, Output(s)
      PROVE  ClientInv'
  <2> DEFINE t == [tc EXCEPT !.texts = @ \cup {s}]
  <2>1. tc.texts \cup {s} \in SUBSET Ids
    BY <1>1, <1>5 DEF Page
  <2>2. t \in Page /\ t.open = tc.open /\ t.ref = tc.ref /\ t.last = tc.last /\ t.sockets = tc.sockets
    BY <1>1, <2>1 DEF Page
  <2>3. (tc' = Rendered(t) \/ tc' = tc) /\ UNCHANGED hasty
    BY <1>5 DEF Output
  <2> HIDE DEF t
  <2> QED
    BY <1>1, <2>2, <2>3, ViewKeeps
<1> QED
  BY <1>2, <1>3, <1>4, <1>5

\* A connection that opens is the one of before.
LEMMA OpensKeeps ==
    ASSUME ClientAssumption, ClientInv, NEW s \in Ids, Opens(s)
    PROVE  ClientInv'
<1>1. tc \in Page /\ hasty \in BOOLEAN /\ hasty' = hasty
  BY DEF ClientInv, ClientTypeOK, Page, Opens
<1>2. tc.sockets[s].state = "connecting"
  BY DEF Opens, State, Ids, ClientAssumption
<1> DEFINE t == InState(tc, s, "open")
<1>3. /\ t \in Page
      /\ t.open = tc.open /\ t.last = tc.last /\ t.ref = tc.ref
      /\ t.sockets[s].state = "open" /\ t.sockets[s].told = tc.sockets[s].told
      /\ \A r \in Ids \ {s} : t.sockets[r] = tc.sockets[r]
  BY <1>1, StateIn
<1>4. tc' = t
  BY DEF Opens, InState
<1> HIDE DEF t
<1>5. OneSocket(tc) => OneSocket(t)
  BY <1>2, <1>3 DEF OneSocket, Live
<1>6. tc' \in Page /\ (OneSocket(tc) => OneSocket(tc)')
  BY <1>3, <1>4, <1>5 DEF OneSocket, Live
<1> QED
  BY <1>1, <1>6 DEF ClientInv, ClientTypeOK, Page

\* The socket that closes is the one of the reference, or the reference is none.
LEMMA ClosedKeeps ==
    ASSUME ClientAssumption, ClientInv, NEW s \in Ids, Closed(s)
    PROVE  ClientInv'
<1> DEFINE t == InState(tc, s, "closed")
<1>1. tc \in Page /\ hasty \in BOOLEAN /\ hasty' = hasty
  BY DEF ClientInv, ClientTypeOK, Page, Closed
<1>2. tc.sockets[s].state \in {"connecting", "open", "closing"} /\ tc' = SocketClose(t)
  BY DEF Closed, State, Ids, ClientAssumption, InState
<1>3. /\ t \in Page
      /\ t.open = tc.open /\ t.last = tc.last /\ t.ref = tc.ref
      /\ t.sockets[s].state = "closed" /\ t.sockets[s].told = tc.sockets[s].told
      /\ \A r \in Ids \ {s} : t.sockets[r] = tc.sockets[r]
  BY <1>1, StateIn
<1> HIDE DEF t
<1>4. OneSocket(tc) => OneSocket(t) /\ State(t, t.ref) # "connecting"
  BY <1>2, <1>3 DEF OneSocket, Live, State
<1>5. tc' \in Page /\ (OneSocket(tc) => OneSocket(tc)')
  BY <1>2, <1>3, <1>4, SocketCloseKeeps DEF OneSocket, Live
<1> QED
  BY <1>1, <1>5 DEF ClientInv, ClientTypeOK, Page

\* done lets go of the reference and closes what it was to.
LEMMA DoneKeeps ==
    ASSUME ClientAssumption, ClientInv, NEW s \in Ids, Done(s)
    PROVE  ClientInv'
<1>1. tc \in Page /\ hasty \in BOOLEAN /\ hasty' = hasty
  BY DEF ClientInv, ClientTypeOK, Page, Done
<1>2. tc.sockets[s].state = "open"
  BY DEF Done, State, Ids, ClientAssumption
<1>3. PICK key \in {0, s} :
        LET t == [tc EXCEPT !.sockets[s].done = TRUE, !.ref = 0,
                            !.key = IF key # 0 /\ tc.open THEN key ELSE @]
            u == IF State(tc, tc.ref) \in {"connecting", "open"}
                 THEN [t EXCEPT !.sockets[tc.ref].state = "closing"] ELSE t
        IN  tc' = IF t.key # tc.key THEN Rendered(u) ELSE u
  BY DEF Done
<1> DEFINE w == [tc.sockets[s] EXCEPT !.done = TRUE]
           f == [tc.sockets EXCEPT ![s] = w]
           k == IF key # 0 /\ tc.open THEN key ELSE tc.key
           t == [tc EXCEPT !.sockets[s].done = TRUE, !.ref = 0,
                           !.key = IF key # 0 /\ tc.open THEN key ELSE @]
           v == [t EXCEPT !.sockets[tc.ref].state = "closing"]
           u == IF State(tc, tc.ref) \in {"connecting", "open"} THEN v ELSE t
<1>4. tc' = u \/ tc' = Rendered(u)
  BY <1>3
<1>5. tc.sockets \in [Ids -> Socket] /\ tc.sockets[s] \in Socket
  BY <1>1 DEF Page
<1>6. w \in Socket /\ w.state = tc.sockets[s].state /\ w.told = tc.sockets[s].told
  BY <1>5 DEF Socket
<1>7. f \in [Ids -> Socket] /\ f[s] = w /\ \A r \in Ids \ {s} : f[r] = tc.sockets[r]
  <2> HIDE DEF w
  <2> QED
    BY <1>5, <1>6
<1>8. k \in 0..MaxSockets /\ 0 \in 0..MaxSockets
  BY <1>1 DEF Page, Ids, ClientAssumption
<1>9. t = [tc EXCEPT !.sockets = f, !.ref = 0, !.key = k]
  BY <1>1, <1>5 DEF Page
<1>10. /\ t \in Page
       /\ t.open = tc.open /\ t.last = tc.last /\ t.ref = 0 /\ t.sockets = f
  <2> HIDE DEF t, f, k
  <2> QED
    BY <1>1, <1>7, <1>8, <1>9 DEF Page
<1>11. \A r \in Ids : t.sockets[r].state = tc.sockets[r].state /\ t.sockets[r].told = tc.sockets[r].told
  <2> HIDE DEF t, f, w
  <2> QED
    BY <1>6, <1>7, <1>10
<1>12. CASE State(tc, tc.ref) \in {"connecting", "open"}
  <2> DEFINE r == tc.ref
  <2>1. r \in Ids
    BY <1>1, <1>12 DEF State, Page, Ids, ClientAssumption
  <2> HIDE DEF t
  <2>2. /\ v \in Page
        /\ v.open = t.open /\ v.last = t.last /\ v.ref = t.ref
        /\ v.sockets[r].state = "closing" /\ v.sockets[r].told = t.sockets[r].told
        /\ \A q \in Ids \ {r} : v.sockets[q] = t.sockets[q]
    <3>1. t \in Page
      BY <1>10
    <3> HIDE DEF r
    <3>2. LET y == InState(t, r, "closing")
          IN  /\ y \in Page
              /\ y.open = t.open /\ y.last = t.last /\ y.ref = t.ref
              /\ y.sockets[r].state = "closing" /\ y.sockets[r].told = t.sockets[r].told
              /\ \A q \in Ids \ {r} : y.sockets[q] = t.sockets[q]
      <4> HIDE DEF v, u, f, w, k
      <4> QED
        BY <2>1, <3>1, StateIn
    <3>3. v = InState(t, r, "closing")
      BY DEF r, InState
    <3> HIDE DEF v
    <3> QED
      BY <3>2, <3>3
  <2>3. u = v
    BY <1>12
  <2> HIDE DEF v, u
  <2>4. OneSocket(tc) => OneSocket(v)
    <3>1. \A q \in Ids : v.sockets[q].told = tc.sockets[q].told
      BY <1>11, <2>2
    <3>2. \A q \in Ids \ {r} : v.sockets[q].state = tc.sockets[q].state
      BY <1>11, <2>2
    <3> HIDE DEF r
    <3>3. ASSUME OneSocket(tc)
          PROVE  OneSocket(v)
      <4>1. r = tc.last /\ Live(tc, r)
        BY <1>12, <2>1, <3>3 DEF OneSocket, Live, State, r, Ids, ClientAssumption
      <4>2. ASSUME NEW q \in Ids, Live(v, q)
            PROVE  q = v.last
        BY <1>10, <2>2, <3>2, <3>3, <4>1, <4>2 DEF OneSocket, Live
      <4>3. ASSUME NEW q \in Ids, v.sockets[q].state \in {"connecting", "open"}
            PROVE  v.sockets[q].told
        BY <2>2, <3>1, <3>2, <3>3, <4>3 DEF OneSocket, r
      <4> QED
        BY <1>10, <2>2, <4>2, <4>3 DEF OneSocket
    <3> QED
      BY <3>3
  <2>5. tc' \in Page /\ (OneSocket(v) => OneSocket(tc)')
    BY <1>4, <2>2, <2>3, RenderedKeeps DEF OneSocket, Live
  <2> QED
    BY <1>1, <2>4, <2>5 DEF ClientInv, ClientTypeOK, Page
<1>13. CASE State(tc, tc.ref) \notin {"connecting", "open"}
  <2>1. u = t
    BY <1>13
  <2> HIDE DEF t, u
  <2>2. OneSocket(tc) => OneSocket(t)
    BY <1>1, <1>10, <1>11, <1>13 DEF OneSocket, Live, State, Ids
  <2>3. tc' \in Page /\ (OneSocket(t) => OneSocket(tc)')
    BY <1>4, <1>10, <2>1, RenderedKeeps DEF OneSocket, Live
  <2> QED
    BY <1>1, <2>2, <2>3 DEF ClientInv, ClientTypeOK, Page
<1> QED
  BY <1>12, <1>13

LEMMA ClientStep ==
    ASSUME ClientAssumption, ClientInv, [ClientNext]_clientVars
    PROVE  ClientInv'
<1>1. ASSUME NEW mode \in Modes, Start(mode)
      PROVE  ClientInv'
  BY <1>1, StartKeeps
<1>2. CASE Stop \/ Leave
  BY <1>2, StopSends
<1>3. CASE \/ \E mode \in Modes : ShowStarted(mode)
           \/ ChangePod \/ WiresharkChecked
           \/ \E s \in Ids : Output(s)
  BY <1>3, RenderingKeeps
<1>4. ASSUME NEW s \in Ids, Opens(s) \/ Done(s) \/ Closed(s)
      PROVE  ClientInv'
  BY <1>4, OpensKeeps, DoneKeeps, ClosedKeeps
<1>5. CASE UNCHANGED clientVars
  BY <1>5 DEF clientVars, ClientInv, ClientTypeOK, OneSocket, Live
<1> QED
  BY <1>1, <1>2, <1>3, <1>4, <1>5 DEF ClientNext

\* The inductive invariant.
LEMMA ClientInvHolds ==
    ASSUME ClientAssumption
    PROVE  ClientSpec => []ClientInv
<1>1. ClientInit => ClientInv
  BY ClientBegins
<1>2. ClientInv /\ [ClientNext]_clientVars => ClientInv'
  BY ClientStep
<1> QED
  BY <1>1, <1>2, PTL DEF ClientSpec

\* For any number of captures, started and stopped in any order, the page can stop every capture
\* that was not told to, unless it was in a hurry.
THEOREM CapturesCanBeStopped ==
    ASSUME ClientAssumption
    PROVE  ClientSpec => []CaptureCanBeStopped
<1>1. ClientInv => CaptureCanBeStopped
  BY DEF ClientInv, OneSocket, CaptureCanBeStopped, Untold, State, Ids
<1> QED
  BY <1>1, ClientInvHolds, PTL
=============================================================================
