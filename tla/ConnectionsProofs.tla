--------------------------- MODULE ConnectionsProofs ---------------------------
(***************************************************************************)
(* Proofs about Connections, for any number of pods, containers, sockets,    *)
(* terminals, checks of the port, captures, requests and crashes: its parts  *)
(* are well-typed, the only shell is that of the terminal on the screen, no  *)
(* copy of a pod is left behind, and the desktop application implements      *)
(* DesktopApp.                                                               *)
(***************************************************************************)
EXTENDS Connections, TcpdumpClientProofs, TcpdumpTaskProofs, SequenceTheorems, TLAPS

-----------------------------------------------------------------------------
(* DebugPod.                                                                 *)

\* There is no copy before one was created, and DebugRun only goes to its end without removing it
\* for one of the reasons it is excused for.
CopyIsRemoved ==
    /\ ds.handler \in {"find", "create"} => ds.pod = "none"
    /\ ds.handler \in {"tell", "telling", "done"} /\ ds.pod \notin {"none", "gone"} => ds.why \in Debugging!Leaks

\* The sets of values, by name: the provers do better when they need not look into them.
Excuse    == Debugging!Leaks \cup {"none"}
Copy      == {"none", "new", "starting", "ready", "gone"}
Websocket == {"open", "left", "closed"}
Reading   == {"none", "read", "exit", "pong", "resize", "gone"}
Writing   == {"none", "copy", "write", "gone"}
Sizing    == {"none", "next", "encode"}
Shell     == {"none", "running", "ended"}

Session == [handler : Debugging!Handlers, err : BOOLEAN, why : Excuse, pod : Copy, minute : BOOLEAN,
            conn : Websocket, closed : BOOLEAN, reader : Reading, output : Writing, sizes : Sizing,
            shell : Shell, busy : BOOLEAN, told : BOOLEAN]

LEMMA SessionValues ==
    /\ {"find", "create", "wait", "attach", "stream", "remove", "tell", "telling", "done", "died"}
           \subseteq Debugging!Handlers
    /\ {"none", "lostAnswer", "timeout", "noTerminal", "notRemoved"} \subseteq Excuse
    /\ {"none", "new", "starting", "ready", "gone"} \subseteq Copy
    /\ {"open", "left", "closed"} \subseteq Websocket
    /\ {"none", "read", "exit", "pong", "resize", "gone"} \subseteq Reading
    /\ {"none", "copy", "write", "gone"} \subseteq Writing
    /\ {"none", "next", "encode"} \subseteq Sizing
    /\ {"none", "running", "ended"} \subseteq Shell
BY DEF Debugging!Handlers, Debugging!Leaks, Excuse, Copy, Websocket, Reading, Writing, Sizing, Shell

LEMMA SessionType == Debugging!DebugTypeOK <=> ds \in Session
BY Zenon DEF Debugging!DebugTypeOK, Session, Excuse, Copy, Websocket, Reading, Writing, Sizing, Shell

DebugInv == ds \in Session /\ CopyIsRemoved

LEMMA DebugBegins == Debugging!DebugInit \/ ds = Debugging!Over => DebugInv
<1>1. Debugging!Began \in Session
  BY SessionValues DEF Debugging!Began, Session
<1>2. Debugging!Over \in Session /\ Debugging!Over.pod = "none"
  <2>1. Debugging!Began.pod = "none"
    BY DEF Debugging!Began
  <2> QED
    BY <1>1, <2>1, SessionValues DEF Debugging!Over, Session
<1>3. Debugging!Began.handler = "find" /\ Debugging!Began.pod = "none"
  BY DEF Debugging!Began
<1> QED
  BY <1>1, <1>2, <1>3 DEF Debugging!DebugInit, DebugInv, CopyIsRemoved

\* What the user is told, and a panic.
LEMMA TellIn ==
    ASSUME ds \in Session, NEW why \in Excuse
    PROVE  /\ Debugging!Tell(why) \in Session
           /\ Debugging!Tell(why).handler = "tell" /\ Debugging!Tell(why).pod = ds.pod
           /\ Debugging!Tell(why).why = why
BY SessionValues DEF Debugging!Tell, Session

LEMMA DiedIn ==
    ASSUME ds \in Session
    PROVE  Debugging!Died \in Session /\ Debugging!Died.handler = "died"
BY SessionValues DEF Debugging!Died, Session

LEMMA DebugStep ==
    ASSUME DebugInv, [Debugging!DebugNext]_ds
    PROVE  DebugInv'
<1>1. CASE Debugging!FindPod
  <2>1. ds' \in Session
    BY <1>1, SessionValues DEF DebugInv, Session, Debugging!FindPod, Debugging!Tell
  <2>2. CopyIsRemoved'
    BY <1>1 DEF DebugInv, CopyIsRemoved, Session, Debugging!Leaks, Debugging!FindPod, Debugging!Tell
  <2> QED
    BY <2>1, <2>2 DEF DebugInv
<1>2. CASE Debugging!CreatePod
  <2>1. ds' \in Session
    BY <1>2, SessionValues DEF DebugInv, Session, Debugging!CreatePod, Debugging!Tell
  <2>2. CopyIsRemoved'
    BY <1>2 DEF DebugInv, CopyIsRemoved, Session, Debugging!Leaks, Debugging!CreatePod, Debugging!Tell
  <2> QED
    BY <2>1, <2>2 DEF DebugInv
<1>3. CASE Debugging!MinuteIsOver
  <2>1. ds' \in Session
    BY <1>3, SessionValues DEF DebugInv, Session, Debugging!MinuteIsOver
  <2>2. CopyIsRemoved'
    BY <1>3 DEF DebugInv, CopyIsRemoved, Session, Debugging!Leaks, Debugging!MinuteIsOver
  <2> QED
    BY <2>1, <2>2 DEF DebugInv
<1>4. CASE Debugging!Tick
  <2>1. CASE ds' = Debugging!Tell("timeout")
    <3>1. "timeout" \in Excuse /\ "timeout" \in Debugging!Leaks
      BY DEF Excuse, Debugging!Leaks
    <3> QED
      BY <2>1, <3>1, TellIn DEF DebugInv, CopyIsRemoved
  <2>2. CASE ds' = [ds EXCEPT !.handler = "attach"] \/ ds' = [ds EXCEPT !.handler = "remove", !.err = TRUE]
    <3>1. ds' \in Session
      BY <2>2, SessionValues DEF DebugInv, Session
    <3> QED
      BY <2>2, <3>1 DEF DebugInv, CopyIsRemoved, Session
  <2>3. CASE UNCHANGED ds
    BY <2>3 DEF DebugInv, CopyIsRemoved
  <2> QED
    BY <1>4, <2>1, <2>2, <2>3 DEF Debugging!Tick
<1>5. CASE Debugging!Attach
  <2>1. CASE ds' = Debugging!Tell("noTerminal")
    <3>1. "noTerminal" \in Excuse /\ "noTerminal" \in Debugging!Leaks
      BY DEF Excuse, Debugging!Leaks
    <3> QED
      BY <2>1, <3>1, TellIn DEF DebugInv, CopyIsRemoved
  <2>2. CASE ds' = [ds EXCEPT !.handler = "remove", !.err = TRUE]
    <3>1. ds' \in Session
      BY <2>2, SessionValues DEF DebugInv, Session
    <3> QED
      BY <2>2, <3>1 DEF DebugInv, CopyIsRemoved, Session
  <2>3. CASE ds' = [ds EXCEPT !.handler = "stream", !.reader = "read", !.output = "copy",
                              !.sizes = "next", !.shell = "running"]
    <3>1. ds' \in Session
      BY <2>3, SessionValues DEF DebugInv, Session
    <3>2. ds'.handler = "stream"
      BY <2>3 DEF DebugInv, Session
    <3> QED
      BY <3>1, <3>2 DEF DebugInv, CopyIsRemoved
  <2> QED
    BY <1>5, <2>1, <2>2, <2>3 DEF Debugging!Attach
<1>6. CASE Debugging!StreamEnds
  <2>1. ds' \in Session
    BY <1>6, SessionValues DEF DebugInv, Session, Debugging!StreamEnds
  <2>2. CopyIsRemoved'
    BY <1>6 DEF DebugInv, CopyIsRemoved, Session, Debugging!Leaks, Debugging!StreamEnds
  <2> QED
    BY <2>1, <2>2 DEF DebugInv
<1>7. CASE Debugging!RemovePod
  <2>1. ds' \in Session
    BY <1>7, SessionValues DEF DebugInv, Session, Debugging!RemovePod
  <2>2. CopyIsRemoved'
    BY <1>7 DEF DebugInv, CopyIsRemoved, Session, Debugging!Leaks, Debugging!RemovePod
  <2> QED
    BY <2>1, <2>2 DEF DebugInv
<1>8. CASE Debugging!TellUser
  <2>1. ds' \in Session
    BY <1>8, SessionValues DEF DebugInv, Session, Debugging!TellUser, Debugging!Done
  <2>2. CopyIsRemoved'
    BY <1>8 DEF DebugInv, CopyIsRemoved, Session, Debugging!Leaks, Debugging!TellUser, Debugging!Done
  <2> QED
    BY <2>1, <2>2 DEF DebugInv
<1>9. CASE Debugging!ReadLoss
  <2>1. ds' \in Session
    BY <1>9, SessionValues DEF DebugInv, Session, Debugging!ReadLoss
  <2>2. CopyIsRemoved'
    BY <1>9 DEF DebugInv, CopyIsRemoved, Session, Debugging!Leaks, Debugging!ReadLoss
  <2> QED
    BY <2>1, <2>2 DEF DebugInv
<1>10. CASE Debugging!WriteExit
  <2>1. ds' \in Session
    BY <1>10, SessionValues DEF DebugInv, Session, Debugging!WriteExit
  <2>2. CopyIsRemoved'
    BY <1>10 DEF DebugInv, CopyIsRemoved, Session, Debugging!Leaks, Debugging!WriteExit
  <2> QED
    BY <2>1, <2>2 DEF DebugInv
<1>11. CASE Debugging!HandSizeOver
  <2>1. ds' \in Session
    BY <1>11, SessionValues DEF DebugInv, Session, Debugging!HandSizeOver
  <2>2. CopyIsRemoved'
    BY <1>11 DEF DebugInv, CopyIsRemoved, Session, Debugging!Leaks, Debugging!HandSizeOver
  <2> QED
    BY <2>1, <2>2 DEF DebugInv
<1>12. CASE Debugging!EndPong
  <2>1. ds' \in Session
    BY <1>12, SessionValues DEF DebugInv, Session, Debugging!EndPong
  <2>2. CopyIsRemoved'
    BY <1>12 DEF DebugInv, CopyIsRemoved, Session, Debugging!Leaks, Debugging!EndPong
  <2> QED
    BY <2>1, <2>2 DEF DebugInv
<1>13. CASE Debugging!ReadMessage
  <2>1. CASE ds' = Debugging!Died
    BY <2>1, DiedIn DEF DebugInv, CopyIsRemoved
  <2>2. CASE \/ ds' = [ds EXCEPT !.reader = "resize"] \/ ds' = [ds EXCEPT !.reader = "pong"]
             \/ ds' = [ds EXCEPT !.reader = "exit", !.closed = TRUE] \/ ds' = [ds EXCEPT !.reader = "gone"]
    <3>1. ds' \in Session
      BY <2>2, SessionValues DEF DebugInv, Session
    <3>2. ds'.handler = ds.handler /\ ds'.pod = ds.pod /\ ds'.why = ds.why
      BY <2>2 DEF DebugInv, Session
    <3> QED
      BY <3>1, <3>2 DEF DebugInv, CopyIsRemoved
  <2> QED
    BY <1>13, <2>1, <2>2 DEF Debugging!ReadMessage
<1>14. CASE Debugging!EndOutput
  <2>1. ds' \in Session
    BY <1>14, SessionValues DEF DebugInv, Session, Debugging!EndOutput
  <2>2. CopyIsRemoved'
    BY <1>14 DEF DebugInv, CopyIsRemoved, Session, Debugging!Leaks, Debugging!EndOutput
  <2> QED
    BY <2>1, <2>2 DEF DebugInv
<1>15. CASE Debugging!OutputEnds
  <2>1. ds' \in Session
    BY <1>15, SessionValues DEF DebugInv, Session, Debugging!OutputEnds
  <2>2. CopyIsRemoved'
    BY <1>15 DEF DebugInv, CopyIsRemoved, Session, Debugging!Leaks, Debugging!OutputEnds
  <2> QED
    BY <2>1, <2>2 DEF DebugInv
<1>16. CASE Debugging!BeginOutput
  <2>1. CASE ds' = Debugging!Died
    BY <2>1, DiedIn DEF DebugInv, CopyIsRemoved
  <2>2. CASE ds' = [ds EXCEPT !.output = "write"]
    <3>1. ds' \in Session
      BY <2>2, SessionValues DEF DebugInv, Session
    <3>2. ds'.handler = ds.handler /\ ds'.pod = ds.pod /\ ds'.why = ds.why
      BY <2>2 DEF DebugInv, Session
    <3> QED
      BY <3>1, <3>2 DEF DebugInv, CopyIsRemoved
  <2> QED
    BY <1>16, <2>1, <2>2 DEF Debugging!BeginOutput
<1>17. CASE Debugging!SizeEncoded
  <2>1. ds' \in Session
    BY <1>17, SessionValues DEF DebugInv, Session, Debugging!SizeEncoded
  <2>2. CopyIsRemoved'
    BY <1>17 DEF DebugInv, CopyIsRemoved, Session, Debugging!Leaks, Debugging!SizeEncoded
  <2> QED
    BY <2>1, <2>2 DEF DebugInv
<1>18. CASE Debugging!PodChanges
  <2>1. ds' \in Session
    BY <1>18, SessionValues DEF DebugInv, Session, Debugging!PodChanges
  <2>2. CopyIsRemoved'
    BY <1>18 DEF DebugInv, CopyIsRemoved, Session, Debugging!Leaks, Debugging!PodChanges
  <2> QED
    BY <2>1, <2>2 DEF DebugInv
<1>19. CASE Debugging!ShellGoesOn
  <2>1. ds' \in Session
    BY <1>19, SessionValues DEF DebugInv, Session, Debugging!ShellGoesOn
  <2>2. CopyIsRemoved'
    BY <1>19 DEF DebugInv, CopyIsRemoved, Session, Debugging!Leaks, Debugging!ShellGoesOn
  <2> QED
    BY <2>1, <2>2 DEF DebugInv
<1>20. CASE Debugging!ShellExits
  <2>1. ds' \in Session
    BY <1>20, SessionValues DEF DebugInv, Session, Debugging!ShellExits
  <2>2. CopyIsRemoved'
    BY <1>20 DEF DebugInv, CopyIsRemoved, Session, Debugging!Leaks, Debugging!ShellExits
  <2> QED
    BY <2>1, <2>2 DEF DebugInv
<1>21. CASE Debugging!Leave
  <2>1. ds' \in Session
    BY <1>21, SessionValues DEF DebugInv, Session, Debugging!Leave
  <2>2. CopyIsRemoved'
    BY <1>21 DEF DebugInv, CopyIsRemoved, Session, Debugging!Leaks, Debugging!Leave
  <2> QED
    BY <2>1, <2>2 DEF DebugInv
<1>22. CASE UNCHANGED ds
  BY <1>22 DEF DebugInv, CopyIsRemoved
<1> QED
  BY <1>1, <1>2, <1>3, <1>4, <1>5, <1>6, <1>7, <1>8, <1>9, <1>10, <1>11, <1>12, <1>13, <1>14, <1>15, <1>16, <1>17, <1>18, <1>19, <1>20, <1>21, <1>22
     DEF Debugging!DebugNext, Debugging!Handler, Debugging!Reader, Debugging!Writer

-----------------------------------------------------------------------------
(* TerminalClient.                                                           *)

Tools        == {"terminal", "debug"}
SocketStates == {"connecting", "open", "closing", "closed"}
Connection   == [target : Terminal!Target, inst : Terminal!Instances, state : SocketStates]
Screen == [page : Tools, pod : Pods, container : Terminal!Containers \cup {None},
           inst : 0..MaxInstances, mounted : BOOLEAN, target : Terminal!Target \cup {None},
           isStart : BOOLEAN, loading : BOOLEAN,
           inits : Seq(Terminal!Timer), starts : Seq(Terminal!Timer),
           ref : [Terminal!Instances -> 0..MaxTerminals], sockets : Seq(Connection)]

IsAlive(t, s) == t.sockets[s].state \in {"connecting", "open"}

\* What holds whatever the user does: references are those of sockets that were opened, the debug
\* page has one instance, and only its timers of 300 ms are used.
Sound(t) ==
    /\ t \in Screen
    /\ \A i \in Terminal!Instances : t.ref[i] <= Len(t.sockets)
    /\ t.mounted => t.inst # 0
    /\ t.page = "debug" => t.inst = 1
    /\ t.page = "terminal" => t.inits = <<>>

\* The bound on the sockets counts those that timers are about to open.
Small(t) == Len(t.sockets) + Len(t.starts) + Len(t.inits) <= MaxTerminals

\* References and shells are those of the terminal on the screen.
Shown(t) ==
    /\ \A i \in Terminal!Instances : t.ref[i] # 0 => Terminal!HasElement(t, i)
    /\ \A s \in 1..Len(t.sockets) : IsAlive(t, s) =>
           t.mounted /\ t.ref[t.inst] = s /\ t.sockets[s].target = t.target

\* There is one timer at most, which is that of the terminal on the screen, that has no socket yet.
Due(t) ==
    /\ Len(t.starts) + Len(t.inits) <= 1
    /\ \A k \in 1..Len(t.starts) : t.starts[k] = [target |-> t.target, inst |-> t.inst]
    /\ \A k \in 1..Len(t.inits) : t.inits[k] = [target |-> t.target, inst |-> t.inst]
    /\ t.starts # <<>> \/ t.inits # <<>> => Terminal!HasElement(t, t.inst) /\ t.ref[t.inst] = 0

TerminalInv ==
    /\ Sound(tm) /\ Small(tm)
    /\ rushed \in BOOLEAN /\ twice \in BOOLEAN
    /\ ~rushed /\ ~twice => Shown(tm) /\ Due(tm)

\* No terminal has a shell.
NoShell(t) ==
    /\ \A i \in Terminal!Instances : t.ref[i] = 0
    /\ \A s \in 1..Len(t.sockets) : ~IsAlive(t, s)

-----------------------------------------------------------------------------
(* The operators that the handlers share, on any state of the page.          *)

\* The socket of an instance is closed, if it has one; nothing else that matters changes.
Closes(t, c, i) ==
    /\ Sound(c)
    /\ c.page = t.page /\ c.pod = t.pod /\ c.container = t.container /\ c.inst = t.inst
    /\ c.mounted = t.mounted /\ c.target = t.target /\ c.isStart = t.isStart
    /\ c.inits = t.inits /\ c.starts = t.starts
    /\ \A j \in Terminal!Instances : c.ref[j] = IF j = i THEN 0 ELSE t.ref[j]
    /\ Len(c.sockets) = Len(t.sockets)
    /\ \A s \in 1..Len(t.sockets) :
           /\ c.sockets[s].target = t.sockets[s].target
           /\ IsAlive(c, s) => IsAlive(t, s) /\ s # t.ref[i]

\* The constants.
LEMMA TerminalConstants ==
    /\ MaxTerminals \in Nat \ {0} /\ MaxInstances \in Nat \ {0}
    /\ None \notin Terminal!Containers
    /\ ContainersOf \in [Pods -> Seq(Terminal!Containers)]
BY TerminalAssumed DEF Terminal!TerminalAssumption

\* A socket is exchanged.
LEMMA Exchanged ==
    ASSUME NEW q \in Seq(Connection), NEW s \in 1..Len(q), NEW x \in Connection, NEW r, r = [q EXCEPT ![s] = x]
    PROVE  /\ r \in Seq(Connection) /\ Len(r) = Len(q)
           /\ \A k \in 1..Len(q) : r[k] = IF k = s THEN x ELSE q[k]
OBVIOUS

LEMMA SocketCloses ==
    ASSUME NEW t, Sound(t), NEW i \in Terminal!Instances
    PROVE  Closes(t, Terminal!SocketClose(t, i), i)
<1> DEFINE r  == t.ref[i]
           t1 == [t EXCEPT !.ref[i] = 0, !.loading = FALSE]
<1>1. r \in 0..MaxTerminals /\ r <= Len(t.sockets) /\ t \in Screen
  BY DEF Sound, Screen
<1>2. CASE r = 0
  <2>1. Terminal!SocketClose(t, i) = t
    BY <1>2 DEF Terminal!SocketClose
  <2>2. \A j \in Terminal!Instances : t.ref[j] = IF j = i THEN 0 ELSE t.ref[j]
    BY <1>2
  <2>3. \A s \in 1..Len(t.sockets) : s # t.ref[i]
    BY <1>2, <1>1 DEF Screen
  <2> QED
    BY <2>1, <2>2, <2>3 DEF Closes
<1>3. CASE r # 0
  <2>1. /\ t1 \in Screen /\ t1.page = t.page /\ t1.pod = t.pod /\ t1.container = t.container /\ t1.inst = t.inst
        /\ t1.mounted = t.mounted /\ t1.target = t.target /\ t1.isStart = t.isStart
        /\ t1.inits = t.inits /\ t1.starts = t.starts /\ t1.sockets = t.sockets
        /\ \A j \in Terminal!Instances : t1.ref[j] = IF j = i THEN 0 ELSE t.ref[j]
    <3>1. 0 \in 0..MaxTerminals
      BY TerminalConstants
    <3>2. [t.ref EXCEPT ![i] = 0] \in [Terminal!Instances -> 0..MaxTerminals]
      BY <1>1, <3>1 DEF Screen
    <3>3. t1 = [t EXCEPT !.ref = [t.ref EXCEPT ![i] = 0], !.loading = FALSE]
      OBVIOUS
    <3> QED
      BY <1>1, <3>2, <3>3 DEF Screen
  <2>2. Sound(t1)
    BY <2>1, <1>1 DEF Sound, Screen
  <2>3. CASE t.sockets[r].state = "closed"
    <3>1. Terminal!SocketClose(t, i) = t1
      BY <1>3, <2>3 DEF Terminal!SocketClose
    <3>2. \A s \in 1..Len(t.sockets) : IsAlive(t1, s) => IsAlive(t, s) /\ s # r
      BY <2>1, <2>3 DEF IsAlive
    <3> HIDE DEF t1
    <3> QED
      BY <2>1, <2>2, <3>1, <3>2 DEF Closes
  <2>4. CASE t.sockets[r].state # "closed"
    <3> DEFINE x == [t.sockets[r] EXCEPT !.state = "closing"]
               q == [t.sockets EXCEPT ![r] = x]
               c == [t1 EXCEPT !.sockets = q]
    <3>1. r \in 1..Len(t.sockets) /\ t.sockets \in Seq(Connection) /\ t.sockets[r] \in Connection
      BY <1>1, <1>3 DEF Screen
    <3>2. x \in Connection /\ x.target = t.sockets[r].target /\ x.state = "closing"
      BY <3>1 DEF Connection, SocketStates
    <3>3. /\ q \in Seq(Connection) /\ Len(q) = Len(t.sockets)
          /\ \A s \in 1..Len(t.sockets) : q[s] = IF s = r THEN x ELSE t.sockets[s]
      <4> HIDE DEF x, r
      <4> QED
        BY <3>1, <3>2, Exchanged
    <3>4. Terminal!SocketClose(t, i) = c
      BY <1>3, <2>1, <2>4 DEF Terminal!SocketClose
    <3> HIDE DEF q, x
    <3>5. /\ c \in Screen /\ c.page = t1.page /\ c.pod = t1.pod /\ c.container = t1.container /\ c.inst = t1.inst
          /\ c.mounted = t1.mounted /\ c.target = t1.target /\ c.isStart = t1.isStart
          /\ c.inits = t1.inits /\ c.starts = t1.starts /\ c.sockets = q /\ c.ref = t1.ref
      <4> HIDE DEF t1
      <4> QED
        BY <2>1, <3>3 DEF Screen
    <3> HIDE DEF t1, c
    <3>6. Sound(c)
      BY <2>2, <3>3, <3>5, <2>1 DEF Sound
    <3>7. \A s \in 1..Len(t.sockets) :
              /\ c.sockets[s].target = t.sockets[s].target
              /\ IsAlive(c, s) => IsAlive(t, s) /\ s # t.ref[i]
      BY <3>2, <3>3, <3>5 DEF IsAlive
    <3> QED
      BY <2>1, <3>3, <3>4, <3>5, <3>6, <3>7 DEF Closes
  <2> QED
    BY <2>3, <2>4
<1> QED
  BY <1>2, <1>3

LEMMA ClientCloses ==
    ASSUME NEW t, Sound(t), NEW i \in Terminal!Instances
    PROVE  Closes(t, Terminal!CloseClient(t, i), i)
<1> DEFINE c == Terminal!SocketClose(t, i)
           d == [c EXCEPT !.loading = FALSE]
<1>1. Closes(t, c, i) /\ Terminal!CloseClient(t, i) = d
  BY SocketCloses DEF Terminal!CloseClient, Terminal!StopLoading
<1> HIDE DEF c
<1>2. c \in Screen
  BY <1>1 DEF Closes, Sound
<1>3. /\ d \in Screen /\ d.page = c.page /\ d.pod = c.pod /\ d.container = c.container /\ d.inst = c.inst
      /\ d.mounted = c.mounted /\ d.target = c.target /\ d.isStart = c.isStart
      /\ d.inits = c.inits /\ d.starts = c.starts /\ d.sockets = c.sockets /\ d.ref = c.ref
  BY <1>2 DEF Screen
<1> HIDE DEF d
<1>4. Sound(d)
  BY <1>1, <1>3 DEF Closes, Sound
<1> QED
  BY <1>1, <1>3, <1>4 DEF Closes, IsAlive

\* A shell that is closed was shown; when it was that of the terminal on the screen, none is left.
LEMMA ClosingShows ==
    ASSUME NEW t, Sound(t), Shown(t), NEW i \in Terminal!Instances, NEW c, Closes(t, c, i)
    PROVE  Shown(c) /\ (i = t.inst => NoShell(c))
<1>1. \A j \in Terminal!Instances : Terminal!HasElement(c, j) <=> Terminal!HasElement(t, j)
  BY DEF Closes, Terminal!HasElement
<1>2. \A j \in Terminal!Instances : c.ref[j] # 0 => t.ref[j] # 0 /\ j # i
  BY DEF Closes
<1>3. ASSUME NEW s \in 1..Len(c.sockets), IsAlive(c, s)
      PROVE  c.mounted /\ c.ref[c.inst] = s /\ c.sockets[s].target = c.target /\ i # t.inst
  <2>1. s \in 1..Len(t.sockets) /\ IsAlive(t, s) /\ s # t.ref[i] /\ c.sockets[s].target = t.sockets[s].target
    BY <1>3 DEF Closes
  <2>2. t.mounted /\ t.ref[t.inst] = s /\ t.sockets[s].target = t.target /\ i # t.inst
    BY <2>1 DEF Shown
  <2>3. t.inst \in Terminal!Instances
    BY <2>2 DEF Sound, Screen, Terminal!Instances
  <2> QED
    BY <2>1, <2>2, <2>3 DEF Closes
<1>4. Shown(c)
  BY <1>1, <1>2, <1>3 DEF Shown
<1>5. i = t.inst => \A j \in Terminal!Instances : c.ref[j] = 0
  BY <1>2 DEF Shown, Terminal!HasElement
<1> QED
  BY <1>3, <1>4, <1>5 DEF NoShell

\* A terminal that leaves the page takes its socket with it.
LEMMA Unmounts ==
    ASSUME NEW t, Sound(t)
    PROVE  LET u == Terminal!Unmount(t) IN
           /\ Sound(u) /\ ~u.mounted
           /\ u.page = t.page /\ u.pod = t.pod /\ u.container = t.container /\ u.inst = t.inst
           /\ u.isStart = t.isStart /\ u.inits = t.inits /\ u.starts = t.starts
           /\ Len(u.sockets) = Len(t.sockets)
           /\ Shown(t) => NoShell(u)
<1>1. CASE t.mounted
  <2> DEFINE c == Terminal!CloseClient(t, t.inst)
             u == [c EXCEPT !.mounted = FALSE, !.target = None]
  <2>1. t.inst \in Terminal!Instances
    BY <1>1 DEF Sound, Screen, Terminal!Instances
  <2>2. Closes(t, c, t.inst)
    BY <2>1, ClientCloses
  <2>3. Shown(t) => NoShell(c)
    BY <2>1, <2>2, ClosingShows
  <2>4. Terminal!Unmount(t) = u
    BY <1>1 DEF Terminal!Unmount
  <2> HIDE DEF c
  <2>5. c \in Screen
    BY <2>2 DEF Closes, Sound
  <2>6. /\ u \in Screen /\ u.page = c.page /\ u.pod = c.pod /\ u.container = c.container /\ u.inst = c.inst
        /\ u.mounted = FALSE /\ u.isStart = c.isStart /\ u.inits = c.inits /\ u.starts = c.starts
        /\ u.ref = c.ref /\ u.sockets = c.sockets
    BY <2>5 DEF Screen
  <2> HIDE DEF u
  <2>7. Sound(u)
    BY <2>2, <2>6 DEF Closes, Sound
  <2>8. NoShell(c) => NoShell(u)
    BY <2>6 DEF NoShell, IsAlive
  <2> QED
    BY <2>2, <2>3, <2>4, <2>6, <2>7, <2>8 DEF Closes
<1>2. CASE ~t.mounted
  <2>1. Terminal!Unmount(t) = t
    BY <1>2 DEF Terminal!Unmount
  <2>2. Shown(t) => NoShell(t)
    BY <1>2 DEF Shown, NoShell, Terminal!HasElement, Sound, Screen
  <2> QED
    BY <1>2, <2>1, <2>2
<1> QED
  BY <1>1, <1>2

LatestTimer(t) == [target |-> t.target, inst |-> t.inst]

\* What the page renders for its pod and container: the terminal with a new timer, or none.
Renders(t, r) ==
    /\ Sound(r)
    /\ r.page = t.page /\ r.pod = t.pod /\ r.container = t.container
    /\ r.isStart = t.isStart /\ r.inits = t.inits /\ Len(r.sockets) = Len(t.sockets)
    /\ Terminal!Has(t.pod, t.container) =>
           /\ r.mounted
           /\ r.starts = Append(t.starts, LatestTimer(r)) \/ r.starts = t.starts
           /\ Shown(t) => r.starts = Append(t.starts, LatestTimer(r))
    /\ ~Terminal!Has(t.pod, t.container) => ~r.mounted /\ r.starts = t.starts /\ r.inst = t.inst
    /\ Shown(t) => NoShell(r)

\* x is t with another timer.
AddsTimer(t, x, timer) ==
    /\ Sound(x)
    /\ x.page = t.page /\ x.pod = t.pod /\ x.container = t.container /\ x.inst = t.inst
    /\ x.mounted = t.mounted /\ x.target = t.target /\ x.isStart = t.isStart /\ x.inits = t.inits
    /\ x.ref = t.ref /\ x.sockets = t.sockets
    /\ x.starts = Append(t.starts, timer)

LEMMA TimerAdded ==
    ASSUME NEW t, Sound(t), NEW timer \in Terminal!Timer, NEW x, x = [t EXCEPT !.starts = Append(@, timer)]
    PROVE  AddsTimer(t, x, timer)
<1> DEFINE q == Append(t.starts, timer)
<1>1. t \in Screen /\ t.starts \in Seq(Terminal!Timer) /\ x = [t EXCEPT !.starts = q]
  BY DEF Sound, Screen
<1>2. q \in Seq(Terminal!Timer)
  BY <1>1
<1> HIDE DEF q
<1>3. /\ x \in Screen /\ x.page = t.page /\ x.pod = t.pod /\ x.container = t.container /\ x.inst = t.inst
      /\ x.mounted = t.mounted /\ x.target = t.target /\ x.isStart = t.isStart /\ x.inits = t.inits
      /\ x.ref = t.ref /\ x.sockets = t.sockets /\ x.starts = q
  BY <1>1, <1>2 DEF Screen
<1>4. Sound(x)
  BY <1>3 DEF Sound
<1> QED
  BY <1>3, <1>4 DEF q, AddsTimer

LEMMA RenderTermRenders ==
    ASSUME NEW t, Sound(t), t.page = "terminal",
           t.mounted \/ t.inst < MaxInstances \/ ~Terminal!Has(t.pod, t.container)
    PROVE  /\ Renders(t, Terminal!RenderTerm(t))
           /\ t.mounted /\ Terminal!Has(t.pod, t.container) => Terminal!RenderTerm(t).inst = t.inst
<1> DEFINE target == [pod |-> t.pod, container |-> t.container]
           u == IF t.mounted THEN Terminal!CloseClient(t, t.inst)
                ELSE [t EXCEPT !.inst = @ + 1, !.mounted = TRUE]
           v == [u EXCEPT !.target = target]
<1>0. t \in Screen
  BY DEF Sound
<1>1. CASE ~Terminal!Has(t.pod, t.container)
  <2>1. Terminal!RenderTerm(t) = Terminal!Unmount(t)
    BY <1>1 DEF Terminal!RenderTerm
  <2> QED
    BY <1>1, <2>1, Unmounts DEF Renders
<1>2. CASE Terminal!Has(t.pod, t.container)
  <2>1. Terminal!RenderTerm(t) = Terminal!InitTerminal(v, u.inst, target)
    BY <1>2 DEF Terminal!RenderTerm
  <2>2. target \in Terminal!Target
    <3>1. PICK k \in DOMAIN ContainersOf[t.pod] : ContainersOf[t.pod][k] = t.container
      BY <1>2 DEF Terminal!Has
    <3>2. t.pod \in Pods /\ t.container \in Terminal!Containers
      BY <1>0, <3>1 DEF Screen, Terminal!Containers
    <3> QED
      BY <3>2 DEF Terminal!Target
  <2>3. /\ Sound(u) /\ u.mounted /\ u.inst \in Terminal!Instances
        /\ u.page = t.page /\ u.pod = t.pod /\ u.container = t.container
        /\ u.isStart = t.isStart /\ u.inits = t.inits /\ u.starts = t.starts
        /\ Len(u.sockets) = Len(t.sockets) /\ (t.mounted => u.inst = t.inst)
        /\ Shown(t) => NoShell(u)
    <3>1. CASE t.mounted
      <4>1. t.inst \in Terminal!Instances
        BY <3>1 DEF Sound, Screen, Terminal!Instances
      <4>2. Closes(t, u, t.inst)
        BY <3>1, <4>1, ClientCloses
      <4>3. Shown(t) => NoShell(u)
        BY <4>1, <4>2, ClosingShows
      <4> HIDE DEF u
      <4> QED
        BY <3>1, <4>1, <4>2, <4>3 DEF Closes
    <3>2. CASE ~t.mounted
      <4>1. t.inst + 1 \in Terminal!Instances /\ t.inst + 1 \in 0..MaxInstances
        BY <1>0, <1>2, <3>2, TerminalConstants DEF Screen, Terminal!Instances
      <4>2. u = [t EXCEPT !.inst = t.inst + 1, !.mounted = TRUE]
        BY <3>2
      <4>3. /\ u \in Screen /\ u.page = t.page /\ u.pod = t.pod /\ u.container = t.container /\ u.inst = t.inst + 1
            /\ u.mounted = TRUE /\ u.isStart = t.isStart /\ u.inits = t.inits /\ u.starts = t.starts
            /\ u.ref = t.ref /\ u.sockets = t.sockets
        BY <1>0, <4>1, <4>2 DEF Screen
      <4> HIDE DEF u
      <4>4. Sound(u)
        BY <1>0, <4>1, <4>3 DEF Sound, Screen, Terminal!Instances
      <4>5. Shown(t) => NoShell(u)
        BY <1>0, <3>2, <4>3 DEF Shown, NoShell, IsAlive, Terminal!HasElement, Screen
      <4> QED
        BY <3>2, <4>1, <4>3, <4>4, <4>5
    <3> QED
      BY <3>1, <3>2
  <2> HIDE DEF u, target
  <2>4. /\ Sound(v) /\ v.mounted /\ v.inst = u.inst /\ v.target = target
        /\ v.page = t.page /\ v.pod = t.pod /\ v.container = t.container
        /\ v.isStart = t.isStart /\ v.inits = t.inits /\ v.starts = t.starts
        /\ Len(v.sockets) = Len(t.sockets) /\ v.ref = u.ref
        /\ Shown(t) => NoShell(v)
    <3>1. u \in Screen
      BY <2>3 DEF Sound
    <3>2. /\ v \in Screen /\ v.page = u.page /\ v.pod = u.pod /\ v.container = u.container /\ v.inst = u.inst
          /\ v.mounted = u.mounted /\ v.isStart = u.isStart /\ v.inits = u.inits /\ v.starts = u.starts
          /\ v.ref = u.ref /\ v.sockets = u.sockets /\ v.target = target
      BY <2>2, <3>1 DEF Screen
    <3> HIDE DEF v
    <3> QED
      BY <2>3, <3>2 DEF Sound, NoShell, IsAlive
  <2> DEFINE x == [v EXCEPT !.starts = Append(@, [target |-> target, inst |-> u.inst])]
  <2>5. AddsTimer(v, x, [target |-> target, inst |-> u.inst])
    <3>1. [target |-> target, inst |-> u.inst] \in Terminal!Timer
      BY <2>2, <2>3 DEF Terminal!Timer
    <3> HIDE DEF v
    <3> QED
      BY <2>4, <3>1, TimerAdded, Zenon
  <2>6. Terminal!HasElement(v, u.inst)
    BY <2>4 DEF Terminal!HasElement
  <2>7. CASE v.ref[u.inst] # 0
    <3>1. Terminal!RenderTerm(t) = v
      BY <2>1, <2>7 DEF Terminal!InitTerminal
    <3>2. ~Shown(t)
      BY <2>3, <2>4, <2>7 DEF NoShell
    <3> HIDE DEF v
    <3> QED
      BY <1>2, <2>3, <2>4, <3>1, <3>2 DEF Renders
  <2>8. CASE v.ref[u.inst] = 0
    <3>1. Terminal!RenderTerm(t) = x
      BY <2>1, <2>6, <2>8 DEF Terminal!InitTerminal
    <3> HIDE DEF v, x
    <3>2. NoShell(v) => NoShell(x)
      BY <2>5 DEF AddsTimer, NoShell, IsAlive
    <3> QED
      BY <1>2, <2>3, <2>4, <2>5, <3>1, <3>2 DEF AddsTimer, Renders, LatestTimer
  <2> QED
    BY <2>7, <2>8
<1> QED
  BY <1>1, <1>2

\* x shows another pod or container and is t otherwise.
Repaints(t, x) ==
    /\ Sound(x)
    /\ x.page = t.page /\ x.inst = t.inst /\ x.mounted = t.mounted /\ x.target = t.target
    /\ x.isStart = t.isStart /\ x.inits = t.inits /\ x.starts = t.starts
    /\ x.ref = t.ref /\ x.sockets = t.sockets

LEMMA PodPainted ==
    ASSUME NEW t, Sound(t), NEW p \in Pods, NEW x, x = [t EXCEPT !.pod = p]
    PROVE  Repaints(t, x) /\ x.pod = p /\ x.container = t.container
<1>1. t \in Screen
  BY DEF Sound
<1>2. /\ x \in Screen /\ x.page = t.page /\ x.pod = p /\ x.container = t.container /\ x.inst = t.inst
      /\ x.mounted = t.mounted /\ x.target = t.target /\ x.isStart = t.isStart /\ x.inits = t.inits
      /\ x.starts = t.starts /\ x.ref = t.ref /\ x.sockets = t.sockets
  BY <1>1 DEF Screen
<1> QED
  BY <1>2 DEF Sound, Repaints

LEMMA ContainerPainted ==
    ASSUME NEW t, Sound(t), NEW c \in Terminal!Containers \cup {None}, NEW x, x = [t EXCEPT !.container = c]
    PROVE  Repaints(t, x) /\ x.pod = t.pod /\ x.container = c
<1>1. t \in Screen
  BY DEF Sound
<1>2. /\ x \in Screen /\ x.page = t.page /\ x.pod = t.pod /\ x.container = c /\ x.inst = t.inst
      /\ x.mounted = t.mounted /\ x.target = t.target /\ x.isStart = t.isStart /\ x.inits = t.inits
      /\ x.starts = t.starts /\ x.ref = t.ref /\ x.sockets = t.sockets
  BY <1>1 DEF Screen
<1> QED
  BY <1>2 DEF Sound, Repaints

LEMMA PaintingShows ==
    ASSUME NEW t, NEW x, Repaints(t, x)
    PROVE  (Shown(t) => Shown(x)) /\ (Due(t) => Due(x)) /\ (Small(t) => Small(x)) /\ (NoShell(t) => NoShell(x))
<1>1. \A i : Terminal!HasElement(x, i) <=> Terminal!HasElement(t, i)
  BY DEF Repaints, Terminal!HasElement
<1>2. \A s : IsAlive(x, s) <=> IsAlive(t, s)
  BY DEF Repaints, IsAlive
<1>3. Shown(t) => Shown(x)
  BY <1>1, <1>2 DEF Repaints, Shown
<1>4. Due(t) => Due(x)
  BY <1>1 DEF Repaints, Due
<1>5. (Small(t) => Small(x)) /\ (NoShell(t) => NoShell(x))
  BY <1>2 DEF Repaints, Small, NoShell
<1> QED
  BY <1>3, <1>4, <1>5

LEMMA NothingShown ==
    ASSUME NEW t, NoShell(t)
    PROVE  Shown(t)
BY DEF NoShell, Shown

LEMMA NothingDue ==
    ASSUME NEW t, t.starts = <<>>, t.inits = <<>>
    PROVE  Due(t)
BY DEF Due

\* The timer that rendering the terminal starts.
LEMMA LatestDue ==
    ASSUME NEW r, Sound(r), NoShell(r), r.page = "terminal", r.mounted,
           r.starts = Append(<<>>, LatestTimer(r))
    PROVE  Due(r)
<1>1. r.inits = <<>> /\ r.inst \in Terminal!Instances
  BY DEF Sound, Screen, Terminal!Instances
<1>2. Len(r.starts) = 1 /\ r.starts[1] = LatestTimer(r)
  OBVIOUS
<1>3. Len(r.inits) = 0
  BY <1>1
<1> QED
  BY <1>1, <1>2, <1>3 DEF Due, NoShell, LatestTimer, Terminal!HasElement

LEMMA RenderingIsDue ==
    ASSUME NEW t, NEW r, Renders(t, r), t.page = "terminal", Shown(t), t.starts = <<>>
    PROVE  Due(r)
<1>1. CASE Terminal!Has(t.pod, t.container)
  BY <1>1, LatestDue DEF Renders
<1>2. CASE ~Terminal!Has(t.pod, t.container)
  <2>1. r.starts = <<>> /\ r.inits = <<>>
    BY <1>2 DEF Renders, Sound
  <2> QED
    BY <2>1, NothingDue
<1> QED
  BY <1>1, <1>2

\* Rendering starts one timer at most.
LEMMA RenderingIsSmall ==
    ASSUME NEW t, Sound(t), NEW r, Renders(t, r)
    PROVE  Len(r.starts) <= Len(t.starts) + 1 /\ Len(r.starts) \in Nat /\ Len(t.starts) \in Nat
<1>1. t.starts \in Seq(Terminal!Timer) /\ r.starts \in Seq(Terminal!Timer)
  BY DEF Renders, Sound, Screen
<1>2. r.starts = Append(t.starts, LatestTimer(r)) \/ r.starts = t.starts
  BY DEF Renders
<1>3. Len(Append(t.starts, LatestTimer(r))) = Len(t.starts) + 1
  BY <1>1
<1> QED
  BY <1>1, <1>2, <1>3

\* The first container of a pod is one of its containers.
LEMMA FirstContainer ==
    ASSUME NEW p \in Pods, ContainersOf[p] # <<>>
    PROVE  Head(ContainersOf[p]) \in Terminal!Containers /\ Terminal!Has(p, Head(ContainersOf[p]))
<1>1. ContainersOf[p] \in Seq(Terminal!Containers)
  BY TerminalConstants
<1>2. 1 \in DOMAIN ContainersOf[p] /\ Head(ContainersOf[p]) = ContainersOf[p][1]
  BY <1>1
<1> QED
  BY <1>1, <1>2 DEF Terminal!Has

\* q is the terminal page t with another pod.
SetsPod(t, q, p) ==
    /\ Sound(q) /\ Len(q.sockets) = Len(t.sockets) /\ q.inits = t.inits /\ q.page = "terminal"
    /\ Len(q.starts) <= Len(t.starts) + 2 /\ Len(q.starts) \in Nat /\ Len(t.starts) \in Nat
    /\ ~Terminal!Has(p, t.container) => Len(q.starts) <= Len(t.starts) + 1
    /\ Shown(t) => NoShell(q)
    /\ Shown(t) /\ t.starts = <<>> /\ Len(q.starts) <= 1 => Due(q)

LEMMA PodIsSet ==
    ASSUME NEW t, Sound(t), t.page = "terminal", NEW p \in Pods,
           t.inst < MaxInstances \/ (t.mounted /\ Terminal!Has(p, t.container))
    PROVE  SetsPod(t, Terminal!SetPod(t, p), p)
<1> DEFINE x == [t EXCEPT !.pod = p]
           u == Terminal!RenderTerm(x)
           c == Head(ContainersOf[p])
           y == [u EXCEPT !.container = c]
           r == Terminal!RenderTerm(y)
           q == Terminal!SetPod(t, p)
<1>1. Repaints(t, x) /\ x.pod = p /\ x.container = t.container
  BY PodPainted
<1>2. q = IF ContainersOf[p] = <<>> \/ c = u.container THEN u ELSE r
  BY DEF Terminal!SetPod, Terminal!SetContainer
<1> HIDE DEF x
<1>3. Renders(x, u) /\ (x.mounted /\ Terminal!Has(x.pod, x.container) => u.inst = x.inst)
  BY <1>1, RenderTermRenders DEF Repaints
<1>4. Sound(x) /\ x.page = "terminal" /\ x.starts = t.starts /\ x.inits = t.inits /\ x.sockets = t.sockets
  BY <1>1 DEF Repaints
<1>5. Shown(t) => Shown(x)
  BY <1>1, PaintingShows
<1>6. /\ Sound(u) /\ Len(u.sockets) = Len(t.sockets) /\ u.inits = t.inits /\ u.page = "terminal"
      /\ u.pod = p /\ u.container = t.container
      /\ Shown(t) => NoShell(u)
  BY <1>1, <1>3, <1>4, <1>5 DEF Renders
<1>7. /\ Len(u.starts) <= Len(t.starts) + 1 /\ Len(u.starts) \in Nat /\ Len(t.starts) \in Nat
      /\ ~Terminal!Has(p, t.container) => u.starts = t.starts
  BY <1>1, <1>3, <1>4, RenderingIsSmall DEF Renders
<1>8. Shown(t) /\ t.starts = <<>> => Due(u)
  BY <1>3, <1>4, <1>5, RenderingIsDue
<1>9. u.mounted \/ u.inst < MaxInstances
  BY <1>1, <1>3 DEF Renders, Repaints
<1>10. Terminal!Has(p, t.container) => u.mounted
  BY <1>1, <1>3 DEF Renders
<1> HIDE DEF u
<1>11. CASE ContainersOf[p] = <<>> \/ c = u.container
  <2>1. q = u
    BY <1>2, <1>11
  <2>2. Len(u.starts) <= Len(t.starts) + 2
    BY <1>7
  <2>3. SetsPod(t, u, p)
    BY <1>6, <1>7, <1>8, <2>2 DEF SetsPod
  <2> QED
    BY <2>1, <2>3
<1>12. CASE ContainersOf[p] # <<>> /\ c # u.container
  <2>1. c \in Terminal!Containers /\ Terminal!Has(p, c)
    BY <1>12, FirstContainer
  <2> HIDE DEF c
  <2>2. Repaints(u, y) /\ y.pod = p /\ y.container = c
    BY <1>6, <2>1, ContainerPainted
  <2> HIDE DEF y
  <2>3. Sound(y) /\ y.page = "terminal" /\ (y.mounted \/ y.inst < MaxInstances)
    BY <1>6, <1>9, <2>2 DEF Repaints
  <2>4. Renders(y, r)
    BY <2>3, RenderTermRenders
  <2>5. q = r
    BY <1>2, <1>12
  <2> HIDE DEF r
  <2>6. /\ Len(r.starts) <= Len(u.starts) + 1 /\ Len(r.starts) \in Nat
    BY <2>2, <2>3, <2>4, RenderingIsSmall DEF Repaints
  <2>7. /\ Sound(r) /\ Len(r.sockets) = Len(t.sockets) /\ r.inits = t.inits /\ r.page = "terminal" /\ r.mounted
    BY <1>6, <2>1, <2>2, <2>4 DEF Renders, Repaints
  <2>8. ASSUME Shown(t)
        PROVE  NoShell(r) /\ (t.starts = <<>> /\ Len(r.starts) <= 1 => Due(r))
    <3>1. Shown(y)
      BY <1>6, <2>2, <2>8, NothingShown, PaintingShows
    <3>2. NoShell(r) /\ r.starts = Append(u.starts, LatestTimer(r))
      BY <2>1, <2>2, <2>4, <3>1 DEF Renders, Repaints
    <3>3. ASSUME Len(r.starts) <= 1
          PROVE  u.starts = <<>>
      <4>1. u.starts \in Seq(Terminal!Timer)
        BY <1>6 DEF Sound, Screen
      <4>2. Len(r.starts) = Len(u.starts) + 1
        BY <3>2, <4>1
      <4> QED
        BY <3>3, <4>1, <4>2
    <3>4. u.starts = <<>> => Due(r)
      BY <2>7, <3>2, LatestDue
    <3> QED
      BY <3>2, <3>3, <3>4
  <2>9. ~Terminal!Has(p, t.container) => Len(r.starts) <= Len(t.starts) + 1
    BY <1>7, <2>6
  <2>10. Len(r.starts) <= Len(t.starts) + 2
    BY <1>7, <2>6
  <2>11. SetsPod(t, r, p)
    BY <1>7, <2>6, <2>7, <2>8, <2>9, <2>10 DEF SetsPod
  <2> QED
    BY <2>5, <2>11
<1> QED
  BY <1>11, <1>12

-----------------------------------------------------------------------------
(* Every step of the page keeps its invariant.                               *)

Calm == ~rushed /\ ~twice

LEMMA Lengths ==
    ASSUME NEW t, Sound(t)
    PROVE  Len(t.sockets) \in Nat /\ Len(t.starts) \in Nat /\ Len(t.inits) \in Nat
BY DEF Sound, Screen

\* The bound that a choice needs is enough for the two timers it may start.
LEMMA StillSmall ==
    ASSUME NEW t, Sound(t), NEW x, Sound(x), Len(t.sockets) + Len(t.starts) + Len(t.inits) + 2 <= MaxTerminals,
           Len(x.sockets) = Len(t.sockets), Len(x.starts) <= Len(t.starts) + 2, Len(x.inits) = Len(t.inits)
    PROVE  Small(x)
<1> DEFINE a == Len(t.sockets)  b == Len(t.starts)  c == Len(t.inits)
           d == Len(x.sockets)  e == Len(x.starts)  f == Len(x.inits)
<1>1. a \in Nat /\ b \in Nat /\ c \in Nat /\ d \in Nat /\ e \in Nat /\ f \in Nat
  BY Lengths
<1>2. a + b + c + 2 <= MaxTerminals /\ d = a /\ e <= b + 2 /\ f = c
  OBVIOUS
<1>3. Small(x) <=> d + e + f <= MaxTerminals
  BY DEF Small
<1> HIDE DEF a, b, c, d, e, f
<1>4. d + e + f <= MaxTerminals
  BY <1>1, <1>2, TerminalConstants
<1> QED
  BY <1>3, <1>4

LEMMA TerminalBegins ==
    ASSUME Terminal!TerminalInit
    PROVE  TerminalInv
<1> DEFINE none == [i \in Terminal!Instances |-> 0]
           empty(tool, p) == [page |-> tool, pod |-> p, container |-> None, inst |-> 0, mounted |-> FALSE,
                              target |-> None, isStart |-> FALSE, loading |-> FALSE, inits |-> <<>>,
                              starts |-> <<>>, ref |-> none, sockets |-> <<>>]
           first(p) == [empty("debug", p) EXCEPT !.inst = 1, !.mounted = TRUE]
<1>1. PICK tool \in Tools, p \in Pods :
          tm = Terminal!SetPod(IF tool = "debug" THEN first(p) ELSE empty(tool, p), p)
  BY Zenon DEF Terminal!TerminalInit, Tools
<1>2. rushed = FALSE /\ twice = FALSE
  BY DEF Terminal!TerminalInit
<1>3. 0 \in 0..MaxInstances /\ 1 \in 0..MaxInstances /\ 0 \in 0..MaxTerminals /\ MaxTerminals >= 1
  BY TerminalConstants
<1>4. none \in [Terminal!Instances -> 0..MaxTerminals] /\ \A i \in Terminal!Instances : none[i] = 0
  BY <1>3
<1>5. <<>> \in Seq(Terminal!Timer) /\ <<>> \in Seq(Connection) /\ Len(<<>>) = 0
  OBVIOUS
<1> HIDE DEF none
<1>6. CASE tool = "debug"
  <2> DEFINE e == first(p)
             x == [e EXCEPT !.pod = p]
             c == Head(ContainersOf[p])
             y == [x EXCEPT !.container = c]
  <2>1. e \in Screen /\ e.page = "debug" /\ e.inst = 1 /\ e.starts = <<>> /\ e.inits = <<>>
        /\ e.ref = none /\ e.sockets = <<>>
    BY <1>3, <1>4, <1>5 DEF Screen, Tools
  <2> HIDE DEF e
  <2>2. Sound(e) /\ NoShell(e) /\ Due(e) /\ Small(e)
    BY <1>3, <1>4, <1>5, <2>1, NothingDue DEF Sound, NoShell, Small
  <2>3. Repaints(e, x) /\ x.pod = p
    BY <2>2, PodPainted
  <2> HIDE DEF x
  <2>4. x.page = "debug" /\ Sound(x) /\ NoShell(x) /\ Due(x) /\ Small(x)
    BY <2>1, <2>2, <2>3, PaintingShows DEF Repaints
  <2>5. Terminal!RenderTerm(x) = x
    BY <2>4 DEF Terminal!RenderTerm
  <2>6. tm = IF ContainersOf[p] = <<>> \/ c = x.container THEN x ELSE Terminal!RenderTerm(y)
    BY <1>1, <1>6, <2>5 DEF Terminal!SetPod, Terminal!SetContainer, e, x
  <2>7. ASSUME ContainersOf[p] # <<>>
        PROVE  Terminal!RenderTerm(y) = y /\ Sound(y) /\ NoShell(y) /\ Due(y) /\ Small(y)
    <3>1. c \in Terminal!Containers
      BY <2>7, FirstContainer
    <3>2. Repaints(x, y)
      BY <2>4, <3>1, ContainerPainted
    <3> HIDE DEF y
    <3> QED
      BY <2>4, <3>2, PaintingShows DEF Repaints, Terminal!RenderTerm
  <2>8. Sound(tm) /\ NoShell(tm) /\ Due(tm) /\ Small(tm)
    BY <2>4, <2>6, <2>7
  <2> QED
    BY <1>2, <2>8, NothingShown DEF TerminalInv
<1>7. CASE tool = "terminal"
  <2> DEFINE e == empty(tool, p)
  <2>1. e \in Screen /\ e.page = "terminal" /\ e.inst = 0 /\ e.mounted = FALSE /\ e.starts = <<>> /\ e.inits = <<>>
        /\ e.ref = none /\ e.sockets = <<>> /\ e.container = None
    BY <1>3, <1>4, <1>5, <1>7 DEF Screen, Tools
  <2>2. tm = Terminal!SetPod(e, p)
    BY <1>1, <1>7
  <2> HIDE DEF e
  <2>3. Sound(e) /\ NoShell(e)
    BY <1>3, <1>4, <1>5, <2>1 DEF Sound, NoShell
  <2>4. ~Terminal!Has(p, e.container)
    BY <2>1, TerminalConstants DEF Terminal!Has, Terminal!Containers
  <2>5. SetsPod(e, tm, p)
    BY <2>1, <2>2, <2>3, PodIsSet, TerminalConstants
  <2>6. Len(tm.starts) <= 1 /\ Len(tm.starts) \in Nat /\ tm.sockets \in Seq(Connection) /\ Len(tm.sockets) = 0 /\ tm.inits = <<>>
    BY <1>5, <2>1, <2>4, <2>5 DEF SetsPod, Sound, Screen
  <2>7. Sound(tm) /\ NoShell(tm) /\ Due(tm)
    BY <2>1, <2>3, <2>5, <2>6, NothingShown DEF SetsPod
  <2>8. Small(tm)
    BY <1>3, <1>5, <2>6 DEF Small
  <2> QED
    BY <1>2, <2>7, <2>8, NothingShown DEF TerminalInv
<1> QED
  BY <1>6, <1>7 DEF Tools

LEMMA ChangePodKeeps ==
    ASSUME TerminalInv, NEW p \in Pods, Terminal!ChangePod(p)
    PROVE  TerminalInv'
<1>1. /\ tm' = Terminal!SetPod(tm, p)
      /\ rushed' = (rushed \/ (tm.page = "terminal" /\ Terminal!Waiting))
      /\ twice' = (twice \/ Len(tm'.starts) > Len(tm.starts) + 1)
      /\ Len(tm.sockets) + Len(tm.starts) + Len(tm.inits) + 2 <= MaxTerminals
  BY DEF Terminal!ChangePod, Terminal!Bounded
<1>2. rushed' \in BOOLEAN /\ twice' \in BOOLEAN
  BY <1>1 DEF TerminalInv
<1>3. Sound(tm) /\ Len(tm.sockets) \in Nat /\ Len(tm.starts) \in Nat /\ Len(tm.inits) \in Nat
  BY Lengths DEF TerminalInv
<1>4. CASE tm.page = "terminal"
  <2>1. tm.inst < MaxInstances \/ (tm.mounted /\ Terminal!Has(p, tm.container))
    BY <1>4 DEF Terminal!ChangePod, Terminal!Here
  <2>2. SetsPod(tm, tm', p)
    BY <1>1, <1>3, <1>4, <2>1, PodIsSet
  <2>3. Small(tm')
    BY <1>1, <1>3, <2>2, StillSmall DEF SetsPod
  <2>4. ASSUME ~rushed', ~twice'
        PROVE  Shown(tm') /\ Due(tm')
    <3>1. Shown(tm) /\ tm.starts = <<>> /\ ~(Len(tm'.starts) > Len(tm.starts) + 1)
      BY <1>1, <1>4, <2>4 DEF TerminalInv, Terminal!Waiting
    <3>2. Len(tm.starts) = 0
      BY <3>1
    <3>3. Len(tm'.starts) <= 1
      BY <2>2, <3>1, <3>2 DEF SetsPod
    <3> QED
      BY <2>2, <3>1, <3>3, NothingShown DEF SetsPod
  <2> QED
    BY <1>2, <2>2, <2>3, <2>4 DEF TerminalInv, SetsPod, Sound, Small, Shown, Due, IsAlive, Screen
<1>5. CASE tm.page = "debug"
  <2> DEFINE x == [tm EXCEPT !.pod = p]
             c == Head(ContainersOf[p])
             y == [x EXCEPT !.container = c]
  <2>1. Repaints(tm, x)
    BY <1>3, PodPainted
  <2> HIDE DEF x
  <2>2. x.page = "debug" /\ Sound(x)
    BY <1>5, <2>1 DEF Repaints
  <2>3. Terminal!RenderTerm(x) = x
    BY <2>2 DEF Terminal!RenderTerm
  <2>4. tm' = IF ContainersOf[p] = <<>> \/ c = x.container THEN x ELSE Terminal!RenderTerm(y)
    BY <1>1, <2>3 DEF Terminal!SetPod, Terminal!SetContainer, x
  <2>5. ASSUME ContainersOf[p] # <<>>
        PROVE  Terminal!RenderTerm(y) = y /\ Repaints(x, y)
    <3>1. c \in Terminal!Containers
      BY <2>5, FirstContainer
    <3>2. Repaints(x, y)
      BY <2>2, <3>1, ContainerPainted
    <3> HIDE DEF y
    <3> QED
      BY <2>2, <3>2 DEF Repaints, Terminal!RenderTerm
  <2>6. Repaints(tm, tm')
    <3>1. Repaints(x, y) => Repaints(tm, y)
      <4> HIDE DEF y
      <4> QED
        BY <2>1 DEF Repaints
    <3> QED
      BY <2>1, <2>4, <2>5, <3>1
  <2>7. Sound(tm') /\ Small(tm') /\ (Shown(tm) => Shown(tm')) /\ (Due(tm) => Due(tm'))
    BY <2>6, PaintingShows DEF Repaints, TerminalInv
  <2> QED
    BY <1>1, <1>2, <2>7 DEF TerminalInv, Sound, Small, Shown, Due, IsAlive, Screen
<1> QED
  BY <1>3, <1>4, <1>5 DEF Sound, Screen, Tools

\* Whoever does something while nothing was waited for leaves nothing wrong behind.
LEMMA Keeping ==
    ASSUME Sound(tm'), Small(tm'), rushed' \in BOOLEAN, twice' \in BOOLEAN,
           ~rushed' /\ ~twice' => Shown(tm') /\ Due(tm')
    PROVE  TerminalInv'
BY DEF TerminalInv, Sound, Small, Shown, Due, IsAlive, Screen, Connection, LatestTimer

LEMMA ChangeContainerKeeps ==
    ASSUME TerminalInv, NEW c \in Terminal!Containers \cup {None}, Terminal!ChangeContainer(c),
           c = None \/ Terminal!Has(tm.pod, c)
    PROVE  TerminalInv'
<1> DEFINE x == [tm EXCEPT !.container = c]
           r == Terminal!RenderTerm(x)
<1>1. /\ tm' = r /\ rushed' = (rushed \/ Terminal!Waiting) /\ twice' = twice
      /\ tm.page = "terminal" /\ (tm.mounted \/ tm.inst < MaxInstances)
      /\ Len(tm.sockets) + Len(tm.starts) + Len(tm.inits) + 2 <= MaxTerminals
  BY DEF Terminal!ChangeContainer, Terminal!SetContainer, Terminal!Bounded, Terminal!Here
<1>2. Sound(tm)
  BY DEF TerminalInv
<1>3. Repaints(tm, x)
  BY <1>2, ContainerPainted
<1> HIDE DEF x
<1>4. Sound(x) /\ x.page = "terminal" /\ (x.mounted \/ x.inst < MaxInstances)
      /\ x.starts = tm.starts /\ x.inits = tm.inits /\ x.sockets = tm.sockets
  BY <1>1, <1>3 DEF Repaints
<1>5. Renders(x, r)
  BY <1>4, RenderTermRenders
<1> HIDE DEF r
<1>6. Sound(tm') /\ Small(tm')
  <2>1. Len(r.starts) <= Len(tm.starts) + 1 /\ Len(r.starts) \in Nat /\ Len(tm.starts) \in Nat
    BY <1>4, <1>5, RenderingIsSmall
  <2>2. Len(r.starts) <= Len(tm.starts) + 2
    BY <2>1
  <2>3. Sound(r) /\ Len(r.sockets) = Len(tm.sockets) /\ Len(r.inits) = Len(tm.inits)
    BY <1>4, <1>5 DEF Renders
  <2>4. Small(r)
    BY <1>1, <1>2, <2>2, <2>3, StillSmall
  <2> QED
    BY <1>1, <2>3, <2>4
<1>7. ASSUME ~rushed', ~twice'
      PROVE  Shown(tm') /\ Due(tm')
  <2>1. Shown(tm) /\ tm.starts = <<>>
    BY <1>1, <1>7 DEF TerminalInv, Terminal!Waiting
  <2>2. Shown(x)
    BY <1>3, <2>1, PaintingShows
  <2>3. NoShell(r) /\ Due(r)
    BY <1>4, <1>5, <2>1, <2>2, RenderingIsDue DEF Renders
  <2> QED
    BY <1>1, <2>3, NothingShown
<1> QED
  BY <1>1, <1>6, <1>7, Keeping DEF TerminalInv

LEMMA SubmitKeeps ==
    ASSUME TerminalInv, NEW c \in Terminal!Containers, Terminal!Submit(c)
    PROVE  TerminalInv'
<1> DEFINE target == [pod |-> tm.pod, container |-> c]
           timer  == [target |-> target, inst |-> tm.inst]
           q == Append(tm.inits, timer)
<1>1. /\ tm' = [tm EXCEPT !.loading = TRUE, !.isStart = TRUE, !.target = target, !.inits = q]
      /\ rushed' = (rushed \/ Terminal!Waiting) /\ twice' = twice
      /\ tm.page = "debug" /\ tm.mounted /\ ~tm.isStart
      /\ Len(tm.sockets) + Len(tm.starts) + Len(tm.inits) + 2 <= MaxTerminals
  BY DEF Terminal!Submit, Terminal!CanSubmit, Terminal!Bounded
<1>2. tm \in Screen /\ Sound(tm) /\ tm.inst = 1 /\ 1 \in Terminal!Instances
  BY <1>1, TerminalConstants DEF TerminalInv, Sound, Terminal!Instances
<1>3. timer \in Terminal!Timer /\ target \in Terminal!Target
  BY <1>2 DEF Terminal!Timer, Terminal!Target, Screen
<1>4. /\ q \in Seq(Terminal!Timer) /\ Len(q) = Len(tm.inits) + 1
      /\ tm.inits = <<>> => Len(q) = 1 /\ q[1] = timer
  BY <1>2, <1>3 DEF Screen
<1> HIDE DEF q, target
<1>5. /\ tm' \in Screen /\ tm'.page = "debug" /\ tm'.inst = 1 /\ tm'.mounted /\ tm'.isStart /\ tm'.target = target
      /\ tm'.inits = q /\ tm'.starts = tm.starts /\ tm'.ref = tm.ref /\ tm'.sockets = tm.sockets
  BY <1>1, <1>2, <1>3, <1>4 DEF Screen
<1>6. Sound(tm')
  BY <1>2, <1>5 DEF Sound
<1>7. Small(tm')
  <2>1. Len(tm'.starts) <= Len(tm.starts) + 2
    BY <1>5, Lengths, <1>2
  <2> DEFINE a == Len(tm.sockets)  b == Len(tm.starts)  d == Len(tm.inits)
  <2>2. a \in Nat /\ b \in Nat /\ d \in Nat /\ a + b + d + 2 <= MaxTerminals
    BY <1>1, <1>2, Lengths
  <2>3. Small(tm') <=> a + b + (d + 1) <= MaxTerminals
    BY <1>4, <1>5 DEF Small
  <2> HIDE DEF a, b, d
  <2>4. a + b + (d + 1) <= MaxTerminals
    BY <2>2, TerminalConstants
  <2> QED
    BY <2>3, <2>4
<1>8. ASSUME ~rushed', ~twice'
      PROVE  Shown(tm') /\ Due(tm')
  <2>1. Shown(tm) /\ tm.starts = <<>> /\ tm.inits = <<>>
    BY <1>1, <1>8 DEF TerminalInv, Terminal!Waiting
  <2>2. NoShell(tm)
    <3>1. \A i \in Terminal!Instances : ~Terminal!HasElement(tm, i)
      BY <1>1 DEF Terminal!HasElement
    <3>2. \A i \in Terminal!Instances : tm.ref[i] = 0
      BY <2>1, <3>1 DEF Shown
    <3>3. \A s \in 1..Len(tm.sockets) : ~IsAlive(tm, s)
      BY <1>2, <2>1, <3>2 DEF Shown
    <3> QED
      BY <3>2, <3>3 DEF NoShell
  <2>3. NoShell(tm')
    BY <1>5, <2>2 DEF NoShell, IsAlive
  <2>4. Len(tm'.starts) = 0 /\ Len(tm'.inits) = 1 /\ tm'.inits[1] = [target |-> tm'.target, inst |-> tm'.inst]
    BY <1>2, <1>4, <1>5, <2>1
  <2>5. Due(tm')
    BY <1>2, <1>5, <2>3, <2>4 DEF Due, NoShell, Terminal!HasElement
  <2> QED
    BY <2>3, <2>5, NothingShown
<1> QED
  BY <1>1, <1>6, <1>7, <1>8, Keeping DEF TerminalInv

LEMMA StopDebugKeeps ==
    ASSUME TerminalInv, Terminal!StopDebug
    PROVE  TerminalInv'
<1> DEFINE x == [tm EXCEPT !.isStart = FALSE, !.target = None]
<1>1. /\ tm' = Terminal!CloseClient(x, tm.inst) /\ rushed' = (rushed \/ Terminal!Waiting) /\ twice' = twice
      /\ tm.page = "debug" /\ tm.mounted
  BY DEF Terminal!StopDebug, Terminal!CanStop
<1>2. tm \in Screen /\ Sound(tm) /\ Small(tm) /\ tm.inst = 1 /\ 1 \in Terminal!Instances
  BY <1>1, TerminalConstants DEF TerminalInv, Sound, Terminal!Instances
<1>3. /\ x \in Screen /\ x.page = "debug" /\ x.inst = 1 /\ x.mounted /\ x.inits = tm.inits /\ x.starts = tm.starts
      /\ x.ref = tm.ref /\ x.sockets = tm.sockets
  BY <1>1, <1>2 DEF Screen
<1> HIDE DEF x
<1>4. Sound(x)
  BY <1>2, <1>3 DEF Sound
<1>5. Closes(x, tm', 1)
  BY <1>1, <1>2, <1>4, ClientCloses
<1>6. Sound(tm') /\ Small(tm')
  BY <1>2, <1>3, <1>5 DEF Closes, Small
<1>7. ASSUME ~rushed', ~twice'
      PROVE  Shown(tm') /\ Due(tm')
  <2>1. Shown(tm) /\ tm.starts = <<>> /\ tm.inits = <<>>
    BY <1>1, <1>7 DEF TerminalInv, Terminal!Waiting
  <2>2. \A j \in Terminal!Instances : tm'.ref[j] = 0
    <3>1. \A j \in Terminal!Instances : tm.ref[j] # 0 => j = 1
      BY <1>2, <2>1 DEF Shown, Terminal!HasElement
    <3>2. \A j \in Terminal!Instances : tm'.ref[j] = IF j = 1 THEN 0 ELSE tm.ref[j]
      BY <1>3, <1>5 DEF Closes
    <3> QED
      BY <3>1, <3>2
  <2>3. \A s \in 1..Len(tm'.sockets) : ~IsAlive(tm', s)
    <3>1. \A s \in 1..Len(x.sockets) : IsAlive(tm', s) => IsAlive(x, s) /\ s # x.ref[1]
      BY <1>5 DEF Closes
    <3>2. \A s \in 1..Len(x.sockets) : IsAlive(x, s) => x.ref[1] = s
      BY <1>2, <1>3, <2>1 DEF Shown, IsAlive
    <3> QED
      BY <1>5, <3>1, <3>2 DEF Closes
  <2>4. tm'.starts = <<>> /\ tm'.inits = <<>>
    BY <1>3, <1>5, <2>1 DEF Closes
  <2>5. NoShell(tm') /\ Due(tm')
    BY <2>2, <2>3, <2>4, NothingDue DEF NoShell
  <2> QED
    BY <2>5, NothingShown
<1> QED
  BY <1>1, <1>6, <1>7, Keeping DEF TerminalInv

LEMMA LeaveKeeps ==
    ASSUME TerminalInv, Terminal!Leave
    PROVE  TerminalInv'
<1> DEFINE x == [tm EXCEPT !.isStart = FALSE]
           c == Terminal!CloseClient(x, x.inst)
           u == [c EXCEPT !.mounted = FALSE, !.target = None]
<1>1. /\ tm' = Terminal!Unmount(x) /\ rushed' = (rushed \/ Terminal!Waiting) /\ twice' = twice /\ tm.mounted
  BY DEF Terminal!Leave
<1>2. tm \in Screen /\ Sound(tm) /\ Small(tm) /\ tm.inst \in Terminal!Instances
  BY <1>1 DEF TerminalInv, Sound, Screen, Terminal!Instances
<1>3. /\ x \in Screen /\ x.page = tm.page /\ x.inst = tm.inst /\ x.mounted = tm.mounted /\ x.inits = tm.inits
      /\ x.starts = tm.starts /\ x.ref = tm.ref /\ x.sockets = tm.sockets /\ x.target = tm.target
  BY <1>2 DEF Screen
<1> HIDE DEF x
<1>4. Sound(x)
  BY <1>2, <1>3 DEF Sound
<1>5. /\ Sound(tm') /\ tm'.inits = tm.inits /\ tm'.starts = tm.starts /\ Len(tm'.sockets) = Len(tm.sockets)
  BY <1>1, <1>3, <1>4, Unmounts
<1>6. Small(tm')
  BY <1>2, <1>5 DEF Small
<1>7. ASSUME ~rushed', ~twice'
      PROVE  Shown(tm') /\ Due(tm')
  <2>1. Shown(tm) /\ tm.starts = <<>> /\ tm.inits = <<>>
    BY <1>1, <1>7 DEF TerminalInv, Terminal!Waiting
  <2>2. tm' = u /\ Closes(x, c, tm.inst)
    BY <1>1, <1>2, <1>3, <1>4, ClientCloses DEF Terminal!Unmount
  <2> HIDE DEF c
  <2>3. c \in Screen
    BY <2>2 DEF Closes, Sound
  <2>4. tm'.ref = c.ref /\ tm'.sockets = c.sockets
    BY <2>2, <2>3 DEF Screen
  <2>5. \A j \in Terminal!Instances : tm'.ref[j] = 0
    <3>1. \A j \in Terminal!Instances : tm.ref[j] # 0 => j = tm.inst
      BY <2>1 DEF Shown, Terminal!HasElement
    <3>2. \A j \in Terminal!Instances : c.ref[j] = IF j = tm.inst THEN 0 ELSE tm.ref[j]
      BY <1>3, <2>2 DEF Closes
    <3> QED
      BY <2>4, <3>1, <3>2
  <2>6. \A s \in 1..Len(tm'.sockets) : ~IsAlive(tm', s)
    <3>1. \A s \in 1..Len(x.sockets) : IsAlive(c, s) => IsAlive(x, s) /\ s # x.ref[tm.inst]
      BY <2>2 DEF Closes
    <3>2. \A s \in 1..Len(x.sockets) : IsAlive(x, s) => x.ref[tm.inst] = s
      BY <1>3, <2>1 DEF Shown, IsAlive
    <3>3. Len(tm'.sockets) = Len(x.sockets) /\ \A s : IsAlive(tm', s) <=> IsAlive(c, s)
      BY <1>3, <1>5, <2>4 DEF IsAlive
    <3> QED
      BY <3>1, <3>2, <3>3
  <2>7. NoShell(tm') /\ Due(tm')
    BY <1>5, <2>1, <2>5, <2>6, NothingDue DEF NoShell
  <2> QED
    BY <2>7, NothingShown
<1> QED
  BY <1>1, <1>5, <1>6, <1>7, Keeping DEF TerminalInv

\* The first timer of a sequence, and what is left.
LEMMA FirstTimer ==
    ASSUME NEW q \in Seq(Terminal!Timer), q # <<>>
    PROVE  /\ Head(q) \in Terminal!Timer /\ Tail(q) \in Seq(Terminal!Timer) /\ Len(q) \in Nat
           /\ Len(Tail(q)) = Len(q) - 1 /\ Head(q) = q[1] /\ Len(q) >= 1
           /\ Len(q) <= 1 => Tail(q) = <<>>
<1>1. Head(q) = q[1] /\ Len(q) \in Nat /\ Len(q) # 0
  OBVIOUS
<1>2. Head(q) \in Terminal!Timer /\ Tail(q) \in Seq(Terminal!Timer) /\ Len(Tail(q)) = Len(q) - 1
  BY HeadTailProperties
<1>3. Len(q) <= 1 => Tail(q) = <<>>
  BY <1>1, <1>2
<1> QED
  BY <1>1, <1>2, <1>3

LEMMA InitFiresKeeps ==
    ASSUME TerminalInv, Terminal!InitFires
    PROVE  TerminalInv'
<1> DEFINE timer == Head(tm.inits)
           x == [tm EXCEPT !.inits = Tail(@)]
           y == [x EXCEPT !.starts = Append(@, [target |-> timer.target, inst |-> timer.inst])]
<1>1. /\ tm.inits # <<>> /\ tm' = Terminal!InitTerminal(x, timer.inst, timer.target)
      /\ rushed' = rushed /\ twice' = twice
  BY DEF Terminal!InitFires
<1>2. tm \in Screen /\ Sound(tm) /\ Small(tm) /\ tm.inits \in Seq(Terminal!Timer) /\ tm.page = "debug" /\ tm.inst = 1
  BY <1>1 DEF TerminalInv, Sound, Screen, Tools
<1>3. /\ timer \in Terminal!Timer /\ Tail(tm.inits) \in Seq(Terminal!Timer)
      /\ Len(Tail(tm.inits)) = Len(tm.inits) - 1 /\ timer = tm.inits[1]
      /\ Len(tm.inits) \in Nat /\ Len(tm.inits) >= 1 /\ (Len(tm.inits) <= 1 => Tail(tm.inits) = <<>>)
  BY <1>1, <1>2, FirstTimer
<1> HIDE DEF timer
<1>4. /\ x \in Screen /\ x.page = "debug" /\ x.inst = 1 /\ x.mounted = tm.mounted /\ x.isStart = tm.isStart
      /\ x.starts = tm.starts /\ x.inits = Tail(tm.inits) /\ x.target = tm.target
      /\ x.ref = tm.ref /\ x.sockets = tm.sockets
  <2>1. x = [tm EXCEPT !.inits = Tail(tm.inits)]
    BY <1>2
  <2> QED
    BY <1>2, <1>3, <2>1 DEF Screen
<1> HIDE DEF x
<1>5. Sound(x)
  BY <1>2, <1>4 DEF Sound
<1>6. [target |-> timer.target, inst |-> timer.inst] = timer
  BY <1>3 DEF Terminal!Timer
<1>7. AddsTimer(x, y, timer)
  <2>1. y = [x EXCEPT !.starts = Append(@, timer)]
    BY <1>6
  <2> QED
    BY <1>3, <1>5, <2>1, TimerAdded, Zenon
<1>8. tm' = x \/ tm' = y
  BY <1>1 DEF Terminal!InitTerminal
<1> HIDE DEF y
<1>9. Sound(tm') /\ Small(tm')
  <2> DEFINE a == Len(tm.sockets)  b == Len(tm.starts)  d == Len(tm.inits)
  <2>1. a \in Nat /\ b \in Nat /\ d \in Nat /\ a + b + d <= MaxTerminals
    BY <1>2, Lengths DEF Small
  <2>2. Len(x.inits) = d - 1 /\ Len(x.sockets) = a /\ Len(x.starts) = b
    BY <1>3, <1>4
  <2>3. Len(y.inits) = d - 1 /\ Len(y.sockets) = a /\ Len(y.starts) = b + 1
    <3>1. y.inits = x.inits /\ y.sockets = x.sockets /\ y.starts = Append(tm.starts, timer)
      BY <1>4, <1>7 DEF AddsTimer
    <3>2. Len(Append(tm.starts, timer)) = b + 1
      BY <1>2, <1>3 DEF Screen
    <3> QED
      BY <2>2, <3>1, <3>2
  <2> HIDE DEF a, b, d
  <2>4. a + b + (d - 1) <= MaxTerminals /\ a + (b + 1) + (d - 1) <= MaxTerminals
    BY <2>1, TerminalConstants
  <2> QED
    BY <1>5, <1>7, <1>8, <2>2, <2>3, <2>4 DEF Small, AddsTimer
<1>10. ASSUME ~rushed', ~twice'
       PROVE  Shown(tm') /\ Due(tm')
  <2>1. Shown(tm) /\ Due(tm)
    BY <1>1, <1>10 DEF TerminalInv
  <2>2. /\ Len(tm.inits) = 1 /\ Len(tm.starts) = 0 /\ tm.starts = <<>>
        /\ timer = [target |-> tm.target, inst |-> tm.inst]
        /\ Terminal!HasElement(tm, tm.inst) /\ tm.ref[tm.inst] = 0
    <3> DEFINE b == Len(tm.starts)  d == Len(tm.inits)
    <3>1. b \in Nat /\ d \in Nat /\ d >= 1 /\ b + d <= 1 /\ (b = 0 => tm.starts = <<>>)
      BY <1>2, <1>3, <2>1, Lengths DEF Due, Screen
    <3>2. tm.inits # <<>> /\ \A k \in 1..d : tm.inits[k] = [target |-> tm.target, inst |-> tm.inst]
      BY <1>1, <2>1 DEF Due
    <3>3. Terminal!HasElement(tm, tm.inst) /\ tm.ref[tm.inst] = 0
      BY <1>1, <2>1 DEF Due
    <3> HIDE DEF b, d
    <3>4. d = 1 /\ b = 0
      BY <3>1
    <3> QED
      BY <1>3, <3>1, <3>2, <3>3, <3>4 DEF b, d
  <2>3. Shown(x)
    BY <1>2, <1>4, <2>1 DEF Shown, IsAlive, Terminal!HasElement
  <2>4. Due(x)
    <3>1. x.starts = <<>> /\ x.inits = <<>>
      BY <1>3, <1>4, <2>2
    <3> QED
      BY <3>1, NothingDue
  <2>5. Shown(y)
    BY <1>7, <2>3 DEF AddsTimer, Shown, IsAlive, Terminal!HasElement
  <2>6. Due(y)
    <3>1. y.starts = Append(<<>>, timer) /\ y.inits = <<>> /\ y.target = tm.target /\ y.inst = tm.inst
      BY <1>2, <1>3, <1>4, <1>7, <2>2 DEF AddsTimer
    <3>2. Len(y.starts) = 1 /\ y.starts[1] = [target |-> y.target, inst |-> y.inst] /\ Len(y.inits) = 0
      BY <2>2, <3>1
    <3>3. Terminal!HasElement(y, y.inst) /\ y.ref[y.inst] = 0
      BY <1>2, <1>4, <1>7, <2>2 DEF AddsTimer, Terminal!HasElement
    <3> QED
      BY <3>1, <3>2, <3>3 DEF Due
  <2> QED
    BY <1>8, <2>3, <2>4, <2>5, <2>6
<1> QED
  BY <1>1, <1>9, <1>10, Keeping DEF TerminalInv

LEMMA StartFiresKeeps ==
    ASSUME TerminalInv, Terminal!StartFires
    PROVE  TerminalInv'
<1> DEFINE timer == Head(tm.starts)
           x == [tm EXCEPT !.starts = Tail(@)]
           n == Len(tm.sockets) + 1
           socket == [target |-> timer.target, inst |-> timer.inst, state |-> "connecting"]
           q == Append(tm.sockets, socket)
           ref == [tm.ref EXCEPT ![timer.inst] = n]
           y == [x EXCEPT !.sockets = q, !.ref = ref]
<1>1. /\ tm.starts # <<>> /\ tm' = Terminal!StartWebsocket(x, timer)
      /\ rushed' = rushed /\ twice' = twice
  BY DEF Terminal!StartFires
<1>2. tm \in Screen /\ Sound(tm) /\ Small(tm) /\ tm.starts \in Seq(Terminal!Timer)
      /\ tm.sockets \in Seq(Connection) /\ tm.ref \in [Terminal!Instances -> 0..MaxTerminals]
  BY DEF TerminalInv, Sound, Screen
<1>3. /\ timer \in Terminal!Timer /\ Tail(tm.starts) \in Seq(Terminal!Timer)
      /\ Len(Tail(tm.starts)) = Len(tm.starts) - 1 /\ timer = tm.starts[1]
      /\ Len(tm.starts) \in Nat /\ Len(tm.starts) >= 1 /\ (Len(tm.starts) <= 1 => Tail(tm.starts) = <<>>)
  BY <1>1, <1>2, FirstTimer
<1> HIDE DEF timer
<1>4. /\ x \in Screen /\ x.page = tm.page /\ x.inst = tm.inst /\ x.mounted = tm.mounted /\ x.isStart = tm.isStart
      /\ x.inits = tm.inits /\ x.starts = Tail(tm.starts) /\ x.target = tm.target
      /\ x.ref = tm.ref /\ x.sockets = tm.sockets
  <2>1. x = [tm EXCEPT !.starts = Tail(tm.starts)]
    BY <1>2
  <2> QED
    BY <1>2, <1>3, <2>1 DEF Screen
<1>5. timer.inst \in Terminal!Instances /\ timer.target \in Terminal!Target /\ socket \in Connection
  BY <1>3 DEF Terminal!Timer, Connection, SocketStates
<1>6. /\ Len(tm.sockets) \in Nat /\ Len(tm.inits) \in Nat /\ n \in 1..MaxTerminals
  <2> DEFINE a == Len(tm.sockets)  b == Len(tm.starts)  d == Len(tm.inits)
  <2>1. a \in Nat /\ b \in Nat /\ d \in Nat /\ b >= 1 /\ a + b + d <= MaxTerminals
    BY <1>2, <1>3, Lengths DEF Small
  <2>2. n = a + 1
    OBVIOUS
  <2> HIDE DEF a, b, d, n
  <2>3. a + 1 \in 1..MaxTerminals
    BY <2>1, TerminalConstants
  <2> QED
    BY <2>1, <2>2, <2>3 DEF a, d
<1>7. q \in Seq(Connection) /\ Len(q) = n /\ q[n] = socket /\ \A s \in 1..Len(tm.sockets) : q[s] = tm.sockets[s]
  <2> HIDE DEF socket
  <2> QED
    BY <1>2, <1>5
<1>8. ref \in [Terminal!Instances -> 0..MaxTerminals] /\ ref[timer.inst] = n
      /\ \A i \in Terminal!Instances : i # timer.inst => ref[i] = tm.ref[i]
  <2> HIDE DEF n
  <2> QED
    BY <1>2, <1>5, <1>6, TerminalConstants
<1> HIDE DEF x, socket, q, ref
<1>9. /\ y \in Screen /\ y.page = tm.page /\ y.inst = tm.inst /\ y.mounted = tm.mounted /\ y.isStart = tm.isStart
      /\ y.inits = tm.inits /\ y.starts = Tail(tm.starts) /\ y.target = tm.target
      /\ y.ref = ref /\ y.sockets = q
  BY <1>4, <1>7, <1>8 DEF Screen
<1>10. CASE tm.ref[timer.inst] # 0
  <2>1. tm' = x
    BY <1>1, <1>4, <1>10 DEF Terminal!StartWebsocket
  <2>2. Sound(x)
    BY <1>2, <1>4 DEF Sound
  <2>3. Small(x)
    <3> DEFINE a == Len(tm.sockets)  b == Len(tm.starts)  d == Len(tm.inits)
    <3>1. a \in Nat /\ b \in Nat /\ d \in Nat /\ b >= 1 /\ a + b + d <= MaxTerminals
      BY <1>2, <1>3, Lengths DEF Small
    <3>2. Small(x) <=> a + (b - 1) + d <= MaxTerminals
      BY <1>3, <1>4 DEF Small
    <3> HIDE DEF a, b, d
    <3>3. a + (b - 1) + d <= MaxTerminals
      BY <3>1, TerminalConstants
    <3> QED
      BY <3>2, <3>3
  <2>4. ~(~rushed' /\ ~twice')
    <3>1. ASSUME Shown(tm), Due(tm)
          PROVE  FALSE
      <4>1. timer = [target |-> tm.target, inst |-> tm.inst] /\ tm.ref[tm.inst] = 0
        BY <1>1, <1>3, <3>1 DEF Due
      <4> QED
        BY <1>10, <4>1
    <3> QED
      BY <1>1, <3>1 DEF TerminalInv
  <2> QED
    BY <1>1, <2>1, <2>2, <2>3, <2>4, Keeping DEF TerminalInv
<1>11. CASE tm.ref[timer.inst] = 0
  <2>1. tm' = y
    BY <1>1, <1>4, <1>11 DEF Terminal!StartWebsocket, socket, q, ref
  <2> HIDE DEF y
  <2>2. Sound(y)
    <3>1. \A i \in Terminal!Instances : y.ref[i] <= Len(y.sockets)
      <4>1. \A i \in Terminal!Instances : tm.ref[i] \in Nat /\ tm.ref[i] <= Len(tm.sockets)
        BY <1>2, TerminalConstants DEF Sound
      <4> QED
        BY <1>6, <1>7, <1>8, <1>9, <4>1
    <3> QED
      BY <1>2, <1>9, <3>1 DEF Sound
  <2>3. Small(y)
    <3> DEFINE a == Len(tm.sockets)  b == Len(tm.starts)  d == Len(tm.inits)
    <3>1. a \in Nat /\ b \in Nat /\ d \in Nat /\ b >= 1 /\ a + b + d <= MaxTerminals
      BY <1>2, <1>3, Lengths DEF Small
    <3>2. Small(y) <=> (a + 1) + (b - 1) + d <= MaxTerminals
      BY <1>3, <1>7, <1>9 DEF Small
    <3> HIDE DEF a, b, d
    <3>3. (a + 1) + (b - 1) + d <= MaxTerminals
      BY <3>1, TerminalConstants
    <3> QED
      BY <3>2, <3>3
  <2>4. ASSUME ~rushed', ~twice'
        PROVE  Shown(y) /\ Due(y)
    <3>1. Shown(tm) /\ Due(tm)
      BY <1>1, <2>4 DEF TerminalInv
    <3>2. /\ Len(tm.starts) = 1 /\ Len(tm.inits) = 0 /\ tm.inits = <<>>
          /\ timer = [target |-> tm.target, inst |-> tm.inst] /\ Terminal!HasElement(tm, tm.inst) /\ tm.ref[tm.inst] = 0
      <4> DEFINE b == Len(tm.starts)  d == Len(tm.inits)
      <4>1. b \in Nat /\ d \in Nat /\ b >= 1 /\ b + d <= 1 /\ (d = 0 => tm.inits = <<>>)
        BY <1>2, <1>3, <3>1, Lengths DEF Due, Screen
      <4>2. tm.starts # <<>> /\ \A k \in 1..b : tm.starts[k] = [target |-> tm.target, inst |-> tm.inst]
        BY <1>1, <3>1 DEF Due
      <4>3. Terminal!HasElement(tm, tm.inst) /\ tm.ref[tm.inst] = 0
        BY <1>1, <3>1 DEF Due
      <4> HIDE DEF b, d
      <4>4. b = 1 /\ d = 0
        BY <4>1
      <4> QED
        BY <1>3, <4>1, <4>2, <4>3, <4>4 DEF b, d
    <3>3. timer.inst = tm.inst /\ timer.target = tm.target
      BY <3>2
    <3>4. \A s \in 1..Len(tm.sockets) : ~IsAlive(tm, s)
      BY <3>1, <3>2 DEF Shown
    <3>5. \A s \in 1..Len(tm.sockets) : ~IsAlive(y, s)
      BY <1>7, <1>9, <3>4 DEF IsAlive
    <3>6. y.mounted /\ y.ref[y.inst] = n /\ y.sockets[n].target = y.target
      BY <1>7, <1>8, <1>9, <3>2, <3>3 DEF Terminal!HasElement, socket
    <3>7. \A s \in 1..Len(y.sockets) : s \in 1..Len(tm.sockets) \/ s = n
      BY <1>6, <1>7, <1>9
    <3>8. \A i \in Terminal!Instances : y.ref[i] # 0 => Terminal!HasElement(y, i)
      <4>1. \A i : Terminal!HasElement(tm, i) <=> Terminal!HasElement(y, i)
        BY <1>9 DEF Terminal!HasElement
      <4>2. \A i \in Terminal!Instances : y.ref[i] # 0 => i = tm.inst \/ tm.ref[i] # 0
        BY <1>8, <1>9, <3>3
      <4> QED
        BY <3>1, <3>2, <4>1, <4>2 DEF Shown
    <3>9. Shown(y)
      <4> HIDE DEF n
      <4> QED
        BY <3>5, <3>6, <3>7, <3>8 DEF Shown
    <3>10. y.starts = <<>> /\ y.inits = <<>>
      BY <1>3, <1>9, <3>2
    <3> QED
      BY <3>9, <3>10, NothingDue
  <2> QED
    BY <1>1, <2>1, <2>2, <2>3, <2>4, Keeping DEF TerminalInv
<1> QED
  BY <1>10, <1>11

\* x is t but for the state of a socket, which is not more alive than before, and loading.
Resolved(t, x) ==
    /\ Sound(x)
    /\ x.page = t.page /\ x.inst = t.inst /\ x.mounted = t.mounted /\ x.target = t.target
    /\ x.isStart = t.isStart /\ x.inits = t.inits /\ x.starts = t.starts /\ x.ref = t.ref
    /\ Len(x.sockets) = Len(t.sockets)
    /\ \A k \in 1..Len(t.sockets) :
           /\ x.sockets[k].target = t.sockets[k].target
           /\ IsAlive(x, k) => IsAlive(t, k)

LEMMA StateIsSet ==
    ASSUME NEW t, Sound(t), NEW s \in 1..Len(t.sockets), NEW v \in {"open", "closed"},
           v = "open" => IsAlive(t, s), NEW x, x = [t EXCEPT !.sockets[s].state = v]
    PROVE  Resolved(t, x) /\ (v = "closed" => ~IsAlive(x, s))
<1> DEFINE one == [t.sockets[s] EXCEPT !.state = v]
           q   == [t.sockets EXCEPT ![s] = one]
<1>1. t \in Screen /\ t.sockets \in Seq(Connection) /\ t.sockets[s] \in Connection
  BY DEF Sound, Screen
<1>2. one \in Connection /\ one.target = t.sockets[s].target /\ one.state = v
  BY <1>1 DEF Connection, SocketStates
<1>3. /\ q \in Seq(Connection) /\ Len(q) = Len(t.sockets)
      /\ \A k \in 1..Len(t.sockets) : q[k] = IF k = s THEN one ELSE t.sockets[k]
  <2> HIDE DEF one
  <2> QED
    BY <1>1, <1>2, Exchanged
<1>4. x = [t EXCEPT !.sockets = q]
  OBVIOUS
<1> HIDE DEF one, q
<1>5. /\ x \in Screen /\ x.page = t.page /\ x.inst = t.inst /\ x.mounted = t.mounted /\ x.target = t.target
      /\ x.isStart = t.isStart /\ x.inits = t.inits /\ x.starts = t.starts /\ x.ref = t.ref /\ x.sockets = q
  BY <1>1, <1>3, <1>4 DEF Screen
<1>6. Sound(x)
  BY <1>3, <1>5 DEF Sound
<1>7. \A k \in 1..Len(t.sockets) :
          /\ x.sockets[k].target = t.sockets[k].target
          /\ IsAlive(x, k) => IsAlive(t, k)
  BY <1>2, <1>3, <1>5 DEF IsAlive
<1> QED
  BY <1>2, <1>3, <1>5, <1>6, <1>7 DEF Resolved, IsAlive

LEMMA LoadingStops ==
    ASSUME NEW t, Sound(t)
    PROVE  Resolved(t, Terminal!StopLoading(t))
<1> DEFINE x == Terminal!StopLoading(t)
<1>1. t \in Screen
  BY DEF Sound
<1>2. /\ x \in Screen /\ x.page = t.page /\ x.inst = t.inst /\ x.mounted = t.mounted /\ x.target = t.target
      /\ x.isStart = t.isStart /\ x.inits = t.inits /\ x.starts = t.starts /\ x.ref = t.ref /\ x.sockets = t.sockets
  BY <1>1 DEF Screen, Terminal!StopLoading
<1> HIDE DEF x
<1>3. Sound(x)
  BY <1>2 DEF Sound
<1> QED
  BY <1>2, <1>3 DEF Resolved, IsAlive, x

LEMMA ResolvedShows ==
    ASSUME NEW t, NEW x, Resolved(t, x)
    PROVE  (Due(t) => Due(x)) /\ (Small(t) => Small(x)) /\ (Shown(t) => Shown(x))
<1>1. \A i : Terminal!HasElement(x, i) <=> Terminal!HasElement(t, i)
  BY DEF Resolved, Terminal!HasElement
<1>2. Due(t) => Due(x)
  BY <1>1 DEF Resolved, Due
<1>3. Small(t) => Small(x)
  BY DEF Resolved, Small
<1>4. Shown(t) => Shown(x)
  BY <1>1 DEF Resolved, Shown
<1> QED
  BY <1>2, <1>3, <1>4

\* A socket is closed on a page where nothing is due from it.
LEMMA ClosingIsDue ==
    ASSUME NEW t, NEW c, NEW i \in Terminal!Instances, Sound(t), Closes(t, c, i)
    PROVE  (Due(t) => Due(c)) /\ (Small(t) => Small(c))
<1>1. \A j : Terminal!HasElement(c, j) <=> Terminal!HasElement(t, j)
  BY DEF Closes, Terminal!HasElement
<1>2. t.mounted => t.inst \in Terminal!Instances
  BY DEF Sound, Screen, Terminal!Instances
<1>3. Due(t) => Due(c)
  <2>1. c.starts = t.starts /\ c.inits = t.inits /\ c.target = t.target /\ c.inst = t.inst
    BY DEF Closes
  <2>2. t.mounted /\ t.ref[t.inst] = 0 => c.ref[c.inst] = 0
    BY <1>2, <2>1 DEF Closes
  <2>3. Terminal!HasElement(t, t.inst) => t.mounted
    BY DEF Terminal!HasElement
  <2> QED
    BY <1>1, <2>1, <2>2, <2>3 DEF Due
<1>4. Small(t) => Small(c)
  BY DEF Closes, Small
<1> QED
  BY <1>3, <1>4

LEMMA OpensKeepsShown ==
    ASSUME TerminalInv, NEW s \in DOMAIN tm.sockets, Terminal!Opens(s)
    PROVE  TerminalInv'
<1> DEFINE x == [tm EXCEPT !.sockets[s].state = "open"]
<1>1. tm' = Terminal!StopLoading(x) /\ rushed' = rushed /\ twice' = twice /\ tm.sockets[s].state = "connecting"
  BY DEF Terminal!Opens
<1>2. Sound(tm) /\ s \in 1..Len(tm.sockets)
  BY DEF TerminalInv, Sound, Screen
<1>3. Resolved(tm, x)
  BY <1>1, <1>2, StateIsSet DEF IsAlive
<1> HIDE DEF x
<1>4. Resolved(x, tm')
  BY <1>1, <1>3, LoadingStops DEF Resolved
<1>5. Sound(tm') /\ Small(tm')
  BY <1>3, <1>4, ResolvedShows DEF Resolved, TerminalInv
<1>6. ~rushed' /\ ~twice' => Shown(tm') /\ Due(tm')
  BY <1>1, <1>3, <1>4, ResolvedShows DEF TerminalInv
<1> QED
  BY <1>1, <1>5, <1>6, Keeping DEF TerminalInv

LEMMA ClosedKeepsShown ==
    ASSUME TerminalInv, NEW s \in DOMAIN tm.sockets, Terminal!Closed(s)
    PROVE  TerminalInv'
<1> DEFINE x == [tm EXCEPT !.sockets[s].state = "closed"]
           y == IF tm.sockets[s].state = "connecting" THEN Terminal!StopLoading(x) ELSE x
           i == tm.sockets[s].inst
<1>1. tm' = Terminal!SocketClose(y, i) /\ rushed' = rushed /\ twice' = twice
  BY DEF Terminal!Closed
<1>2. Sound(tm) /\ s \in 1..Len(tm.sockets) /\ i \in Terminal!Instances
  <2>1. Sound(tm) /\ tm.sockets \in Seq(Connection)
    BY DEF TerminalInv, Sound, Screen
  <2>2. s \in 1..Len(tm.sockets) /\ tm.sockets[s] \in Connection
    BY <2>1
  <2> QED
    BY <2>1, <2>2 DEF Connection
<1>3. Resolved(tm, x)
  BY <1>1, <1>2, StateIsSet
<1> HIDE DEF x, i
<1>4. Resolved(x, y) \/ y = x
  BY <1>3, LoadingStops DEF Resolved
<1> HIDE DEF y
<1>5. Sound(y) /\ (Due(tm) => Due(y)) /\ (Small(tm) => Small(y)) /\ (Shown(tm) => Shown(y))
  BY <1>3, <1>4, ResolvedShows DEF Resolved
<1>6. Closes(y, tm', i)
  BY <1>1, <1>2, <1>5, SocketCloses
<1>7. Sound(tm') /\ Small(tm')
  BY <1>2, <1>5, <1>6, ClosingIsDue DEF Closes, TerminalInv
<1>8. ~rushed' /\ ~twice' => Shown(tm') /\ Due(tm')
  BY <1>1, <1>2, <1>5, <1>6, ClosingIsDue, ClosingShows DEF TerminalInv
<1> QED
  BY <1>1, <1>7, <1>8, Keeping DEF TerminalInv

LEMMA TerminalStep ==
    ASSUME TerminalInv, [Terminal!TerminalNext]_(Terminal!terminalVars)
    PROVE  TerminalInv'
<1>1. ASSUME NEW p \in Pods, Terminal!ChangePod(p)
      PROVE  TerminalInv'
  BY <1>1, ChangePodKeeps
<1>2. ASSUME NEW c \in {ContainersOf[tm.pod][i] : i \in DOMAIN ContainersOf[tm.pod]},
             Terminal!ChangeContainer(c) \/ Terminal!Submit(c)
      PROVE  TerminalInv'
  <2>1. tm.pod \in Pods
    BY DEF TerminalInv, Sound, Screen
  <2>2. c \in Terminal!Containers /\ Terminal!Has(tm.pod, c)
    BY <2>1 DEF Terminal!Containers, Terminal!Has
  <2> QED
    BY <1>2, <2>2, ChangeContainerKeeps, SubmitKeeps
<1>3. CASE Terminal!ChangeContainer(None)
  BY <1>3, ChangeContainerKeeps
<1>4. CASE Terminal!StopDebug \/ Terminal!Leave
  BY <1>4, StopDebugKeeps, LeaveKeeps
<1>5. CASE Terminal!InitFires \/ Terminal!StartFires
  BY <1>5, InitFiresKeeps, StartFiresKeeps
<1>6. ASSUME NEW s \in DOMAIN tm.sockets, Terminal!Opens(s) \/ Terminal!Closed(s)
      PROVE  TerminalInv'
  BY <1>6, OpensKeepsShown, ClosedKeepsShown
<1>7. CASE UNCHANGED Terminal!terminalVars
  BY <1>7, Keeping DEF Terminal!terminalVars, TerminalInv
<1> QED
  BY <1>1, <1>2, <1>3, <1>4, <1>5, <1>6, <1>7 DEF Terminal!TerminalNext

\* What the invariant is for.
LEMMA TerminalIsTyped == TerminalInv => Terminal!TerminalTypeOK
<1> SUFFICES ASSUME TerminalInv
             PROVE  Terminal!TerminalTypeOK
  OBVIOUS
<1>1. tm \in Screen
  BY DEF TerminalInv, Sound
<1>2. Len(tm.sockets) <= MaxTerminals
  <2> DEFINE a == Len(tm.sockets)  b == Len(tm.starts)  d == Len(tm.inits)
  <2>1. a \in Nat /\ b \in Nat /\ d \in Nat /\ a + b + d <= MaxTerminals
    BY Lengths DEF TerminalInv, Small
  <2> HIDE DEF a, b, d
  <2>2. a <= MaxTerminals
    BY <2>1, TerminalConstants
  <2> QED
    BY <2>2 DEF a
<1> QED
  BY <1>1, <1>2 DEF TerminalInv, Terminal!TerminalTypeOK, Screen, Connection, SocketStates, Tools

LEMMA TerminalShows == TerminalInv => Terminal!ShellIsShown
<1> SUFFICES ASSUME TerminalInv, ~rushed, ~twice, NEW s \in DOMAIN tm.sockets, Terminal!Alive(s)
             PROVE  tm.mounted /\ tm.ref[tm.inst] = s /\ tm.sockets[s].target = tm.target
  BY DEF Terminal!ShellIsShown
<1>1. s \in 1..Len(tm.sockets) /\ IsAlive(tm, s)
  BY DEF TerminalInv, Sound, Screen, Terminal!Alive, IsAlive
<1> QED
  BY <1>1 DEF TerminalInv, Shown

-----------------------------------------------------------------------------
(* Launcher implements DesktopApp.                                          *)

\* The server of runServer exists from the moment the port was found, and not without a port.
ServerFollowsPort ==
    /\ app.step \in {"port", "failed"} => app.server = "none"
    /\ app.own /\ app.step \in {"waiting", "opened"} => app.server # "none"
    /\ ~app.own => app.server = "none" /\ app.step # "waiting"

\* The wait is given up before the checks are used up.
ChecksLeft == app.step \in {"port", "waiting"} => app.checks < MaxCheckTimes

LauncherInv == LauncherTypeOK /\ ServerFollowsPort /\ ChecksLeft

-----------------------------------------------------------------------------
(* The operators that the handlers share, on any state of the application.   *)

App == [mac : BOOLEAN, own : BOOLEAN, alive : BOOLEAN,
        step : {"port", "waiting", "opened", "failed"}, checks : 1..MaxCheckTimes,
        server : {"none", "running", "told", "ended"}, dialog : BOOLEAN,
        windows : SUBSET Windows, closing : SUBSET Windows, shown : BOOLEAN, quitting : BOOLEAN]

\* What a way out leaves alone, and what it may do to the server.
LeavesInOrder(a, b) ==
    /\ b \in App
    /\ b.own = a.own /\ b.step = a.step /\ b.checks = a.checks
    /\ b.server = a.server \/ (a.server = "running" /\ b.server = "told")
    /\ b.alive = a.alive \/ (~b.alive /\ b.server # "running")

\* kill() reaches a server that runs, and is nothing to one that does not.
LEMMA TellLeaves ==
    ASSUME NEW a \in App
    PROVE  LeavesInOrder(a, Tell(a)) /\ Tell(a).server # "running" /\ Tell(a).alive = a.alive
           /\ Tell(a).windows = a.windows
BY DEF App, Tell, LeavesInOrder

\* will-quit ends the application and has told the server.
LEMMA WillQuitLeaves ==
    ASSUME NEW a \in App
    PROVE  LeavesInOrder(a, WillQuit(a)) /\ ~WillQuit(a).alive
<1>1. Tell(a) \in App
  BY TellLeaves DEF LeavesInOrder
<1> QED
  BY <1>1, TellLeaves DEF App, WillQuit, LeavesInOrder

\* quit() asks the windows to close or ends the application at once.
LEMMA QuitLeaves ==
    ASSUME NEW a \in App
    PROVE  LeavesInOrder(a, Quit(a)) /\ (Quit(a).alive => Quit(a).server = a.server)
<1> DEFINE b == [a EXCEPT !.quitting = TRUE, !.closing = a.windows]
<1>1. b \in App /\ b.own = a.own /\ b.step = a.step /\ b.checks = a.checks /\ b.server = a.server /\ b.alive = a.alive
  BY DEF App
<1>2. LeavesInOrder(b, WillQuit(b))
  BY <1>1, WillQuitLeaves
<1>3. LeavesInOrder(a, b) /\ LeavesInOrder(a, WillQuit(b)) /\ ~WillQuit(b).alive
  BY <1>1, <1>2, WillQuitLeaves DEF LeavesInOrder
<1> QED
  BY <1>1, <1>3 DEF Quit

\* The last window is closed: the server was told, whether or not the application quits.
LEMMA WindowAllClosedLeaves ==
    ASSUME NEW a \in App
    PROVE  LeavesInOrder(a, WindowAllClosed(a))
<1>1. Tell(a) \in App /\ LeavesInOrder(a, Tell(a)) /\ Tell(a).server # "running"
  BY TellLeaves DEF LeavesInOrder
<1>2. LeavesInOrder(Tell(a), Quit(Tell(a)))
  BY <1>1, QuitLeaves
<1>3. LeavesInOrder(a, Quit(Tell(a)))
  BY <1>1, <1>2, TellLeaves DEF LeavesInOrder
<1> QED
  BY <1>1, <1>3 DEF WindowAllClosed

\* Creating the main window.
LEMMA CreateWindowOpens ==
    ASSUME NEW a \in App
    PROVE  /\ CreateWindow(a) \in App /\ CreateWindow(a).step = "opened"
           /\ CreateWindow(a).own = a.own /\ CreateWindow(a).server = a.server
           /\ CreateWindow(a).alive = a.alive
BY DEF App, CreateWindow, Windows

-----------------------------------------------------------------------------
(* Every step keeps the invariant and is a step of DesktopApp or none.       *)

\* A way out is a step of DesktopApp.
LEMMA LeavingIsPromised ==
    ASSUME LauncherInv, app.alive, NEW a, LeavesInOrder(app, a), app' = a
    PROVE  LauncherInv' /\ [Promise!DesktopNext]_(Promise!desktopVars)
<1>1. app \in App /\ app' \in App
  BY DEF LauncherInv, LauncherTypeOK, App, LeavesInOrder
<1>2. LauncherInv'
  <2>1. LauncherTypeOK'
    BY <1>1 DEF LauncherTypeOK, App
  <2>2. ServerFollowsPort'
    BY <1>1 DEF LauncherInv, ServerFollowsPort, LeavesInOrder, App
  <2>3. ChecksLeft'
    BY <1>1 DEF LauncherInv, ChecksLeft, LeavesInOrder, App
  <2> QED
    BY <2>1, <2>2, <2>3 DEF LauncherInv
<1>3. CASE a.alive = app.alive
  <2>1. Life' = Life /\ Life # "gone" /\ app'.own = app.own
    BY <1>1, <1>3 DEF Life, LeavesInOrder, App
  <2>2. ASSUME app'.server = app.server
        PROVE  UNCHANGED Promise!desktopVars
    BY <2>1, <2>2 DEF Promise!desktopVars
  <2>3. ASSUME app.server = "running" /\ app'.server = "told"
        PROVE  Promise!DesktopNext
    BY <2>1, <2>3 DEF Promise!DesktopNext, Promise!TellServer
  <2>4. app'.server = app.server \/ (app.server = "running" /\ app'.server = "told")
    BY DEF LeavesInOrder
  <2>5. [Promise!DesktopNext]_(Promise!desktopVars)
    BY <2>2, <2>3, <2>4
  <2> QED
    BY <1>2, <2>5
<1>4. CASE ~a.alive /\ a.server # "running"
  <2>1. Life' = "gone" /\ Life # "gone" /\ app'.own = app.own
    BY <1>1, <1>4 DEF Life, LeavesInOrder, App
  <2>2. app'.server = IF app.server = "running" THEN "told" ELSE app.server
    BY <1>4 DEF LeavesInOrder
  <2>3. [Promise!DesktopNext]_(Promise!desktopVars)
    BY <2>1, <2>2 DEF Promise!DesktopNext, Promise!Exit
  <2> QED
    BY <1>2, <2>3
<1> QED
  BY <1>3, <1>4 DEF LeavesInOrder

\* The wait for the server ends, successfully or not: the main window is created.
LEMMA OpeningIsPromised ==
    ASSUME LauncherInv, app.alive, app.step \in {"port", "waiting"},
           NEW a \in App, a.own = app.own,
           a.server = app.server \/ (app.server = "running" /\ a.server = "told"),
           a.alive => a.server = app.server, ~a.alive => a.server # "running",
           app.own => a.server # "none" /\ app.step = "waiting", app' = CreateWindow(a)
    PROVE  LauncherInv' /\ [Promise!DesktopNext]_(Promise!desktopVars)
<1>1. app \in App /\ app' \in App
  BY CreateWindowOpens DEF LauncherInv, LauncherTypeOK, App
<1>2. /\ app'.step = "opened" /\ app'.own = app.own /\ app'.server = a.server /\ app'.alive = a.alive
  BY CreateWindowOpens
<1>3. LauncherTypeOK'
  BY <1>1 DEF LauncherTypeOK, App
<1>4. ServerFollowsPort'
  BY <1>1, <1>2 DEF LauncherInv, ServerFollowsPort, App
<1>5. ASSUME a.alive
      PROVE  Promise!DesktopNext
  <2>1. Life = "starting" /\ Life' = "open"
    BY <1>1, <1>2, <1>5 DEF Life, App
  <2>2. app'.server = app.server
    BY <1>2, <1>5
  <2> QED
    BY <1>2, <2>1, <2>2 DEF Promise!DesktopNext, Promise!OpenWindow
<1>6. ASSUME ~a.alive /\ a.server # "running"
      PROVE  Promise!DesktopNext
  <2>1. Life # "gone" /\ Life' = "gone"
    BY <1>1, <1>2, <1>6 DEF Life, App
  <2> QED
    BY <1>2, <1>6, <2>1 DEF Promise!DesktopNext, Promise!Exit
<1>7. a.alive \/ (~a.alive /\ a.server # "running")
  BY DEF App
<1>8. a.alive => Promise!DesktopNext
  BY <1>5
<1>9. ~a.alive /\ a.server # "running" => Promise!DesktopNext
  BY <1>6
<1>10. ChecksLeft'
  BY <1>2 DEF ChecksLeft
<1> QED
  BY <1>3, <1>4, <1>7, <1>8, <1>9, <1>10 DEF LauncherInv

\* Every action, of a launcher that checks the port at least twice.
LEMMA StepIsPromised ==
    ASSUME LauncherAssumption, LauncherInv, [LauncherNext]_app
    PROVE  LauncherInv' /\ [Promise!DesktopNext]_(Promise!desktopVars)
<1> USE DEF LauncherInv
<1>0. app \in App
  BY DEF LauncherTypeOK, App
<1>1. CASE PortFound
  <2>1. CASE app.own
    <3>1. app' = [app EXCEPT !.step = "waiting", !.server = "running"]
      BY <1>1, <2>1 DEF PortFound
    <3>2. app' \in App
      BY <1>0, <3>1 DEF App
    <3>3. LauncherTypeOK' /\ ServerFollowsPort' /\ ChecksLeft'
      BY <1>0, <1>1, <2>1, <3>1, <3>2 DEF PortFound, LauncherTypeOK, ServerFollowsPort, ChecksLeft, App
    <3>4. Life = "starting" /\ Life' = "starting"
      BY <1>0, <1>1, <3>1 DEF PortFound, Life, App
    <3>5. app.server = "none" /\ app'.server = "running" /\ app'.own = app.own
      BY <1>0, <1>1, <3>1 DEF PortFound, ServerFollowsPort, App
    <3>6. Promise!StartServer
      BY <2>1, <3>4, <3>5 DEF Promise!StartServer
    <3> QED
      BY <3>3, <3>6 DEF Promise!DesktopNext
  <2>2. CASE ~app.own
    <3>1. app' = CreateWindow(app) /\ app.alive /\ app.step = "port"
      BY <1>1, <2>2 DEF PortFound
    <3> QED
      BY <1>0, <2>2, <3>1, OpeningIsPromised
  <2> QED
    BY <2>1, <2>2
<1>2. CASE PortNotFound
  <2>1. app' \in App
    BY <1>0, <1>2 DEF PortNotFound, App
  <2>2. LauncherTypeOK' /\ ServerFollowsPort' /\ ChecksLeft'
    BY <1>0, <1>2, <2>1 DEF PortNotFound, LauncherTypeOK, ServerFollowsPort, ChecksLeft, App
  <2>3. Life' = Life /\ app'.server = app.server /\ app'.own = app.own
    BY <1>0, <1>2 DEF PortNotFound, Life, App
  <2> QED
    BY <2>2, <2>3 DEF Promise!desktopVars
<1>3. CASE DialogAnswered
  <2> DEFINE a == [app EXCEPT !.dialog = FALSE]
  <2>1. a \in App /\ LeavesInOrder(app, a) /\ app.alive /\ app' = Quit(a)
    BY <1>0, <1>3 DEF DialogAnswered, App, LeavesInOrder
  <2>2. LeavesInOrder(a, Quit(a))
    BY <2>1, QuitLeaves
  <2>3. LeavesInOrder(app, Quit(a))
    BY <1>0, <2>2 DEF LeavesInOrder, App
  <2> QED
    BY <2>1, <2>3, LeavingIsPromised
<1>4. CASE ReadyToShow
  <2>1. LeavesInOrder(app, app') /\ app.alive
    BY <1>0, <1>4 DEF ReadyToShow, App, Windows, LeavesInOrder
  <2> QED
    BY <2>1, LeavingIsPromised
<1>5. CASE UserQuits
  <2>1. app.alive /\ app' = Quit(app)
    BY <1>5 DEF UserQuits
  <2> QED
    BY <1>0, <2>1, QuitLeaves, LeavingIsPromised
<1>6. ASSUME NEW connects \in BOOLEAN, Check(connects)
      PROVE  LauncherInv' /\ [Promise!DesktopNext]_(Promise!desktopVars)
  <2> DEFINE a == [app EXCEPT !.checks = @ + 1]
  <2>1. /\ app.alive /\ app.step = "waiting"
        /\ app' = IF connects THEN CreateWindow(a)
                  ELSE IF a.checks >= MaxCheckTimes THEN CreateWindow(Quit(a)) ELSE a
    BY <1>6 DEF Check
  <2>2. /\ a \in App /\ a.own = app.own /\ a.server = app.server /\ a.alive = app.alive
        /\ a.step = app.step /\ a.checks = app.checks + 1
        /\ app.own /\ app.server # "none"
    <3>1. app.own = TRUE /\ app.server # "none" /\ app.checks < MaxCheckTimes
      BY <1>0, <2>1 DEF App, ChecksLeft, ServerFollowsPort
    <3>2. app.checks + 1 \in 1..MaxCheckTimes
      BY <1>0, <3>1 DEF App, LauncherAssumption
    <3> QED
      BY <1>0, <3>1, <3>2 DEF App
  <2>3. CASE app' = CreateWindow(a)
    BY <2>1, <2>2, <2>3, OpeningIsPromised
  <2>4. CASE app' = CreateWindow(Quit(a))
    <3> DEFINE b == Quit(a)
    <3>1. LeavesInOrder(a, b) /\ (b.alive => b.server = a.server)
      BY <2>2, QuitLeaves
    <3>2. /\ b \in App /\ b.own = app.own
          /\ b.server = app.server \/ (app.server = "running" /\ b.server = "told")
          /\ b.alive => b.server = app.server
          /\ ~b.alive => b.server # "running"
          /\ b.server # "none"
      BY <2>1, <2>2, <3>1 DEF LeavesInOrder
    <3> HIDE DEF b
    <3> QED
      BY <2>1, <2>4, <3>2, OpeningIsPromised DEF b
  <2>5. CASE app' = a /\ ~(a.checks >= MaxCheckTimes)
    <3>1. LauncherTypeOK' /\ ServerFollowsPort' /\ ChecksLeft'
      BY <1>0, <2>1, <2>2, <2>5 DEF LauncherTypeOK, ServerFollowsPort, ChecksLeft, App, LauncherAssumption
    <3>2. Life' = Life /\ app'.server = app.server /\ app'.own = app.own
      BY <2>2, <2>5 DEF Life
    <3> QED
      BY <3>1, <3>2 DEF Promise!desktopVars
  <2> QED
    BY <2>1, <2>3, <2>4, <2>5
<1>7. ASSUME NEW code \in {0, 1}, ServerCloses(code)
      PROVE  LauncherInv' /\ [Promise!DesktopNext]_(Promise!desktopVars)
  <2> DEFINE a == [app EXCEPT !.server = "ended"]
             b == IF code = 0 THEN Quit(a) ELSE [a EXCEPT !.dialog = TRUE]
  <2>1. app.alive /\ app.server \in {"running", "told"} /\ app' = b
    BY <1>7 DEF ServerCloses
  <2>2. /\ a \in App /\ a.own = app.own /\ a.server = "ended" /\ a.alive = app.alive
        /\ a.step = app.step /\ a.checks = app.checks
    BY <1>0 DEF App
  <2>3. LeavesInOrder(a, b)
    <3>1. LeavesInOrder(a, Quit(a))
      BY <2>2, QuitLeaves
    <3>2. LeavesInOrder(a, [a EXCEPT !.dialog = TRUE])
      BY <2>2 DEF App, LeavesInOrder
    <3> QED
      BY <3>1, <3>2
  <2> HIDE DEF b
  <2>4. /\ app' \in App /\ app'.own = app.own /\ app'.step = app.step /\ app'.checks = app.checks
        /\ app'.server = "ended" /\ (app'.alive = app.alive \/ ~app'.alive)
    BY <2>1, <2>2, <2>3 DEF LeavesInOrder
  <2>5. LauncherTypeOK' /\ ServerFollowsPort' /\ ChecksLeft'
    BY <1>0, <2>1, <2>4 DEF LauncherTypeOK, ServerFollowsPort, ChecksLeft, App
  <2>6. Life # "gone" /\ Life' \in {Life, "gone"}
    BY <1>0, <2>1, <2>4 DEF Life, App
  <2>7. Promise!ServerEnds
    BY <2>1, <2>4, <2>6 DEF Promise!ServerEnds
  <2> QED
    BY <2>5, <2>7 DEF Promise!DesktopNext
<1>8. ASSUME NEW w \in Windows, UserCloses(w)
      PROVE  LauncherInv' /\ [Promise!DesktopNext]_(Promise!desktopVars)
  <2>1. LeavesInOrder(app, app') /\ app.alive
    BY <1>0, <1>8 DEF UserCloses, App, LeavesInOrder
  <2> QED
    BY <2>1, LeavingIsPromised
<1>9. ASSUME NEW w \in Windows, WindowCloses(w)
      PROVE  LauncherInv' /\ [Promise!DesktopNext]_(Promise!desktopVars)
  <2> DEFINE a == [app EXCEPT !.windows = @ \ {w}, !.closing = @ \ {w}]
  <2>1. /\ app.alive
        /\ app' = IF a.windows # {} THEN a ELSE IF a.quitting THEN WillQuit(a) ELSE WindowAllClosed(a)
    BY <1>9 DEF WindowCloses
  <2>2. a \in App /\ LeavesInOrder(app, a)
    BY <1>0 DEF App, LeavesInOrder
  <2>3. LeavesInOrder(a, a) /\ LeavesInOrder(a, WillQuit(a)) /\ LeavesInOrder(a, WindowAllClosed(a))
    BY <2>2, WillQuitLeaves, WindowAllClosedLeaves DEF LeavesInOrder
  <2> HIDE DEF a
  <2>4. LeavesInOrder(a, app')
    BY <2>1, <2>3
  <2>5. LeavesInOrder(app, app')
    BY <2>2, <2>4 DEF LeavesInOrder
  <2> QED
    BY <2>1, <2>5, LeavingIsPromised
<1>10. CASE UNCHANGED app
  BY <1>10 DEF LauncherTypeOK, ServerFollowsPort, ChecksLeft, Life, Promise!desktopVars
<1> QED
  BY <1>1, <1>2, <1>3, <1>4, <1>5, <1>6, <1>7, <1>8, <1>9, <1>10 DEF LauncherNext

\* The first state.
LEMMA InitIsPromised ==
    ASSUME LauncherAssumption, LauncherInit
    PROVE  LauncherInv /\ Promise!DesktopInit
<1>1. LauncherInv
  BY DEF LauncherInit, LauncherInv, LauncherTypeOK, ServerFollowsPort, ChecksLeft, LauncherAssumption, Windows
<1>2. Promise!DesktopInit
  BY DEF LauncherInit, Promise!DesktopInit, Life
<1> QED
  BY <1>1, <1>2

-----------------------------------------------------------------------------
\* Every state of the application is well-typed.
THEOREM LauncherTypeCorrect ==
    ASSUME LauncherAssumption
    PROVE  LauncherSpec => []LauncherTypeOK
<1>1. LauncherInit => LauncherInv
  BY InitIsPromised
<1>2. LauncherInv /\ [LauncherNext]_app => LauncherInv'
  BY StepIsPromised
<1>3. LauncherInv => LauncherTypeOK
  BY DEF LauncherInv
<1> QED
  BY <1>1, <1>2, <1>3, PTL DEF LauncherSpec

\* Launcher implements DesktopApp: on every way out a running server is told to stop, nothing is
\* started after the end, and the main window needs a server that was started (server.ts,
\* index.ts), however often the port is checked.
THEOREM LauncherKeepsPromise ==
    ASSUME LauncherAssumption
    PROVE  LauncherSpec => KeepsPromise
<1>1. LauncherInit => LauncherInv /\ Promise!DesktopInit
  BY InitIsPromised
<1>2. LauncherInv /\ [LauncherNext]_app
        => LauncherInv' /\ [Promise!DesktopNext]_(Promise!desktopVars)
  BY StepIsPromised
<1> QED
  BY <1>1, <1>2, PTL DEF LauncherSpec, KeepsPromise, Promise!DesktopSpec

-----------------------------------------------------------------------------
(* All parts together: the one that runs keeps its invariant, and the others *)
(* stay where they began.                                                    *)

ConnectionsInv == ClientInv /\ TerminalInv /\ LauncherInv /\ TaskInv /\ DebugInv

\* An application that has found no port is one that may be there.
LEMMA StrandedIsSound ==
    ASSUME app = Stranded
    PROVE  LauncherInv /\ Promise!DesktopInit
<1>1. MaxCheckTimes \in Nat /\ 1 \in 1..MaxCheckTimes
  BY LauncherAssumed DEF LauncherAssumption
<1>2. LauncherTypeOK /\ ServerFollowsPort /\ ChecksLeft
  BY <1>1 DEF Stranded, LauncherTypeOK, ServerFollowsPort, ChecksLeft, Windows
<1>3. Promise!DesktopInit
  BY DEF Stranded, Promise!DesktopInit, Life
<1> QED
  BY <1>2, <1>3 DEF LauncherInv

LEMMA ConnectionsBegin == Init => ConnectionsInv /\ Promise!DesktopInit
<1> SUFFICES ASSUME Init
             PROVE  ConnectionsInv /\ Promise!DesktopInit
  OBVIOUS
<1>1. ClientInv
  BY ClientAssumed, ClientBegins DEF Init
<1>2. TerminalInv
  BY TerminalBegins DEF Init
<1>3. LauncherInv /\ Promise!DesktopInit
  <2>1. LauncherInit \/ app = Stranded
    BY DEF Init
  <2> QED
    BY <2>1, LauncherAssumed, InitIsPromised, StrandedIsSound
<1>4. TaskInv
  BY TasksBegin DEF Init
<1>5. DebugInv
  <2>1. Debugging!DebugInit \/ ds = Debugging!Over
    BY DEF Init
  <2> QED
    BY <2>1, DebugBegins
<1> QED
  BY <1>1, <1>2, <1>3, <1>4, <1>5 DEF ConnectionsInv

\* What the parts do not share: a step of one is no step of the others.
LEMMA PartsAreApart ==
    ASSUME [Next]_vars
    PROVE  /\ [ClientNext]_clientVars
           /\ [Terminal!TerminalNext]_(Terminal!terminalVars)
           /\ [LauncherNext]_app
           /\ [TaskNext]_taskVars
           /\ [Debugging!DebugNext]_ds
<1>1. CASE UNCHANGED vars
  BY <1>1 DEF vars, capture, terminal, Terminal!terminalVars
<1>2. CASE Next
  BY <1>2 DEF Next, capture, terminal, Terminal!terminalVars
<1> QED
  BY <1>1, <1>2

LEMMA ConnectionsStep ==
    ASSUME ConnectionsInv, [Next]_vars
    PROVE  ConnectionsInv' /\ [Promise!DesktopNext]_(Promise!desktopVars)
<1>1. ClientInv'
  BY PartsAreApart, ClientAssumed, ClientStep DEF ConnectionsInv
<1>2. TerminalInv'
  BY PartsAreApart, TerminalStep DEF ConnectionsInv
<1>3. LauncherInv' /\ [Promise!DesktopNext]_(Promise!desktopVars)
  BY PartsAreApart, LauncherAssumed, StepIsPromised DEF ConnectionsInv
<1>4. TaskInv'
  BY PartsAreApart, TaskStep DEF ConnectionsInv
<1>5. DebugInv'
  BY PartsAreApart, DebugStep DEF ConnectionsInv
<1> QED
  BY <1>1, <1>2, <1>3, <1>4, <1>5 DEF ConnectionsInv

\* The inductive invariant of the whole.
LEMMA ConnectionsInvHolds == Spec => []ConnectionsInv
<1>1. Init => ConnectionsInv
  BY ConnectionsBegin
<1>2. ConnectionsInv /\ [Next]_vars => ConnectionsInv'
  BY ConnectionsStep
<1> QED
  BY <1>1, <1>2, PTL DEF Spec

-----------------------------------------------------------------------------
\* The pages, the application and the goroutines of the server are always well-typed, the
\* bounds of the sockets and terminals among the types.
THEOREM ConnectionsAreTyped == Spec => []ConnectionsTypeOK
<1>1. ClientInv => ClientTypeOK
  BY DEF ClientInv
<1>2. LauncherInv => LauncherTypeOK
  BY DEF LauncherInv
<1>3. DebugInv => Debugging!DebugTypeOK
  BY SessionType DEF DebugInv
<1>4. ConnectionsInv => ConnectionsTypeOK
  BY <1>1, <1>2, <1>3, TasksAreTyped, TerminalIsTyped DEF ConnectionsInv, ConnectionsTypeOK
<1> QED
  BY <1>4, ConnectionsInvHolds, PTL

\* Whatever pods and containers there are and however often they are changed: unless the user was
\* quicker than a timer, the only shell that is connected is that of the terminal on the screen
\* (useTerminal.ts).
THEOREM ShellsAreShown == Spec => []ShellIsShown
<1>1. ConnectionsInv => ShellIsShown
  BY TerminalShows DEF ConnectionsInv, ShellIsShown
<1> QED
  BY <1>1, ConnectionsInvHolds, PTL

\* However a debug session ends, its copy of the pod is removed, except in the ways that DebugPod
\* names (debug.go).
THEOREM DebugPodsAreRemoved == Spec => []DebugPodIsRemoved
<1>1. DebugInv => Debugging!DebugPodIsRemoved
  BY DEF DebugInv, CopyIsRemoved, Debugging!DebugPodIsRemoved
<1>2. ConnectionsInv => DebugPodIsRemoved
  BY <1>1 DEF ConnectionsInv, DebugPodIsRemoved
<1> QED
  BY <1>2, ConnectionsInvHolds, PTL

\* The desktop application, run beside the pages and the server, implements DesktopApp.
THEOREM ConnectionsKeepPromise == Spec => KeepsPromise
<1>1. Init => ConnectionsInv /\ Promise!DesktopInit
  BY ConnectionsBegin
<1>2. ConnectionsInv /\ [Next]_vars => ConnectionsInv' /\ [Promise!DesktopNext]_(Promise!desktopVars)
  BY ConnectionsStep
<1> QED
  BY <1>1, <1>2, PTL DEF Spec, KeepsPromise, Promise!DesktopSpec
=============================================================================
