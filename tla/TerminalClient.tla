---------------------------- MODULE TerminalClient ----------------------------
(***************************************************************************)
(* The terminal page and the debug page (ui/src/pages/Tools/Terminal, Debug), *)
(* which share hooks/useTerminal.ts: a terminal, and half a second later a    *)
(* socket to a shell.  The timers are never cancelled, and the handlers of    *)
(* every socket act on the socketRef of their instance of the hook.           *)
(*                                                                           *)
(* The debug page keeps one instance.  The terminal page has one per mounted  *)
(* Term, which starts over whenever its pod or container is rendered anew.    *)
(***************************************************************************)
EXTENDS Naturals, Sequences, FiniteSets

CONSTANTS Pods,
          ContainersOf,  \* the sequence of containers of every pod
          MaxSockets,    \* bound on the sockets, with those that timers are about to open
          MaxInstances,  \* bound on the mounted terminals
          None

Containers == UNION {{ContainersOf[p][i] : i \in DOMAIN ContainersOf[p]} : p \in Pods}

TerminalAssumption ==
    /\ None \notin Containers
    /\ ContainersOf \in [Pods -> Seq(Containers)]
    /\ MaxSockets \in Nat \ {0} /\ MaxInstances \in Nat \ {0}

VARIABLES tm,        \* the page, its timers and sockets
          hasty,     \* history: the user changed something while a timer was running
          twice      \* history: one choice of a pod started two terminals, see SetPod

terminalVars == <<tm, hasty, twice>>

Target    == [pod : Pods, container : Containers]
Instances == 1..MaxInstances
Timer     == [target : Target, inst : Instances]

TerminalTypeOK ==
    /\ tm \in [page : {"terminal", "debug"}, pod : Pods, container : Containers \cup {None},
               inst : 0..MaxInstances, mounted : BOOLEAN,   \* the latest instance, and whether it is there
               target : Target \cup {None},                 \* what it was asked for last
               isStart : BOOLEAN, loading : BOOLEAN,        \* the debug page's
               inits : Seq(Timer), starts : Seq(Timer),     \* timers of 300 ms and of 500 ms
               ref : [Instances -> 0..MaxSockets],
               sockets : Seq([target : Target, inst : Instances,
                              state : {"connecting", "open", "closing", "closed"}])]
    /\ Len(tm.sockets) <= MaxSockets
    /\ hasty \in BOOLEAN /\ twice \in BOOLEAN

-----------------------------------------------------------------------------
(* useTerminal.ts                                                            *)

StopLoading(t) == [t EXCEPT !.loading = FALSE]

\* handleSocketClose: close() of a socket that is closing or closed does nothing
SocketClose(t, i) ==
    LET r == t.ref[i]
        t1 == [t EXCEPT !.ref[i] = 0, !.loading = FALSE]
    IN  IF r = 0 THEN t
        ELSE IF t.sockets[r].state = "closed" THEN t1 ELSE [t1 EXCEPT !.sockets[r].state = "closing"]

\* Mutant: the socket is left open.
CloseClientLoadingOnly(t, i) == StopLoading(t)

CloseClient(t, i) == StopLoading(SocketClose(t, i))

\* terminalRef is the element that the terminal is drawn in
HasElement(t, i) == t.mounted /\ i = t.inst /\ (t.page = "debug" => t.isStart)

\* initTerminal
InitTerminal(t, i, target) ==
    IF ~HasElement(t, i) \/ t.ref[i] # 0 THEN t
    ELSE [t EXCEPT !.starts = Append(@, [target |-> target, inst |-> i])]

\* handleStartWebsocket
StartWebsocket(t, timer) ==
    IF t.ref[timer.inst] # 0 THEN t
    ELSE [t EXCEPT !.sockets = Append(@, [target |-> timer.target, inst |-> timer.inst,
                                          state |-> "connecting"]),
                   !.ref[timer.inst] = Len(t.sockets) + 1]

-----------------------------------------------------------------------------
(* Terminal/index.tsx and Term: the effect of Term runs for every new pod prop. *)

Unmount(t) == IF t.mounted THEN [CloseClient(t, t.inst) EXCEPT !.mounted = FALSE, !.target = None] ELSE t

Has(p, c) == \E i \in DOMAIN ContainersOf[p] : ContainersOf[p][i] = c

\* Term is rendered for the pod and the container of the page.
RenderTerm(t) ==
    IF t.page = "debug" THEN t
    ELSE IF ~Has(t.pod, t.container) THEN Unmount(t)
    ELSE LET target == [pod |-> t.pod, container |-> t.container]
             u == IF t.mounted THEN CloseClient(t, t.inst)
                  ELSE [t EXCEPT !.inst = @ + 1, !.mounted = TRUE]
         IN  InitTerminal([u EXCEPT !.target = target], u.inst, target)

SetContainer(t, c) == IF c = t.container THEN t ELSE RenderTerm([t EXCEPT !.container = c])

\* The page is rendered with the new pod and the old container before the effect of useContainer
\* picks the first container.
SetPod(t, p) ==
    LET u == RenderTerm([t EXCEPT !.pod = p])
    IN  IF ContainersOf[p] = <<>> THEN u ELSE SetContainer(u, Head(ContainersOf[p]))

TerminalInit ==
    /\ \E page \in {"terminal", "debug"}, p \in Pods :
        LET empty == [page |-> page, pod |-> p, container |-> None, inst |-> 0, mounted |-> FALSE,
                      target |-> None, isStart |-> FALSE, loading |-> FALSE, inits |-> <<>>,
                      starts |-> <<>>, ref |-> [i \in Instances |-> 0], sockets |-> <<>>]
        IN  tm = SetPod(IF page = "debug" THEN [empty EXCEPT !.inst = 1, !.mounted = TRUE] ELSE empty, p)
    /\ hasty = FALSE /\ twice = FALSE

-----------------------------------------------------------------------------
Waiting == tm.inits # <<>> \/ tm.starts # <<>>
\* An instance is left for the terminal, or the one that is there is kept.
Here(kept) == (tm.mounted /\ kept) \/ (tm.page = "terminal" /\ tm.inst < MaxInstances)
\* one choice starts two timers at most
Bounded == Len(tm.sockets) + Len(tm.starts) + Len(tm.inits) + 2 <= MaxSockets

\* Choosing the same pod again from a new list counts as another choice.
ChangePod(p) ==
    /\ Here(tm.page = "debug" \/ Has(p, tm.container)) /\ Bounded
    /\ tm' = SetPod(tm, p)
    /\ hasty' = (hasty \/ (tm.page = "terminal" /\ Waiting))
    /\ twice' = (twice \/ Len(tm'.starts) > Len(tm.starts) + 1)

ChangeContainer(c) ==
    /\ tm.page = "terminal" /\ Here(TRUE) /\ Bounded /\ c # tm.container
    /\ tm' = SetContainer(tm, c)
    /\ hasty' = (hasty \/ Waiting)
    /\ UNCHANGED twice

\* ConfigForm of the debug page has one button, which starts or stops.
CanSubmit == tm.page = "debug" /\ tm.mounted /\ ~tm.isStart
CanStop   == tm.page = "debug" /\ tm.mounted /\ tm.isStart

\* handleSubmit of the debug page
Submit(c) ==
    /\ CanSubmit /\ Bounded
    /\ LET target == [pod |-> tm.pod, container |-> c]
       IN  tm' = [tm EXCEPT !.loading = TRUE, !.isStart = TRUE, !.target = target,
                            !.inits = Append(@, [target |-> target, inst |-> tm.inst])]
    /\ hasty' = (hasty \/ Waiting)
    /\ UNCHANGED twice

\* handleStopClient
StopDebug ==
    /\ CanStop
    /\ tm' = CloseClient([tm EXCEPT !.isStart = FALSE, !.target = None], tm.inst)
    /\ hasty' = (hasty \/ Waiting)
    /\ UNCHANGED twice

Leave ==
    /\ tm.mounted
    /\ tm' = Unmount([tm EXCEPT !.isStart = FALSE])
    /\ hasty' = (hasty \/ Waiting)
    /\ UNCHANGED twice

-----------------------------------------------------------------------------
(* Timers and sockets.                                                       *)

InitFires ==
    /\ tm.inits # <<>>
    /\ LET timer == Head(tm.inits)
       IN  tm' = InitTerminal([tm EXCEPT !.inits = Tail(@)], timer.inst, timer.target)
    /\ UNCHANGED <<hasty, twice>>

StartFires ==
    /\ tm.starts # <<>>
    /\ tm' = StartWebsocket([tm EXCEPT !.starts = Tail(@)], Head(tm.starts))
    /\ UNCHANGED <<hasty, twice>>

\* handleSocketOpen
Opens(s) ==
    /\ tm.sockets[s].state = "connecting"
    /\ tm' = StopLoading([tm EXCEPT !.sockets[s].state = "open"])
    /\ UNCHANGED <<hasty, twice>>

\* onclose, after onerror when the socket was refused
Closed(s) ==
    /\ tm.sockets[s].state # "closed"
    /\ LET t == [tm EXCEPT !.sockets[s].state = "closed"]
       IN  tm' = SocketClose(IF tm.sockets[s].state = "connecting" THEN StopLoading(t) ELSE t,
                             tm.sockets[s].inst)
    /\ UNCHANGED <<hasty, twice>>

TerminalNext ==
    \/ \E p \in Pods : ChangePod(p)
    \/ \E c \in {ContainersOf[tm.pod][i] : i \in DOMAIN ContainersOf[tm.pod]} :
           ChangeContainer(c) \/ Submit(c)
    \/ ChangeContainer(None)
    \/ StopDebug \/ Leave \/ InitFires \/ StartFires
    \/ \E s \in DOMAIN tm.sockets : Opens(s) \/ Closed(s)

\* Timers fire, and a connection opens or is refused.
Resolves(s) == s \in DOMAIN tm.sockets /\ tm.sockets[s].state = "connecting" /\ (Opens(s) \/ Closed(s))

TerminalFairness ==
    /\ WF_terminalVars(InitFires) /\ WF_terminalVars(StartFires)
    /\ \A s \in 1..MaxSockets : WF_terminalVars(Resolves(s))

TerminalSpec == TerminalInit /\ [][TerminalNext]_terminalVars /\ TerminalFairness

-----------------------------------------------------------------------------
(* Properties                                                                *)

Alive(s) == tm.sockets[s].state \in {"connecting", "open"}

\* A shell, and the pod a debug page makes for it, exists only for the terminal that is on the
\* screen, and in the container that was asked for last, as long as the user waits for the timers
\* (a timer is not cancelled, useTerminal.ts:164) and no choice started two of them.
ShellIsShown ==
    ~hasty /\ ~twice =>
        \A s \in DOMAIN tm.sockets : Alive(s) =>
            tm.mounted /\ tm.ref[tm.inst] = s /\ tm.sockets[s].target = tm.target

\* The first container of a newly chosen pod is the one that is set (useContainer.ts:23) and the
\* one the terminal shows; a user in no hurry gets a shell in it.
ShellInShownContainer ==
    ~hasty => \A s \in DOMAIN tm.sockets :
        Alive(s) /\ tm.mounted /\ tm.ref[tm.inst] = s => tm.sockets[s].target = tm.target

\* What must not last (Connections, LeftoversEnd): a debug page that says it creates a copy, for
\* users who wait for the timers.
SpinnerTurns == tm.loading /\ ~hasty
=============================================================================
