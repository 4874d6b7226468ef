------------------------- MODULE TcpdumpSessionProofs -------------------------
(***************************************************************************)
(* What a finished capture promises, for every set of modes and faults and *)
(* every length of the client's queue.  The argument follows the output:   *)
(* the exec goroutine closes the pipe after tcpdump has ended, the copier  *)
(* leaves the copy in mode "file" only over a closed pipe (unless the disk *)
(* fails), stores the status and the packets after that, and sends "done"  *)
(* after both.                                                             *)
(***************************************************************************)
EXTENDS TcpdumpSession, TLAPS

(***************************************************************************)
(* Type correctness.                                                       *)
(***************************************************************************)
LEMMA EmptyInbox == <<>> \in Seq(Messages)
  OBVIOUS

LEMMA TailOfInbox ==
  ASSUME NEW queue \in Seq(Messages), queue # <<>>
  PROVE  Tail(queue) \in Seq(Messages)
  OBVIOUS

\* The SMT solver gets the variables in three parts: those of Boolean value, the
\* queue and the others.
Flags == stopped \in BOOLEAN /\ gotDone \in BOOLEAN /\ crashed \in BOOLEAN

Queue == inbox \in Seq(Messages)

States ==
    /\ mode \in Modes /\ faults \subseteq Faults
    /\ reader \in {"setup", "read", "kill", "lastKill", "pong", "gone"}
    /\ conn \in {"open", "client closed", "server closed"}
    /\ writing \in {"nobody", "reader", "copier"}
    /\ proc \in {"none", "asked", "running", "ended"}
    /\ pipe \in {"empty", "output", "closed"}
    /\ copier \in {"none", "copy", "stdout", "status", "packets", "done", "sending", "end"}
    /\ status \in {"none", "1", "2"}
    /\ packets \in {"none", "partial", "complete"}

LEMMA ThreeParts == TypeOK <=> Flags /\ Queue /\ States
  BY DEF TypeOK, Flags, Queue, States

LEMMA InitTypes == Init => Flags /\ Queue /\ States
  <1>1. Init => Flags
    BY DEF Init, Flags
  <1>2. Init => Queue
    BY EmptyInbox DEF Init, Queue
  <1>3. Init => States
    BY DEF Init, States
  <1> QED BY <1>1, <1>2, <1>3

LEMMA NextFlags ==
  ASSUME Flags, Next
  PROVE  Flags'
  <1> USE DEF Flags
  <1>1. CASE Client
    BY <1>1 DEF Client, SendStop, SendPing, SendMalformed, Send, Disconnect
  <1>2. CASE Reader
    BY <1>2 DEF Reader, Setup, SetupFails, WiresharkFails, SetupOther, ReadFails, Read,
                KillRemoteTcpdump, KillFails, Kill, BeginPong, PongPanics, EndPong
  <1>3. CASE Remote \/ Exec
    BY <1>3 DEF Remote, Exec, ProcessStarts, ExecFails, ProcessExits, ProcessWrites,
                ClosePipe, SetProc, SetPipe
  <1>4. CASE Copier \/ CopyFails
    BY <1>4 DEF Copier, Copy, BeginStdout, EndStdout, CopyEnds, SaveStatus, SavePackets,
                BeginDone, EndDone, CopyFails, AfterCopy, CopierWrites, SetPipe
  <1> QED BY <1>1, <1>2, <1>3, <1>4 DEF Next

\* Only the client appends to the queue and only the reader takes from it.
LEMMA NextQueue ==
  ASSUME Queue, Next
  PROVE  Queue'
  <1>1. CASE Client
    <2>1. ASSUME NEW message \in Messages, Send(message)
          PROVE  Queue'
      BY <2>1 DEF Send, Queue
    <2>2. CASE Disconnect
      BY <2>2 DEF Disconnect, Queue
    <2>3. "stop" \in Messages /\ "ping" \in Messages /\ "malformed" \in Messages
      BY DEF Messages
    <2> QED BY <1>1, <2>1, <2>2, <2>3 DEF Client, SendStop, SendPing, SendMalformed
  <1>2. CASE Read
    <2>1. inbox' = Tail(inbox) /\ inbox # <<>>
      BY <1>2 DEF Read
    <2> QED BY <2>1, TailOfInbox DEF Queue
  <1>3. CASE Reader /\ ~ Read
    <2>1. inbox' = inbox
      BY <1>3 DEF Reader, Setup, SetupFails, WiresharkFails, SetupOther, ReadFails,
                  KillRemoteTcpdump, KillFails, Kill, BeginPong, PongPanics, EndPong
    <2> QED BY <2>1 DEF Queue
  <1>4. CASE Remote \/ Exec \/ Copier \/ CopyFails
    <2>1. inbox' = inbox
      BY <1>4 DEF Remote, Exec, ProcessStarts, ExecFails, ProcessExits, ProcessWrites,
                  ClosePipe, SetProc, SetPipe, Copier, Copy, BeginStdout, EndStdout,
                  CopyEnds, SaveStatus, SavePackets, BeginDone, EndDone, CopyFails,
                  AfterCopy, CopierWrites
    <2> QED BY <2>1 DEF Queue
  <1> QED BY <1>1, <1>2, <1>3, <1>4 DEF Next

LEMMA ClientStates ==
  ASSUME States, Client
  PROVE  States'
  BY DEF Client, SendStop, SendPing, SendMalformed, Send, Disconnect, States, asked, stored

LEMMA ReaderStates ==
  ASSUME States, Reader
  PROVE  States'
  <1> USE DEF States, asked, stored
  <1>1. CASE Setup
    BY <1>1 DEF Setup
  <1>2. CASE SetupFails
    BY <1>2 DEF SetupFails
  <1>3. CASE WiresharkFails
    BY <1>3 DEF WiresharkFails
  <1>4. CASE ReadFails
    BY <1>4 DEF ReadFails
  <1>5. CASE Read
    BY <1>5 DEF Read
  <1>6. CASE KillRemoteTcpdump
    BY <1>6 DEF KillRemoteTcpdump, Kill
  <1>7. CASE KillFails
    <2>1. Kill(proc)
      BY <1>7 DEF KillFails
    <2>2. proc' = proc /\ reader' \in {"read", "gone"}
      BY <2>1 DEF Kill
    <2>3. conn' = conn \/ conn' = "server closed"
      BY <2>1 DEF Kill
    <2>4. UNCHANGED <<mode, faults, writing, pipe, copier, status, packets>>
      BY <2>1 DEF Kill
    <2>5. reader' \in {"setup", "read", "kill", "lastKill", "pong", "gone"}
      BY <2>2
    <2>6. conn' \in {"open", "client closed", "server closed"}
      BY <2>3
    <2> QED BY <2>2, <2>4, <2>5, <2>6
  <1>8. CASE BeginPong
    BY <1>8 DEF BeginPong
  <1>9. CASE PongPanics
    BY <1>9 DEF PongPanics
  <1>10. CASE EndPong
    BY <1>10 DEF EndPong
  <1>11. CASE SetupOther
    BY <1>11 DEF SetupOther
  <1> QED BY <1>1, <1>2, <1>3, <1>4, <1>5, <1>6, <1>7, <1>8, <1>9, <1>10, <1>11 DEF Reader

LEMMA ExecStates ==
  ASSUME States, Remote \/ Exec
  PROVE  States'
  BY DEF Remote, Exec, ProcessStarts, ExecFails, ProcessExits, ProcessWrites, ClosePipe,
         SetProc, SetPipe, States, asked, stored

LEMMA CopierStates ==
  ASSUME States, Copier \/ CopyFails
  PROVE  States'
  <1> USE DEF States, asked, stored
  <1>1. CASE Copy
    BY <1>1 DEF Copy, SetPipe
  <1>2. CASE BeginStdout \/ BeginDone
    BY <1>2 DEF BeginStdout, BeginDone, CopierWrites
  <1>3. CASE EndStdout \/ EndDone
    BY <1>3 DEF EndStdout, EndDone
  <1>4. CASE CopyEnds \/ CopyFails
    BY <1>4 DEF CopyEnds, CopyFails, AfterCopy
  <1>5. CASE SaveStatus \/ SavePackets
    BY <1>5 DEF SaveStatus, SavePackets
  <1> QED BY <1>1, <1>2, <1>3, <1>4, <1>5 DEF Copier

\* Every state of every session is well-typed: RunWS.
THEOREM TypeCorrect == Spec => []TypeOK
  <1> DEFINE Types == Flags /\ Queue /\ States
  <1>1. Types /\ [Next]_vars => Types'
    <2> SUFFICES ASSUME Types, [Next]_vars PROVE Types'
      OBVIOUS
    <2>1. CASE UNCHANGED vars
      <3>1. Flags'
        BY <2>1 DEF vars, Flags
      <3>2. Queue'
        BY <2>1 DEF vars, Queue
      <3>3. States'
        <4>1. UNCHANGED <<mode, faults, reader, conn, writing, proc, pipe, copier, status,
                          packets>>
          BY <2>1 DEF vars, asked, stored
        <4>2. mode' \in Modes /\ faults' \subseteq Faults
          BY <4>1 DEF States
        <4>3. /\ reader' \in {"setup", "read", "kill", "lastKill", "pong", "gone"}
              /\ conn' \in {"open", "client closed", "server closed"}
              /\ writing' \in {"nobody", "reader", "copier"}
          BY <4>1 DEF States
        <4>4. /\ proc' \in {"none", "asked", "running", "ended"}
              /\ pipe' \in {"empty", "output", "closed"}
              /\ status' \in {"none", "1", "2"}
              /\ packets' \in {"none", "partial", "complete"}
          BY <4>1 DEF States
        <4>5. copier' = copier
          BY <4>1
        <4> QED BY <4>2, <4>3, <4>4, <4>5 DEF States
      <3> QED BY <3>1, <3>2, <3>3
    <2>2. CASE Next
      <3>1. States'
        BY <2>2, ClientStates, ReaderStates, ExecStates, CopierStates DEF Next
      <3> QED BY <2>2, <3>1, NextFlags, NextQueue
    <2> QED BY <2>1, <2>2
  <1>2. Types => TypeOK
    BY ThreeParts
  <1>3. Init => Types
    BY InitTypes
  <1> QED BY <1>1, <1>2, <1>3, PTL DEF Spec

-----------------------------------------------------------------------------
(***************************************************************************)
(* The order in which a capture is finished.                               *)
(***************************************************************************)
DiskWorks == "storage" \notin faults

\* Only the handler starts anything, and it starts once.
NothingBeforeSetup == reader = "setup" => proc = "none" /\ copier = "none"

ClosedMeansEnded == pipe = "closed" => proc = "ended"

StoresAfterTheEnd ==
    DiskWorks /\ (copier \in {"status", "packets"} \/ status = "2") => pipe = "closed"

ToldAfterStoring ==
    DiskWorks /\ mode = "file" /\ copier \in {"done", "sending", "end"}
        => packets = "complete"

DoneIsLast == mode = "file" /\ gotDone => copier = "end"

Order ==
    /\ NothingBeforeSetup
    /\ ClosedMeansEnded
    /\ StoresAfterTheEnd
    /\ ToldAfterStoring
    /\ DoneIsLast

LEMMA InitOrder == Init => Order
  BY DEF Init, Order, NothingBeforeSetup, ClosedMeansEnded, StoresAfterTheEnd,
         ToldAfterStoring, DoneIsLast

\* What the client does reaches the handler only through its queue and the
\* connection, about which the invariant says nothing.
LEMMA ClientOrder ==
  ASSUME Order, Client
  PROVE  Order'
  <1> USE DEF Order, NothingBeforeSetup, ClosedMeansEnded, StoresAfterTheEnd,
              ToldAfterStoring, DoneIsLast, DiskWorks, asked, stored
  <1>1. ASSUME NEW message, Send(message)
        PROVE  Order'
    BY <1>1 DEF Send
  <1>2. CASE Disconnect
    BY <1>2 DEF Disconnect
  <1> QED BY <1>1, <1>2 DEF Client, SendStop, SendPing, SendMalformed

LEMMA ReaderOrder ==
  ASSUME Order, Reader
  PROVE  Order'
  <1> USE DEF Order, NothingBeforeSetup, ClosedMeansEnded, StoresAfterTheEnd,
              ToldAfterStoring, DoneIsLast, DiskWorks, asked, stored
  <1>1. CASE Setup
    BY <1>1 DEF Setup
  <1>2. CASE SetupFails
    BY <1>2 DEF SetupFails
  <1>3. CASE WiresharkFails
    BY <1>3 DEF WiresharkFails
  <1>4. CASE ReadFails
    BY <1>4 DEF ReadFails
  <1>5. CASE Read
    BY <1>5 DEF Read
  <1>6. CASE KillRemoteTcpdump
    BY <1>6 DEF KillRemoteTcpdump, Kill
  <1>7. CASE KillFails
    BY <1>7 DEF KillFails, Kill
  <1>8. CASE BeginPong
    BY <1>8 DEF BeginPong
  <1>9. CASE PongPanics
    BY <1>9 DEF PongPanics
  <1>10. CASE EndPong
    BY <1>10 DEF EndPong
  <1>11. CASE SetupOther
    BY <1>11 DEF SetupOther
  <1> QED BY <1>1, <1>2, <1>3, <1>4, <1>5, <1>6, <1>7, <1>8, <1>9, <1>10, <1>11 DEF Reader

\* The remote tcpdump and the goroutine that runs it.
LEMMA ExecOrder ==
  ASSUME Order, Remote \/ Exec
  PROVE  Order'
  <1> USE DEF Order, NothingBeforeSetup, ClosedMeansEnded, StoresAfterTheEnd,
              ToldAfterStoring, DoneIsLast, DiskWorks, asked, stored
  <1>1. CASE ProcessStarts
    BY <1>1 DEF ProcessStarts, SetProc
  <1>2. CASE ExecFails
    BY <1>2 DEF ExecFails, SetProc
  <1>3. CASE ProcessExits
    BY <1>3 DEF ProcessExits, SetProc
  <1>4. CASE ProcessWrites
    BY <1>4 DEF ProcessWrites, SetPipe
  <1>5. CASE ClosePipe
    BY <1>5 DEF ClosePipe, SetPipe
  <1> QED BY <1>1, <1>2, <1>3, <1>4, <1>5 DEF Remote, Exec

LEMMA CopierOrder ==
  ASSUME Order, Copier \/ CopyFails
  PROVE  Order'
  <1> USE DEF Order, NothingBeforeSetup, ClosedMeansEnded, StoresAfterTheEnd,
              ToldAfterStoring, DoneIsLast, DiskWorks, asked, stored
  <1>1. CASE Copy
    BY <1>1 DEF Copy, SetPipe
  <1>2. CASE BeginStdout
    BY <1>2 DEF BeginStdout, CopierWrites
  <1>3. CASE EndStdout
    BY <1>3 DEF EndStdout
  <1>4. CASE CopyEnds
    BY <1>4 DEF CopyEnds, AfterCopy
  <1>5. CASE SaveStatus
    BY <1>5 DEF SaveStatus
  <1>6. CASE SavePackets
    BY <1>6 DEF SavePackets
  <1>7. CASE BeginDone
    BY <1>7 DEF BeginDone, CopierWrites
  <1>8. CASE EndDone
    BY <1>8 DEF EndDone
  <1>9. CASE CopyFails
    BY <1>9 DEF CopyFails, AfterCopy
  <1> QED BY <1>1, <1>2, <1>3, <1>4, <1>5, <1>6, <1>7, <1>8, <1>9 DEF Copier

LEMMA Ordered == Spec => []Order
  <1>1. Order /\ [Next]_vars => Order'
    <2> SUFFICES ASSUME Order, [Next]_vars PROVE Order'
      OBVIOUS
    <2>1. CASE UNCHANGED vars
      BY <2>1 DEF vars, asked, stored, Order, NothingBeforeSetup, ClosedMeansEnded,
                  StoresAfterTheEnd, ToldAfterStoring, DoneIsLast, DiskWorks
    <2> QED BY <2>1, ClientOrder, ReaderOrder, ExecOrder, CopierOrder DEF Next
  <1> QED BY <1>1, InitOrder, PTL DEF Spec

\* The status "2" is stored only after tcpdump has ended and its output has been
\* copied to the end: tcpdump.go, the goroutine of mode "file".
THEOREM FinishedCapturesAreDrained == Spec => []FinishedMeansDrained
  <1>1. Order => FinishedMeansDrained
    BY DEF Order, FinishedMeansDrained, StoresAfterTheEnd, ClosedMeansEnded, DiskWorks
  <1> QED BY <1>1, Ordered, PTL

\* The client hears "done" only after all packets are stored: the same goroutine.
THEOREM DoneCapturesAreStored == Spec => []DoneMeansDownloadable
  <1>1. Order => DoneMeansDownloadable
    BY DEF Order, DoneMeansDownloadable, ToldAfterStoring, DoneIsLast, DiskWorks
  <1> QED BY <1>1, Ordered, PTL

=============================================================================
