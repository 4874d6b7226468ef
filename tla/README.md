# k8z in TLA+

k8z is a tool box for Kubernetes: a Go server (gin, gorm with SQLite, client-go)
with a React page, packed as an electron application or run as a shared server.
This directory holds specifications of the parts of it that are hard to test, the
TLC configurations that check them on small instances and TLAPS proofs of the
invariants that matter most. Line numbers are those of the commit the
specifications were written from.

| file | what it is |
|---|---|
| `X.tla` | the specification of component X, with its properties |
| `Workbench.tla` | composes the pages that talk by requests, with what they leave behind on the server and the downloads |
| `Connections.tla` | composes what outlives a request: sockets, timers, windows, goroutines |
| `DesktopApp.tla` | the abstract specification that `Launcher.tla` implements |
| `MCX.tla`, `MCX_run.cfg` | the finite instances that TLC checks (`TcpdumpSession` needs no MC module: its constants are sets of strings) |
| `XProofs.tla` | the theorems about X for every value of its constants; those about the pages are in `WorkbenchProofs`, those about Launcher, TerminalClient and DebugPod in `ConnectionsProofs` |
| `PROJECT.json` | components, runs, mutants, the map from definitions to code, findings, hazards and theorems |

Run `tlc -config MCClusterRegistry_registry.cfg MCClusterRegistry.tla` to check an
instance and `tlapm ClusterRegistryProofs.tla` to check the proofs.

## 1. The system

The process has two modes (`main.go`). In the *electron* mode, the default, it
serves one user and keeps one cluster manager; in the *server* mode it serves
many users and keeps a manager per cluster. HTTP handlers run concurrently,
each in a goroutine, and share package variables and client-go's caches without
locks of their own.

| component | state | operations | what it talks to |
|---|---|---|---|
| Cluster registry, server mode (`service/kube/client.go`, `apiv1/kube.go`, `model/dao`) | table `kube_clusters`; `sync.Map` of managers; informers of every manager | add, update, delete a cluster; look one up; `InitKube` at start | SQLite; every handler gets its manager here |
| Current manager, electron mode (`service/kube/client.go`) | package variable `currentManagerSet`; informers | `GetClusterManager` | the kubeconfig file, SQLite, the cluster |
| ConfigMap editing (`apiv1/configmap.go`, `kube/handler.go`) | objects of the informer's cache | save and delete an item, list, read | API server, informer |
| Live capture (`service/tcpdump.go: RunWS`) | `stopped`, a pipe, a websocket, remote process, stored status and packets | start, stop, ping, disconnect | container through exec, storage, Wireshark, the page |
| Capture tasks over REST (`service/tcpdump.go: Run, Stop, List`) | stored status, meta and packets; a poller per task | run, stop, list, download | container, storage |
| Storage (`pkg/storage/filesystem`) | files | get, put, list, delete | disk |
| Profiles (`service/pprof.go`) | stored profiles and graphs | run, diff, list, download | pod or address, `go tool pprof`, storage |
| Debug pods and web terminal (`apiv1/debug.go`, `service/terminal`) | the debug pod, the websocket transport | create, wait, attach, remove | API server, exec, the page |
| Pod proxy (`service/proxy.go`) | the transport shared by a manager's calls | forward a request | API server |
| Pod files (`service/pod_file.go`) | none | upload, download, list | exec |
| Workload resources (`kube/resource.go`), apply and patch (`kube/patcher`) | none | pure conversions; unused apply | API server |
| Electron main (`ui/src/main`) | child process, port, windows, the folder of the next download | start, wait, quit, save | server, browser windows |
| Pod selection (`ui/src/hooks/usePodSelect.ts`, `models/pod.ts`, `PodSelectCard`) | the choice, in memory and in the local storage; three selects | choose, change the tool, reload | server; every tool gets its pod here |
| ConfigMap page | list, selected file, text, base, unsaved flag | choose, type, save, add, delete | server |
| Pod files page | path, container, list | walk, jump, upload, download | server |
| Profiling page | history, pair, view | create, show, compare | server |
| Clusters page | table, two modals with one flag | add, edit, delete, open from the menu | server, electron's menu |
| Pod proxy page | request, headers, response, formatted text | send, edit headers, format | server |
| Capture page | one socket reference, timers, key of the stored capture | start, stop, leave, download | TcpdumpSession's websocket |
| Terminal and debug pages | socket reference and timers of every mounted terminal | choose pod and container, open, close | the server's terminal |

What makes these hard to test, with the line where it bites, is listed under
`hazards` in `PROJECT.json`. In short: two handlers between each other's steps (registry,
current manager, shared ConfigMap objects); a row and a map entry that no
transaction joins, with a failure or a crash between them; objects that are stale
or shared when they are edited; goroutines that hand over through an unbuffered
pipe and share a connection that permits one writer; stops that race with
starts.

What would make each component correct:

- *registry*: a manager is stopped once and never while it can be handed out;
  no cluster is reachable that has no row; a manager was built from its
  row; a restart brings every row back.
- *current manager*: what is current runs; a caller gets the cluster it asked for.
- *ConfigMap editing*: a commit changes only what somebody asked to change; success
  means stored; readers are shown what the server has.
- *live capture*: "finished" and "done" are said after the output is complete;
  the end is reported; a stop, a lost client and a closed Wireshark end the capture.
- *capture tasks*: a stopped task has its packets; no poller runs forever.
- *profiles*: a run that succeeds has stored every graph; a cached diff is complete and its own.
- *debug pods*: no pod is left behind; the terminal's goroutines end.
- *proxy*: a response carries its own headers.
- *pages*: what is shown belongs to what is selected, in whatever order answers arrive,
  and nothing loads forever; a late event of an old socket does not touch the new one;
  there is no shell, download or server process nobody can reach.

## 2. What is modelled

### ClusterRegistry

`rows` is the table, `sets` the map `clusterManagerSets`, `informers` says of
every manager whether its informers run. A manager is named after what built it, so
two managers of one cluster are told apart. Every handler is a sequence of
steps over `pc`: one per database call, one per operation of the map, one per
closing of a stop channel. So `KubeClusterUpdate` is `GetClusterByName` (the row
is looked up), `Remove` and `Stop` (`DeleteClusterManager`), `AddClusterManager`,
`UpdateCluster` (and `Recreate`, gorm's second query when nothing was updated), and
`Rollback`/`RollbackStop` when the row cannot be written. `DatabaseFails` lets
any database call fail. `Restart` is a crash between any two steps followed by
`InitKube`. `built` (the content a manager was built from) and `raced` (names on
which two handlers were at work at the same time) are history variables: no guard
reads them.

Abstracted: the pair (apiServer, kubeConfig) is a model value that builds or does
not; building a manager and storing it are one step because nobody sees the
manager before `Store`; the parameters' binding is passed (both are `required`, so
the empty apiServer that `buildClusterManager` answers with a nil manager does not
get there).

### CurrentManager

`GetClusterManager` in the electron mode, one step per access of the unlocked
variable: `Check` reads it for the comparison, `ReturnCached` reads it again,
`CheckPermission` reads it for the nil test, `PickOld` to stop it, `Assign` writes it.
A manager is named after the call that builds it. `EditClusters` changes the
list of clusters at any time. Reads and writes of a pointer are atomic, as they are
on the platforms the program is built for. `alone` is a history variable.

### ConfigMapEdit

`versions` is the API server's history of one ConfigMap, `heap` the decoded objects
in memory, `cached` the one in the informer's cache. `GetFromCache` hands out a
pointer, `Mutate` writes through it (a save into a nil map panics), `Encode`
serialises whatever the object says by then, `Commit` and `UpdateFails` are the API
server's optimistic check and every other way for the call to fail, including an
answer that is lost. `Deliver` is the informer; it may be arbitrarily late, and
a handler may hold an object that is no longer cached. `ConcurrentMapAccess` is the
Go runtime ending the process when it notices two goroutines in one map.

### TcpdumpSession

One call of `RunWS`: the reader (the handler's loop), the exec goroutine, the copier
of the mode, and the remote tcpdump, joined by an `io.Pipe` without buffer and a
websocket that panics on a second writer. `mode` and the set `faults` are chosen in
`Init` and stay, so a liveness property can speak of sessions in which, say, the disk
works. `Disconnect`, a malformed message, a failing setup, exec, kill or disk, a tcpdump
that ends by itself or by another session's kill, and quitting Wireshark are all
there. A panic in the handler's goroutine is recovered by the server and ends the
session (`PongPanics`); one in the copier ends the process (`crashed`). The page's side
is what `useSocketTcpdump.ts` sends: pings until it stops, stop, close.

Abstracted: the output is "some is in the pipe" or "the pipe is closed"; a file is
complete when tcpdump has ended and the pipe is drained.

### The pages: Workbench

`Workbench` composes what goes by requests. The pages share no state but the choice of the
pod, which a page sees change at any time; so each is explored by itself: the variable
`page` says which, and the variables of the others are `None`. All page modules are
written alike. A handler of the code is an operator on a record (`ui`, `ed`, `fm`, ...), an
action is a handler followed by the effects React runs before the next event, and a request
is a member of a set of calls until it is answered, in any order, or fails. A closure
that sees the values of an older rendering carries them in its call.

| module | code | what is special |
|---|---|---|
| `PodSelection` | `usePodSelect.ts`, `models/pod.ts`, `PodSelectCard`, `Tools/index.tsx` | dependent selects; the choice is mirrored in the local storage; a reload restores it in two effects; pages of pods and pages of ConfigMaps |
| `ConfigMapEditor` | `Tools/ConfigMap` | `selectFileRef` is what keeps late answers out; texts carry the file they are of |
| `PodFiles` | `Tools/Files`, `useContainer.ts` | the first listing is checked against the container, a jump against the path |
| `Profiles` | `Tools/Profiling`, `pprof.go: GeneratePprof` | page and server: the goroutines of a run share one `err` |
| `ClustersPage` | `ClustersManage` | two modals, one loading flag, a handler that closes what its closure saw open |
| `PodProxy` | `Tools/PodProxy` | overlapping requests, formatted text beside the response, rows counted by hand |
| `Downloads` | `main/utils/downloadFileUtil.ts` | one variable for the folder of all downloads; file names that are counted up |
| `SharedTransport` | `service/proxy.go` | the server's end of the proxy page: every request wraps the transport of the cluster's client once more |
| `DiffCache` | `pprof.go: GenerateDiff` | the directory that is a finished diff as soon as it holds enough files; the one file per type in the server's working directory through which all calls make their profile graphs; failing calls, crashes, and shells that outlive the server |

What the code does not guarantee is named by history variables that no guard reads, and the
properties hold where these are false:

| variable | it has happened that |
|---|---|
| `drifted` | cluster or namespace was changed on a page of the other kind, or a late answer filled the list of pods |
| `saved` | a text was saved since it was loaded: the base it is compared with stays the old one |
| `crossed` | the container was changed while a jump to a path was under way |
| `doubled` | one view asked for a second diff before the first was generated |
| `overlap` | two requests to a pod were under way at the same time |
| `regrown` | a header was deleted before one was typed after the tab had been opened again |
| `crowded` | two downloads came too close: a second folder before the first download was reported, or a second file before the first of its name was there |
| `late`, `raced` | another response came between a response and the reading of its headers; two requests wrapped the transport at the same time |
| `torn` | the writing of this file of a diff was broken off |
| `clashed` | while a call for this pair had this type's file in the working directory, another call, of any pair, opened it or had it open |

In `DiffCache` a file or a call holds the set of pairs whose graphs are in it: nothing, one
pair's graph, or one written over another. The shell empties the working file when it opens it
and writes later; `PutBytes` does not empty what it opens, so of a longer content the end stays.
The flame graph does not go through a file, but is empty, without an error, if there are no
samples.

### What outlives a request: Connections

`Connections` composes five more parts in the same way (`part`).

- `TcpdumpClient` is the page of the live capture, the other end of TcpdumpSession. All
  handlers of all sockets act on `socketRef.current`, whichever socket that is by then. `hasty`:
  a capture was started while the socket of the one before was there, or stopped before its
  socket was open (`send` throws).
- `TerminalClient` is the terminal and the debug page: timers of half a second that open
  sockets and are never cancelled. `hasty` (`rushed` in Connections): something was changed
  while a timer ran; `twice`: one choice of a pod started two terminals.
- `Launcher` is the desktop application: the server process on a free port, up to thirty
  checks of that port, loading and main window, and all the ways out. It implements
  `DesktopApp`, whose variable is the life of application, server and main window as the user
  sees it: `KeepsPromise` is `DesktopApp`'s specification under the mapping `Life`.
- `TcpdumpTask` is the capture over REST: `Run` with its two goroutines, `Stop` and `List`,
  which only share files. A file is created by one step of `PutBytes` and written by the
  next. `faults` is the set of kinds of operations that may fail, chosen in `TaskInit`;
  `Crash` leaves files and takes everything else.
- `DebugPod` is the server's end of a debug session: the handler, the pod, the shell, and the
  three goroutines of its streams on one websocket. When the websocket is lost the reader types
  "exit" over and over; `busy` says that a program in the foreground takes no notice.
  `why` names how a pod was left behind. A panic of a second writer ends the process (`died`).

The parts that are not explored keep a state in which nothing is enabled, so their fairness
is satisfied: for the application that is one that found no port (`Stranded`), for the debug
session one that was refused (`Over`).

## 3. Runs

| run | instance | states | what it shows |
|---|---|---|---|
| `registry` | 3 requests, all in flight at once, 2 names of which one is a kubeconfig context, 3 contents of which one does not build, 1 crash | 560 thousand | types, ownership of managers, no ghosts, map against table, leaks, restarts |
| `current` | 4 calls, 3 in flight, 2 clusters, 2 contents, 1 edit | 530 thousand | the current manager runs; calls that do not overlap get their cluster and leave one manager running |
| `edit` | 2 requests, 2 items, 3 objects, others write up to version 3 | 500 thousand | commits, success, cache |
| `session` | 4 modes, every subset of 5 faults, 2 unread messages | 432 thousand | order of finishing, reports, ends |
| `workbench` | see below | 1.6 million | what is shown belongs together, spinners end, a reload restores, files, graphs, headers and downloads are the right ones |
| `connections` | see below | 175 thousand | captures can be stopped, shells are shown, files of captures are true, debug pods are removed, DesktopApp is implemented, leftovers end |
| `duplicate` | 1 request at a time, 1 name | | **violated**: add of an existing name makes it "not exist" |
| `overlap` | 2 calls in flight | | **violated**: a caller gets the other's cluster |
| `first_item` | 1 request at a time | | **violated**: the first item of an empty ConfigMap panics |
| `one_item` | 1 request at a time | | **violated**: a save commits an earlier failed edit |
| `early_stop` | mode file, no faults | | **violated**: a stop before tcpdump runs is lost |
| `other_shell` | as `connections` | | **violated**: after a change of the pod the shell is in a container the page does not show |

Why the bounds are enough for the questions asked. In the registry the
interesting cases need two handlers of one name and a third that interferes or comes
later (three requests), a name with and one without context, an update that
changes the content (two contents that build) and one that fails (a third), and one
crash in the middle. In CurrentManager three calls are needed for two of
them to stop the same manager while a third is current, and a fourth to come when
everything is quiet. In ConfigMapEdit two requests share one object, or hold one each
while the cache has a third; version 3 leaves room for another writer
before and after a commit. A session has four activities of a fixed number of steps;
two unread messages are enough for a ping before and after a stop.

The hazards of a page need an answer that is late for what is shown: two of everything
that can be chosen (clusters, ConfigMaps, files, pods, containers, profiles), and a user who goes
on while a request is under way (`MaxCalls`, `EditorCalls`, `FileCalls`, `ListCalls`: nobody
clicks while *more* than that many are). The clusters of the selects are interchangeable
and declared symmetric. A path of two folders has a parent and a child; three headers are a
first, a last and one between; three downloads of two files meet a name that is counted up
twice; two requests to the proxy with a watch beside them have every order of two writers and a
bystander. Two calls of GenerateDiff choose the same or different ones of two pairs, one of
which has no samples in its difference (the constant `NoSamples`), and make the two graphs of
one type: they share the directory, the working file, or both, and meet at every step. Three
calls were checked once (4 million states) and take longer; types share nothing but the count
of the files.

In `connections` two captures are an old and a new socket, the second of them `Deaf`; four sockets let a debug
page or terminal go through pod, container and pod again with a timer and a socket each;
`MaxCheckTimes` is the code's 30. One capture over REST suffices because captures share no
file (the theorems are about any number), one stop for everything but two stops of one
capture, which were checked once. A debug session is finite and unbounded by constants.
The theorems of section 5 do not depend on any of these numbers.

Deadlock is not checked (`CHECK_DEADLOCK FALSE`): requests are finite, sessions and
applications end.

Every property of a passing run has a mutant, an operator named in `PROJECT.json`
that changes one definition the way a plausible bug would and under which TLC finds the
property violated. A property that joins statements about several parts names them one by one
in its definition.

### What the violated properties mean

They state what the program says of itself, and fail without any failure of the
environment, except `one_item`, which needs an Update that the API server refuses: see `findings` in `PROJECT.json`. The corresponding weaker statement that
does hold is checked next to each: `OutOfServiceAfterErrorOnly` (only a failed request
takes a cluster out of service), `AloneGetsRightManager` (calls that do not overlap),
`CommitsOnlyWhatWasAsked` and `CacheIsHonest` (nothing nobody asked for; no dirty cache
without a failed request), `CaptureEnds` (a stop read while tcpdump runs ends it),
`ShellIsShown` (for a choice that starts one terminal only, the shell is that of the terminal).

## 4. Fairness

All fairness is weak, and nobody is obliged to click, send, quit or fail.

- *TcpdumpSession*: the reader, the exec goroutine with the start (or failure to start) of
  tcpdump, and the copier: Go schedules runnable goroutines, an exec request is answered, a
  blocked read returns once there is something to read. `CopyFails`, `ProcessExits`,
  `ProcessWrites` and the client's actions are outside of it.
- *TcpdumpClient*: a connection is made or refused, a server that was told to stop says done,
  and a closed socket has its close event. That the server answers a stop read while tcpdump runs is
  `CaptureEnds` and `EndIsReported` of TcpdumpSession; an earlier stop may be lost (`early_stop`). The
  captures whose stop may be lost are the constant `Deaf`: they have no such fairness, and
  `LeftoversEnd` does not ask for their end.
- *TerminalClient*: timers fire and connections are made or refused.
- *Launcher*: a port is found or not, the timer of the check runs, a window that was asked to
  close closes, and a server that was told to stop ends. Nothing makes a server become ready.
- *TcpdumpTask*: the goroutines of `Run` and `Stop` are scheduled and the timer of thirty minutes fires.
  That tcpdump ends is not assumed.
- *DebugPod*: the handler and the goroutines are scheduled, the minute ends, a size is encoded, and a
  shell at its prompt reads "exit". No message need arrive, no output need be printed, the pod need
  not become ready and a program in the foreground need not end.

## 5. Theorems

Each proof module EXTENDS its specification. The assumptions are those in the
specifications: `Buildable \subseteq Cfgs`, the null value is none of the others,
sets that a CHOOSE needs are not empty, bounds are natural numbers. Every safety property and
every action property of the passing runs is stated by a theorem, and so is the refinement.

Where the code promises something only to requests that do not overlap, the proofs share one
argument: the requests that are at work and alone are one at most (`Apart`), and a step of any other
request leaves those that stay alone as they were (`Undisturbed`).

- **ClusterRegistryProofs.** `TypeCorrect`. `OwnershipCorrect` is the inductive
  invariant behind `NeverStoppedTwice` and `RegisteredManagersRun`, together `ManagersAreHandedOver`. Neither is inductive by
  itself: a handler at `stop` must hold a manager that runs, that is in no map
  entry, and that no other handler holds; no manager is in the map under two names;
  and a request that has not registered yet has not built its manager. `NoGhostManagers`
  is inductive over types: whoever removes a row or fails to write one is at a step
  from which it still looks at the map. `RestartsServeEveryRow` follows from the
  invariant that every stored content builds. `ManagersMatchRows` and
  `OutOfServiceOnlyAfterError` follow from `UnracedNames`, one statement per name whose handlers took
  turns: between handlers there is no row, or a manager of its content, or the last
  answer was an error; and at each step of the only handler what that step needs. A step works on
  one name (`StepIsLocal`), so the names are proved about one by one. `OnlyAddingLeaks` is about steps:
  a handler holds a manager only to stop it (`HeldToStop`), so what a step drops from the map
  without holding it is dropped by `AddClusterManager`.
- **CurrentManagerProofs.** `Lifecycle` (managers under construction run, only placed
  managers are current or picked, a dead current manager is about to be
  replaced) gives `CurrentManagerRuns` and `SwitchesAreToRunningManagers`. `Solo` adds what a call that is alone
  may rely on between its reads of the variable (`AloneHits`, `AloneReplaces`) and, when no calls
  ever overlapped, that whatever runs is current, refused or on its way to be (`NoOrphans`); it gives
  `AloneGetsTheRightManager` and `OnlyOneManagerRuns`.
- **ConfigMapEditProofs.** Every object in memory and every object under way says what
  some version says, but for items somebody asked to change (`Faithful`);
  with the server's check of the version this gives `CommitsAreAsked`. `Solo` follows one request that is alone
  through the object it shares with the cache: what it wrote is there when it encodes, and what it sent is
  what the object says (`OwnEdit`); an object of the latest version says what that version says, unless a
  request without an answer is editing it (`Honest`). That gives `SuccessesAreStored` and
  `CacheStaysHonest`.
- **TcpdumpSessionProofs.** `Order` (a closed pipe means an ended tcpdump, the status and the
  packets are stored after the pipe was closed, done is sent last) gives
  `FinishedCapturesAreDrained` and `DoneCapturesAreStored`.
- **WorkbenchProofs.** A part per page, with the invariant of that page alone, and the theorems about the
  properties of the run. Every part has its own induction because the others stand still.
  - *PodSelection* (`ToolsWorkOnChoice`, `ReloadsRestore`): `Remembers` (what is chosen is what the local
    storage has), `Restored` (and on a tool page all of it is chosen), and, until the choice drifts,
    `StoredTogether` (what is stored is of the stored cluster and namespace). The proof follows
    initSelect through its two effects, and through one when the first finds nothing.
  - *ClustersPage* and *ConfigMapEditor* (`EditorsAreRight`): in `EditorSound` a text that is shown is of the
    file that both the selection and `selectFileRef` name, and its base is of the same file.
  - *PodFiles* (`FilesAreThere`): the list is of the path, `ref` is the container on the screen, and without a
    crossing the jumps under way are for it (`FilesAt`).
  - *Profiles* and *DiffCache* (`GraphsWereMade`, `RunErrorsAreReal`): `OneDiff`; `RunReports` (who goes on to
    report an error has met one, and an error that is the last word belongs to a goroutine that
    will). For the diffs, `WorkingFileIsOwn` (until a pair's calls clash over a type, whoever has opened the
    working file is alone with it, and it holds that call's graph once written), which gives `CallsHoldOwn`
    (what a call will store is its own graph), which gives `FilesHoldOwn` (no stored file has anything
    else, and one that has nothing is being written or was torn); `CallsMakeFiles` (a call that has
    answered found or made every file).
  - *PodProxy* (`BodiesAreOfResults`, `HeadersGrow`): without `overlap` one call is under way at a
    time and a formatted text is that of the response; without `regrown` the newest row is the last.
  - *Downloads* (`DownloadsGoWhereChosen`): `NotMixed`, and that counting a name up ends, by a pigeonhole
    argument: there are fewer downloads than numbers. The least number itself comes from the
    well-founded order of the naturals (`LeastNumber`).
  - *SharedTransport* (`AnswersHaveOwnHeaders`): `WrapperKept` says for every step of a request where its
    wrapper is: between reading the transport and writing it the request is alone, and whoever reads the
    transport later reads the wrapper with it.
  - The whole: `SpinnersWait` from the pages' `Awaits`, `Spins`, `Submits`, `Toasted`, `TextAwaited`, and
    `WorkbenchIsTyped`. The bounds on the badge are not inductive: `BadgeCounts` says that it is the
    cardinality of the downloads under way.
- **TcpdumpClientProofs.** For any number of captures. `OneSocket`: unless the user was hasty, at most one
  socket is alive, it is the latest, and the reference holds it or nothing; that gives
  `CapturesCanBeStopped`.
- **TcpdumpTaskProofs.** For any number of captures, stops and crashes. `TaskInv` orders the files of a capture (meta
  is created after the status was written), says who looks after a capture that runs, and excuses
  empty files; `TaskFilesTrue` follows.
- **ConnectionsProofs.** The parts of Connections and the whole.
  - *TerminalClient*: `TerminalInv` holds whatever the user does as far as references go (`Sound`) and bounds
    (`Small` counts the timers with the sockets, because each will open one). Unless the user was
    rushed or a choice started two terminals, references and shells are those of the terminal on the
    screen (`Shown`), and there is one timer at most, of that terminal, which has no socket yet (`Due`): the
    timer is what makes `Shown` inductive. That gives `ShellsAreShown`.
  - *DebugPod*: a handler that is about to answer has removed the copy or has one of the four reasons
    (`CopyIsRemoved`), whatever the other goroutines do. That gives `DebugPodsAreRemoved`.
  - *Launcher*: `LauncherTypeCorrect`, and `LauncherKeepsPromise`: every initial state maps to an
    initial state of DesktopApp and every step to a step or a stutter, for any number of checks. The
    invariant it needs, `LauncherInv`, says that there is a server exactly from the time its port was found
    (`ServerFollowsPort`) and that the wait is given up before the checks are used up (`ChecksLeft`).
  - The whole: a step of one part is a step of that part and a stutter of the others (`PartsAreApart`), so the
    conjunction of the five invariants is inductive. That gives `ConnectionsAreTyped`, and
    `ConnectionsKeepPromise`.

What the proofs found in the specifications: in PodSelection a CASE of `At` had two guards that overlap, so
that its value was not determined; in TerminalClient the bound on the instances did not count
the terminal of a pod that lacks the shown container, which no pods of the run had (now two pods share
one container but not their first); and `None` was not assumed to differ from a run of the profiler, a submitted
form or the path of a download.

Only model-checked: liveness (`EndIsReported`, `CaptureEnds`, `LeftoversEnd`), because TLAPS has no ENABLED.

## 6. Not modelled, and the plan

In this order, most important first:

1. TcpdumpClient composed with TcpdumpSession, in place of the fairness that stands for each other's
   end; TerminalClient with DebugPod likewise.
2. The pod in the informer's cache whose containers `generateDebugPod` edits (`debug.go:116`), with a second
   debug session that copies what the first has left.
3. The files that were ticked in the list of the files page (`useFiles.ts:117`), and the server's side of pod
   files (`service/pod_file.go`), whose stream is a pipe like that of a capture.
4. `kube/resource.go` as operators against a reference definition; the patcher, whose only caller nobody
   calls.
5. Proofs: with the composition of item 1, that a capture page never reads the answer of an earlier session;
   the abstract specifications below as refinements.

Abstract specifications still worth stating: a cluster directory (a cluster is served or not,
and each operation changes one cluster at one moment), which ClusterRegistry implements as
long as handlers of one name do not overlap; a capture as seen by the user
(running, stopped, downloadable), which TcpdumpSession and TcpdumpTask implement; a register
with versions, which ConfigMapEdit implements for requests that do not overlap.

Left out for good: formatting and parsing of command output, gin's routing and binding,
the layout of pages, the map of the tools, build scripts, vendored code and assets.
