------------------------------- MODULE Workbench -------------------------------
(***************************************************************************)
(* The pages of the browser that talk to the server by requests, one of      *)
(* which is open, two things on the server that requests of these pages      *)
(* leave behind, the wrapped transport of the proxy and the files of a diff, *)
(* and the downloads of the desktop application.  They share                 *)
(* no state but the choice of the pod, which a page is given by PodSelection *)
(* and sees change at any time, so each is explored on its own: page says    *)
(* which.  The variables of the others are None, those of PodProxy as when   *)
(* it is opened.                                                             *)
(***************************************************************************)
EXTENDS PodProxy, Sequences

CONSTANTS Clusters, Namespaces, HasNamespace, PodTools, MaxCalls,           \* PodSelection
          ConfigMaps, Names, Texts, Empty, EditorCalls,                     \* ConfigMapEditor
          ContainersOf, Folders, Home, WorkDir, MaxDepth, FileCalls,        \* PodFiles
          WorkloadOf, Types, MaxProfiles, ListCalls,                        \* Profiles
          Static, ClusterCalls,                                             \* ClustersPage
          Files, SaveFolders, MaxDownloads,                                 \* Downloads
          ProxyRequests, ProxyOthers,                                       \* SharedTransport
          DiffTypes, DiffPairs, NoSamples, DiffRuns                         \* DiffCache

VARIABLES page,
          ui, drifted,           \* PodSelection
          ed, saved,             \* ConfigMapEditor
          fm, crossed,           \* PodFiles
          pf, run, doubled,      \* Profiles
          cl,                    \* ClustersPage
          dl, crowded,           \* Downloads
          chain, header, call, raced, late,  \* SharedTransport
          df, making, svgData, svgs, file, tmpSvg, torn, clashed  \* DiffCache

Selection  == INSTANCE PodSelection
Editor     == INSTANCE ConfigMapEditor
Manager    == INSTANCE PodFiles
Profiling  == INSTANCE Profiles
Management == INSTANCE ClustersPage WITH Clusters <- Clusters \cup Static
Saving     == INSTANCE Downloads
Transport  == INSTANCE SharedTransport WITH Requests <- ProxyRequests, Others <- ProxyOthers
Diffing    == INSTANCE DiffCache

ASSUME SelectionAssumed  == Selection!SelectionAssumption
ASSUME EditorAssumed     == Editor!EditorAssumption
ASSUME FilesAssumed      == Manager!FilesAssumption
ASSUME ProfilesAssumed   == Profiling!ProfilesAssumption
ASSUME ClustersAssumed   == Management!ClustersAssumption
ASSUME ProxyAssumed      == ProxyAssumption
ASSUME DownloadsAssumed  == Saving!DownloadsAssumption
ASSUME TransportAssumed  == Transport!TransportAssumption
ASSUME DiffAssumed       == Diffing!DiffAssumption

selection  == <<ui, drifted>>
editor     == <<ed, saved>>
files      == <<fm, crossed>>
profiling  == <<pf, run, doubled>>
saving     == <<dl, crowded>>
transport  == <<chain, header, call, raced, late>>
diff       == <<df, making, svgData, svgs, file, tmpSvg, torn, clashed>>
server     == <<transport, diff>>
vars       == <<page, selection, editor, files, profiling, cl, proxyVars, saving, server>>

Pages  == {"selection", "editor", "files", "profiling", "management", "proxy", "saving", "transport", "diff"}

Init ==
    /\ page \in Pages
    /\ IF page = "selection" THEN Selection!SelectionInit ELSE ui = None /\ drifted = None
    /\ IF page = "editor" THEN Editor!EditorInit ELSE ed = None /\ saved = None
    /\ IF page = "files" THEN Manager!FilesInit ELSE fm = None /\ crossed = None
    /\ IF page = "profiling" THEN Profiling!ProfilesInit ELSE pf = None /\ run = None /\ doubled = None
    /\ IF page = "management" THEN Management!ClustersInit ELSE cl = None
    /\ IF page = "saving" THEN Saving!DownloadsInit ELSE dl = None /\ crowded = None
    /\ IF page = "transport" THEN Transport!TransportInit ELSE chain = None /\ header = None /\ call = None /\ raced = None /\ late = None
    /\ IF page = "diff" THEN Diffing!DiffInit
       ELSE /\ df = None /\ making = None /\ svgData = None /\ svgs = None
            /\ file = None /\ tmpSvg = None /\ torn = None /\ clashed = None
    /\ ProxyInit /\ (page # "proxy" => px.pod = CHOOSE pod \in Pods : TRUE)

Next ==
    /\ UNCHANGED page
    /\ \/ /\ page = "selection" /\ Selection!SelectionNext
          /\ UNCHANGED <<editor, files, profiling, cl, proxyVars, saving, server>>
       \/ /\ page = "editor" /\ Editor!EditorNext
          /\ UNCHANGED <<selection, files, profiling, cl, proxyVars, saving, server>>
       \/ /\ page = "files" /\ Manager!FilesNext
          /\ UNCHANGED <<selection, editor, profiling, cl, proxyVars, saving, server>>
       \/ /\ page = "profiling" /\ Profiling!ProfilesNext
          /\ UNCHANGED <<selection, editor, files, cl, proxyVars, saving, server>>
       \/ /\ page = "management" /\ Management!ClustersNext
          /\ UNCHANGED <<selection, editor, files, profiling, proxyVars, saving, server>>
       \/ /\ page = "proxy" /\ ProxyNext
          /\ UNCHANGED <<selection, editor, files, profiling, cl, saving, server>>
       \/ /\ page = "saving" /\ Saving!DownloadsNext
          /\ UNCHANGED <<selection, editor, files, profiling, cl, proxyVars, server>>
       \/ /\ page = "transport" /\ Transport!TransportNext
          /\ UNCHANGED <<selection, editor, files, profiling, cl, proxyVars, saving, diff>>
       \/ /\ page = "diff" /\ Diffing!DiffNext
          /\ UNCHANGED <<selection, editor, files, profiling, cl, proxyVars, saving, transport>>

Spec == Init /\ [][Next]_vars

-----------------------------------------------------------------------------
\* Types of all pages.
WorkbenchTypeOK ==
    /\ page \in Pages
    /\ page = "selection" => Selection!SelectionTypeOK
    /\ page = "editor" => Editor!EditorTypeOK
    /\ page = "files" => Manager!FilesTypeOK
    /\ page = "profiling" => Profiling!ProfilesTypeOK
    /\ page = "management" => Management!ClustersTypeOK
    /\ page = "saving" => Saving!DownloadsTypeOK
    /\ page = "transport" => Transport!TransportTypeOK
    /\ page = "diff" => Diffing!DiffTypeOK
    /\ ProxyTypeOK

\* Whatever says that it is loading, a select, an editor, a table, a button or a message, waits
\* for an answer or a timer, in whatever order the answers to several requests arrive: nobody is
\* left in front of a spinner that nothing will end.
SpinnersEnd ==
    /\ page = "selection" => Selection!SelectSpinnersEnd
    /\ page = "editor" => Editor!EditorSpinnerEnds
    /\ page = "files" => Manager!FilesSpinnerEnds
    /\ page = "profiling" => Profiling!ProfilesSpinnersEnd
    /\ page = "management" => Management!ClustersSpinnersEnd
    /\ ProxySpinnerEnds

\* See PodSelection: the tool that is open works on an item of the choice that is shown.
ToolWorksOnChoice == page = "selection" => Selection!ToolWorksOnChoice

\* See PodSelection: a reload at any moment restores the choice.
ReloadRestoresChoice == page = "selection" => Selection!ReloadRestoresChoice

\* See ConfigMapEditor and ClustersPage: an editor or form shows the file or cluster it names,
\* and text that was typed and not saved is known to be unsaved.
EditorsShowSelected ==
    /\ page = "editor" => Editor!EditorShowsSelected /\ Editor!CleanEditorShowsBase
    /\ page = "management" => Management!UpdateFormShowsCluster

\* See PodFiles: the files that are listed are those of the path and container that are shown.
ShownFilesAreThere == page = "files" => Manager!ShownFilesAreThere

\* See Profiles and DiffCache: graphs are asked for after they were generated, and of a diff that
\* the server says is there every graph is there, whole and of this pair, but for the files and
\* the shared working files that DiffCache names.
GraphsWereGenerated ==
    /\ page = "profiling" => Profiling!GraphsWereGenerated
    /\ page = "diff" => Diffing!DiffIsComplete

\* See Profiles: what a run reports is what its goroutines met.
RunErrorIsReal == page = "profiling" => Profiling!RunErrorIsReal

\* See Downloads: each download is a file of its own in the folder chosen for it.
SavedWhereChosen == page = "saving" => Saving!SavedWhereChosen

\* See SharedTransport: a request to the proxy is answered with the headers of its own response.
AnswersOwnHeaders == page = "transport" => Transport!AnswersOwnHeaders
=============================================================================
