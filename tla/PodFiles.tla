------------------------------ MODULE PodFiles ------------------------------
(***************************************************************************)
(* The file manager (ui/src/pages/Tools/Files): the directory of a container *)
(* that is shown, and the requests that list another.  The pod comes from    *)
(* the selects above the page, the container from useContainer.  An answer   *)
(* to the first listing of a container is checked against the container      *)
(* (selectPodRef), an answer to a jump against the path (searchFolderPath).  *)
(*                                                                           *)
(* A path is the sequence of its folders; "." stands for the directory that  *)
(* the server finds the container in.                                        *)
(***************************************************************************)
EXTENDS Naturals, Sequences, FiniteSets

CONSTANTS Pods,
          ContainersOf, \* the sequence of containers of every pod
          Folders,      \* names of folders
          Home,         \* the folder called home
          WorkDir,      \* what pwd says
          MaxDepth,     \* bound on the paths the user goes to
          FileCalls,    \* bound: nobody clicks while more requests are under way
          None

Containers == UNION {{ContainersOf[p][i] : i \in DOMAIN ContainersOf[p]} : p \in Pods}
Here  == <<".">>
Root  == <<>>
Dirs  == UNION {[1..n -> Folders] : n \in 0..MaxDepth}
Target == [pod : Pods, container : Containers]

FilesAssumption ==
    /\ "." \notin Folders /\ Home \in Folders /\ None \notin Containers
    /\ MaxDepth \in Nat \ {0} /\ WorkDir \in Dirs /\ FileCalls \in Nat
    /\ ContainersOf \in [Pods -> Seq(Containers)]

VARIABLES fm,      \* the page: its container, its path and list, and its requests
          crossed  \* history: the container changed while a jump was under way

filesVars == <<fm, crossed>>

Listing == [op : {"list", "jump"}, target : Target, path : Dirs \cup {Here}]

FilesTypeOK ==
    /\ fm \in [pod : Pods, container : Containers \cup {None},
               path : Dirs \cup {Here},                             \* currentFilePath
               list : [target : Target, path : Dirs] \cup {None},   \* where fileList comes from
               loading : BOOLEAN, ref : Target \cup {None}, search : Dirs \cup {Here, None},
               uploading : {"no", "sent", "stuck"}, calls : SUBSET Listing]
    /\ crossed \in BOOLEAN

Mounted(f) == f.container # None
Resolved(path) == IF path = Here THEN WorkDir ELSE path
TargetOf(f) == [pod |-> f.pod, container |-> f.container]

\* handleGetFileList
GetFileList(f, path) ==
    [f EXCEPT !.path = Here, !.list = None, !.loading = TRUE, !.ref = TargetOf(f),
              !.calls = @ \cup {[op |-> "list", target |-> TargetOf(f), path |-> path]}]

\* FilesContent is mounted anew; answers to what it was do not reach it
Fresh(f) == [f EXCEPT !.path = Here, !.list = None, !.loading = FALSE, !.ref = None, !.search = None,
                      !.uploading = "no", !.calls = {}]

\* useContainer and the effect of useFiles
SetContainer(f, c) ==
    IF c = f.container THEN f
    ELSE LET g == [f EXCEPT !.container = c]
         IN  IF c = None THEN Fresh(g)
             ELSE GetFileList(IF Mounted(f) THEN g ELSE Fresh(g), Here)

\* The page is rendered with the new pod and the old container before useContainer's effect picks
\* the first container; a pod without containers keeps the old one.
SetPod(f, p) ==
    LET g == [f EXCEPT !.pod = p]
        h == IF Mounted(g) THEN GetFileList(g, Here) ELSE g
    IN  IF ContainersOf[p] = <<>> THEN h ELSE SetContainer(h, Head(ContainersOf[p]))

FilesInit ==
    /\ \E p \in Pods :
        fm = SetPod(Fresh([pod |-> p, container |-> None, path |-> Here, list |-> None, loading |-> FALSE,
                           ref |-> None, search |-> None, uploading |-> "no", calls |-> {}]), p)
    /\ crossed = FALSE

-----------------------------------------------------------------------------
Quiet == Cardinality(fm.calls) <= FileCalls
Crosses(f) == \E call \in f.calls : call.op = "jump"

ChangePod(p) ==
    /\ p # fm.pod /\ Quiet
    /\ fm' = SetPod(fm, p)
    /\ crossed' = (crossed \/ Crosses(fm'))

ChangeContainer(c) ==
    /\ c # fm.container /\ Quiet
    /\ fm' = SetContainer(fm, c)
    /\ crossed' = (Mounted(fm') /\ (crossed \/ Crosses(fm')))

\* The buttons of the header and the table are covered while loading.
CanJump == Mounted(fm) /\ ~fm.loading /\ Quiet

\* handleClickJumpPath
JumpPath(path) ==
    /\ CanJump /\ Len(path) <= MaxDepth
    /\ fm' = [fm EXCEPT !.search = path, !.loading = TRUE,
                        !.calls = @ \cup {[op |-> "jump", target |-> TargetOf(fm), path |-> path]}]
    /\ UNCHANGED crossed

IsRootDirectory == fm.path \in {Here, Root}
Parent(path) == SubSeq(path, 1, Len(path) - 1)

\* the path of a row of the list: a folder, or . or ..
PathOf(name) ==
    CASE name = "."  -> fm.path
      [] name = ".." -> IF fm.path = Root THEN Root ELSE Parent(fm.path)
      [] OTHER       -> Append(fm.path, name)

\* handleNameRender
OpenFolder(name) == fm.list # None /\ JumpPath(PathOf(name))

BackPreLevel      == ~IsRootDirectory /\ JumpPath(Parent(fm.path))
BackRootDirectory == ~IsRootDirectory /\ JumpPath(Root)
IsHomePath        == Len(fm.path) > 0 /\ fm.path[Len(fm.path)] = Home
GoHomePath        == ~IsHomePath /\ JumpPath(<<Home>>)

\* FilesPathItem cuts the path at the first folder of that name, whichever was clicked.
ClickPathItem(i) ==
    LET first == CHOOSE j \in 1..i : fm.path[j] = fm.path[i] /\ \A k \in 1..(j - 1) : fm.path[k] # fm.path[i]
    IN  /\ ~IsRootDirectory
        /\ first # Len(fm.path)
        /\ JumpPath(SubSeq(fm.path, 1, first))

\* Upload, with status uploading
Upload ==
    /\ Mounted(fm) /\ fm.uploading # "sent"
    /\ fm' = [fm EXCEPT !.uploading = "sent"]
    /\ UNCHANGED crossed

\* status done and code 0, handleUploadFileSuccess: the directory shown by now is listed again
UploadSucceeds ==
    /\ fm.uploading = "sent"
    /\ fm' = GetFileList([fm EXCEPT !.uploading = "no"], fm.path)
    /\ UNCHANGED crossed

\* status done and another code, or status error, which counts as still uploading
UploadFails ==
    /\ fm.uploading = "sent"
    /\ \E status \in {"no", "stuck"} : fm' = [fm EXCEPT !.uploading = status]
    /\ UNCHANGED crossed

\* .finally: loading ends with the first answer
Answered(call) == [fm EXCEPT !.calls = @ \ {call}, !.loading = FALSE]
Shows(f, call) ==
    [f EXCEPT !.path = Resolved(call.path), !.list = [target |-> call.target, path |-> Resolved(call.path)]]

\* Mutant: the answer is not compared with selectPodRef.
ListArrivesAnyway(call) ==
    /\ call.op = "list"
    /\ fm' = Shows(Answered(call), call)
    /\ UNCHANGED crossed

ListArrives(call) ==
    /\ call.op = "list"
    /\ fm' = IF call.target = fm.ref THEN Shows(Answered(call), call) ELSE Answered(call)
    /\ UNCHANGED crossed

JumpArrives(call) ==
    /\ call.op = "jump"
    /\ fm' = IF Resolved(call.path) = fm.search THEN Shows(Answered(call), call) ELSE Answered(call)
    /\ UNCHANGED crossed

ListingFails(call) == fm' = Answered(call) /\ UNCHANGED crossed

FilesNext ==
    \/ \E p \in Pods : ChangePod(p)
    \/ \E c \in {ContainersOf[fm.pod][i] : i \in DOMAIN ContainersOf[fm.pod]} \cup {None} : ChangeContainer(c)
    \/ \E name \in Folders \cup {".", ".."} : OpenFolder(name)
    \/ BackPreLevel \/ BackRootDirectory \/ GoHomePath
    \/ \E i \in DOMAIN fm.path : ClickPathItem(i)
    \/ Upload \/ UploadSucceeds \/ UploadFails
    \/ \E call \in fm.calls : ListArrives(call) \/ JumpArrives(call) \/ ListingFails(call)

FilesSpec == FilesInit /\ [][FilesNext]_filesVars

-----------------------------------------------------------------------------
(* Properties                                                                *)

\* The files that are shown are those of the path in the header, and of the container that is
\* selected unless it was changed while a jump was under way (the answer to a jump is compared
\* by path only, useFiles.ts:76): an upload or download goes where the page says.
ShownFilesAreThere ==
    fm.list # None => /\ fm.list.path = fm.path
                      /\ ~crossed => fm.list.target = TargetOf(fm)

\* The table and the buttons are covered only while a listing is under way.
FilesSpinnerEnds == fm.loading => fm.calls # {}
=============================================================================
