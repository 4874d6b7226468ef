------------------------------ MODULE Downloads ------------------------------
(***************************************************************************)
(* Downloads of the desktop application (ui/src/main/utils/                  *)
(* downloadFileUtil.ts): a dialog asks for a folder, and the folder is kept  *)
(* in one variable until the browser reports the download, which it does     *)
(* when the server has answered.  The name of the file is counted up until   *)
(* no such file exists; the file itself appears a little later.              *)
(***************************************************************************)
EXTENDS Naturals, FiniteSets

CONSTANTS Files,        \* names of files that are offered
          SaveFolders,  \* folders that can be chosen
          MaxDownloads, \* bound on the downloads
          None

VARIABLES dl,       \* selectPath, the disk and the downloads
          crowded   \* history: two downloads came too close, see DialogAnswered and WillDownload

downloadsVars == <<dl, crowded>>

Ids  == 1..MaxDownloads
\* a file and the number in brackets after its name
Path == [folder : SaveFolders, file : Files, num : 0..MaxDownloads]

DownloadsAssumption ==
    /\ MaxDownloads \in Nat /\ SaveFolders # {}
    /\ None \notin SaveFolders \cup Files /\ None \notin Path

DownloadsTypeOK ==
    /\ dl \in [selectPath : SaveFolders, disk : SUBSET Path, badgeCount : 0..MaxDownloads,
               item : [Ids -> [file : Files \cup {None}, chosen : SaveFolders \cup {None},
                               state : {"new", "dialog", "asked", "saving", "ended"},
                               path : Path \cup {None}]]]
    /\ crowded \in BOOLEAN

In(state) == {i \in Ids : dl.item[i].state = state}

DownloadsInit ==
    /\ \E folder \in SaveFolders :   \* app.getPath('downloads')
        dl = [selectPath |-> folder, disk |-> {}, badgeCount |-> 0,
              item |-> [i \in Ids |-> [file |-> None, chosen |-> None, state |-> "new", path |-> None]]]
    /\ crowded = FALSE

\* openFileDialog; the page sends again what is clicked again
Download(i, file) ==
    /\ dl.item[i].state = "new" /\ \A j \in 1..(i - 1) : dl.item[j].state # "new"
    /\ dl' = [dl EXCEPT !.item[i] = [@ EXCEPT !.state = "dialog", !.file = file]]
    /\ UNCHANGED crowded

\* a folder, or none when the dialog is cancelled
DialogAnswered(i, folder) ==
    /\ dl.item[i].state = "dialog"
    /\ IF folder = None
       THEN dl' = [dl EXCEPT !.item[i].state = "ended"] /\ UNCHANGED crowded
       ELSE /\ dl' = [dl EXCEPT !.selectPath = folder, !.item[i] = [@ EXCEPT !.state = "asked", !.chosen = folder]]
            /\ crowded' = (crowded \/ \E j \in In("asked") : dl.item[j].chosen # folder)

\* Mutant: the name is not counted up.
FreeAlways(folder, file) == 0

\* the loop over pathExistsSync
Free(folder, file) ==
    LET Taken(n) == [folder |-> folder, file |-> file, num |-> n] \in dl.disk
    IN  CHOOSE n \in 0..MaxDownloads : ~Taken(n) /\ \A m \in 0..(n - 1) : Taken(m)

\* will-download
WillDownload(i) ==
    LET file == dl.item[i].file
        path == [folder |-> dl.selectPath, file |-> file, num |-> Free(dl.selectPath, file)]
    IN  /\ dl.item[i].state = "asked"
        /\ dl' = [dl EXCEPT !.item[i] = [@ EXCEPT !.state = "saving", !.path = path], !.badgeCount = @ + 1]
        /\ crowded' = (crowded \/ \E j \in In("saving") : dl.item[j].path = path)

FileAppears(i) ==
    /\ dl.item[i].state = "saving"
    /\ dl' = [dl EXCEPT !.disk = @ \cup {dl.item[i].path}]
    /\ UNCHANGED crowded

\* done: completed with the file on the disk, or cancelled or interrupted without it
DownloadEnds(i, state) ==
    LET path == dl.item[i].path IN
    /\ dl.item[i].state = "saving"
    /\ state = "completed" => path \in dl.disk
    /\ dl' = [dl EXCEPT !.item[i] = [@ EXCEPT !.state = "ended",
                                             !.path = IF state = "completed" THEN path ELSE None],
                        !.badgeCount = @ - 1,
                        !.disk = IF state = "completed" THEN @ ELSE @ \ {path}]
    /\ UNCHANGED crowded

DownloadsNext ==
    \E i \in Ids :
        \/ \E file \in Files : Download(i, file)
        \/ \E folder \in SaveFolders \cup {None} : DialogAnswered(i, folder)
        \/ WillDownload(i) \/ FileAppears(i)
        \/ \E state \in {"completed", "failed"} : DownloadEnds(i, state)

DownloadsSpec == DownloadsInit /\ [][DownloadsNext]_downloadsVars

-----------------------------------------------------------------------------
(* Properties                                                                *)

\* A download is written to the folder that was chosen for it and to a file of its own, unless a
\* second dialog was answered with another folder before the browser reported the first download,
\* or a second download of a name began before the first file was there
\* (downloadFileUtil.ts:26 and 40).
SavedWhereChosen ==
    ~crowded =>
        \A i \in Ids : dl.item[i].path # None =>
            /\ dl.item[i].path.folder = dl.item[i].chosen
            /\ \A j \in Ids \ {i} : dl.item[j].path # dl.item[i].path
=============================================================================
