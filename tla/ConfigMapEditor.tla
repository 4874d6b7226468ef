--------------------------- MODULE ConfigMapEditor ---------------------------
(***************************************************************************)
(* The ConfigMap page (ui/src/pages/Tools/ConfigMap): a list of files, which *)
(* are the items of one ConfigMap, and an editor for the selected one.       *)
(*                                                                           *)
(* Requests are answered in any order; selectFileRef is what keeps a late    *)
(* answer out of the editor.  Texts carry the file they were loaded or typed *)
(* for, which the code does not know.  The server may answer with any text   *)
(* and any list: other users edit the same ConfigMaps.                       *)
(***************************************************************************)
EXTENDS Naturals, FiniteSets

CONSTANTS ConfigMaps,  \* ConfigMaps that can be selected
          Names,       \* names of items
          Texts,       \* contents
          Empty,       \* the text of a new file
          EditorCalls, \* bound: nobody clicks while more requests are under way
          None

EditorAssumption == Empty \in Texts /\ EditorCalls \in Nat /\ None \notin Names

VARIABLES ed,    \* the state of useConfigMap, its requests and the modal that is open
          saved  \* history: the text in the editor was saved since it was loaded

editorVars == <<ed, saved>>

File    == [cm : ConfigMaps, name : Names]
Context == [of : File, text : Texts]
Ops     == {"list", "content", "save", "delete"}
\* flag: for a save, the file is the new one; for a deletion, it is the object that is selected
Request == [op : Ops, cm : ConfigMaps, file : File \cup {None}, flag : BOOLEAN]
\* what a modal's callbacks have captured: the file and the new file, or file === selectFile
Modal   == [kind : {"none", "diff", "create", "abandon", "delete"}, file : File \cup {None},
            newFile : File \cup {None}, flag : BOOLEAN]
NoModal == [kind |-> "none", file |-> None, newFile |-> None, flag |-> FALSE]

EditorTypeOK ==
    /\ ed \in [cm : ConfigMaps,             \* the prop
               ref : Names \cup {None},     \* selectFileRef, compared by name only
               selectFile : File \cup {None},
               same : BOOLEAN,              \* selectFile is an object of fileList, not only equal to one
               newFile : File \cup {None},
               files : SUBSET File, isNeedSave : BOOLEAN, loading : BOOLEAN,
               context : Context \cup {None}, base : Context \cup {None},
               modal : Modal, calls : SUBSET Request]
    /\ saved \in BOOLEAN

Call(op, file, flag) == [op |-> op, cm |-> ed.cm, file |-> file, flag |-> flag]
Send(e, op, file, flag) == [e EXCEPT !.calls = @ \cup {Call(op, file, flag)}]

\* handleGetConfigmapFiles, an effect of mounting the page and of another ConfigMap in its prop
GetConfigmapFiles(e) ==
    [e EXCEPT !.ref = None, !.selectFile = None, !.isNeedSave = FALSE, !.context = None, !.base = None,
              !.calls = @ \cup {[op |-> "list", cm |-> e.cm, file |-> None, flag |-> FALSE]}]

EditorInit ==
    /\ \E cm \in ConfigMaps :
        ed = GetConfigmapFiles(
            [cm |-> cm, ref |-> None, selectFile |-> None, same |-> FALSE, newFile |-> None, files |-> {},
             isNeedSave |-> FALSE, loading |-> FALSE, context |-> None, base |-> None, modal |-> NoModal,
             calls |-> {}])
    /\ saved = FALSE

-----------------------------------------------------------------------------
(* What the user does.  An open modal covers the page.                       *)

Free == ed.modal = NoModal /\ Cardinality(ed.calls) <= EditorCalls
Keep(e) == ed' = e /\ saved' = saved

\* The selects above the page choose another ConfigMap.
SwitchConfigMap(cm) ==
    /\ Free /\ cm # ed.cm
    /\ ed' = GetConfigmapFiles([ed EXCEPT !.cm = cm])
    /\ saved' = FALSE

\* handleChangeSelectFile, whose callback has captured newFile
ChangeSelectFile(e, file, newFile) ==
    Send([e EXCEPT !.ref = file.name, !.selectFile = file, !.same = TRUE, !.isNeedSave = FALSE,
                   !.loading = TRUE, !.context = None,
                   !.files = IF newFile = None THEN @ ELSE {f \in @ : f.name # newFile.name},
                   !.newFile = IF newFile = None THEN @ ELSE None],
         "content", file, FALSE)

\* handleClickFile of an item of the list: the selected one is refused, an edited one asks first
ClickFile(file) ==
    /\ Free /\ file \in ed.files /\ file # ed.selectFile
    /\ IF ed.isNeedSave
       THEN Keep([ed EXCEPT !.modal = [kind |-> "abandon", file |-> file, newFile |-> ed.newFile,
                                       flag |-> FALSE]])
       ELSE ed' = ChangeSelectFile(ed, file, ed.newFile) /\ saved' = FALSE

ConfirmAbandon ==
    /\ ed.modal.kind = "abandon"
    /\ ed' = ChangeSelectFile([ed EXCEPT !.modal = NoModal], ed.modal.file, ed.modal.newFile)
    /\ saved' = FALSE

ClickDelete(file) ==
    /\ Free /\ file \in ed.files
    /\ Keep([ed EXCEPT !.modal = [kind |-> "delete", file |-> file, newFile |-> None,
                                  flag |-> ed.same /\ file = ed.selectFile]])

\* handleDeleteFile; the modal stays until the answer is there
ConfirmDelete ==
    /\ ed.modal.kind = "delete"
    /\ Keep(Send(ed, "delete", ed.modal.file, ed.modal.flag))

\* The editor is there when nothing is loading and the text is a string.
Editable == ~ed.loading /\ ed.context # None

\* handleChangeContext
Type(text) ==
    /\ Free /\ Editable /\ text # ed.context.text
    /\ Keep([ed EXCEPT !.context.text = text,
                       !.isNeedSave = IF ed.base = None THEN TRUE ELSE text # ed.base.text])

\* the save button, handleShowDiffModal
ClickSave ==
    /\ Free /\ Editable /\ ed.isNeedSave
    /\ Keep([ed EXCEPT !.modal.kind = "diff"])

\* handleSaveChange
ConfirmSave ==
    /\ ed.modal.kind = "diff" /\ ed.selectFile # None /\ ed.context # None
    /\ Keep(Send(ed, "save", ed.selectFile, ed.selectFile = ed.newFile))

OpenCreated ==
    /\ Free
    /\ Keep([ed EXCEPT !.modal.kind = "create"])

\* handleAddFile; selectFileRef is left alone
AddFile(name) ==
    LET file == [cm |-> ed.cm, name |-> name] IN
    /\ ed.modal.kind = "create"
    /\ \A f \in ed.files : f.name # name
    /\ ed' = [ed EXCEPT !.newFile = file, !.files = @ \cup {file}, !.selectFile = file, !.same = TRUE,
                        !.isNeedSave = TRUE, !.context = [of |-> file, text |-> Empty],
                        !.base = [of |-> file, text |-> Empty], !.modal = NoModal]
    /\ saved' = FALSE

CancelModal ==
    /\ ed.modal # NoModal
    /\ Keep([ed EXCEPT !.modal = NoModal])

-----------------------------------------------------------------------------
(* What the server answers.                                                  *)

Lists(cm) == SUBSET [cm : {cm}, name : Names]
Done(call) == [ed EXCEPT !.calls = @ \ {call}]
\* setFileList puts new objects in the list
Listed(e, files) == [e EXCEPT !.files = files, !.same = FALSE]
ClosedIf(modal, kind) == IF modal.kind = kind THEN NoModal ELSE modal

ListArrives(call) ==
    /\ call.op = "list"
    /\ \E files \in Lists(call.cm) : Keep(Listed(Done(call), files))

\* Mutant: the answer is not compared with selectFileRef.
ContentArrivesAnyway(call) ==
    /\ call.op = "content"
    /\ \E text \in Texts :
        LET arrived == [of |-> call.file, text |-> text]
        IN  ed' = [Done(call) EXCEPT !.loading = FALSE, !.context = arrived, !.base = arrived]
    /\ saved' = FALSE

\* Mutant: the base text is not set.
ContentArrivesKeepsBase(call) ==
    /\ call.op = "content"
    /\ \E text \in Texts :
        LET e == [Done(call) EXCEPT !.loading = FALSE]
        IN  IF ed.ref = call.file.name
            THEN ed' = [e EXCEPT !.context = [of |-> call.file, text |-> text]] /\ saved' = FALSE
            ELSE Keep(e)

\* the answer to getFileContext, and the timer that ends loading after it
ContentArrives(call) ==
    /\ call.op = "content"
    /\ \E text \in Texts :
        LET e == [Done(call) EXCEPT !.loading = FALSE]
            arrived == [of |-> call.file, text |-> text]
        IN  IF ed.ref = call.file.name
            THEN ed' = [e EXCEPT !.context = arrived, !.base = arrived] /\ saved' = FALSE
            ELSE Keep(e)

\* the base text stays as it was
SaveArrives(call) ==
    /\ call.op = "save"
    /\ \E files \in Lists(call.file.cm) :
        LET e == [Done(call) EXCEPT !.newFile = IF call.flag THEN None ELSE @,
                                    !.isNeedSave = FALSE, !.modal = ClosedIf(@, "diff")]
        IN  ed' = Listed(e, files) /\ saved' = TRUE

DeleteArrives(call) ==
    /\ call.op = "delete"
    /\ \E files \in Lists(call.file.cm) :
        LET e == [Done(call) EXCEPT !.modal = ClosedIf(@, "delete")]
            closed == [e EXCEPT !.selectFile = None, !.isNeedSave = FALSE, !.context = None, !.base = None]
        IN  Keep(Listed(IF call.flag THEN closed ELSE e, files))

\* Mutant: .catch does not end loading.
RequestFailsKeepsLoading(call) ==
    Keep([Done(call) EXCEPT !.modal = IF call.op = "delete" THEN ClosedIf(@, "delete") ELSE @])

\* an answer with another code, or none
RequestFails(call) ==
    Keep([Done(call) EXCEPT !.loading = IF call.op = "content" THEN FALSE ELSE @,
                            !.modal = IF call.op = "delete" THEN ClosedIf(@, "delete") ELSE @])

EditorNext ==
    \/ \E cm \in ConfigMaps : SwitchConfigMap(cm)
    \/ \E file \in ed.files : ClickFile(file) \/ ClickDelete(file)
    \/ ConfirmAbandon \/ ConfirmDelete \/ ClickSave \/ ConfirmSave \/ OpenCreated \/ CancelModal
    \/ \E text \in Texts : Type(text)
    \/ \E name \in Names : AddFile(name)
    \/ \E call \in ed.calls :
        \/ ListArrives(call) \/ ContentArrives(call) \/ SaveArrives(call) \/ DeleteArrives(call)
        \/ RequestFails(call)

EditorSpec == EditorInit /\ [][EditorNext]_editorVars

-----------------------------------------------------------------------------
(* Properties                                                                *)

\* While the reference names the selected file, the text in the editor was loaded or typed for a
\* file of that name, however late the answers for other files are (useConfigMap.ts:98).  The
\* reference names another file only after a file was added (useConfigMap.ts:202).
EditorShowsSelected ==
    ed.selectFile # None /\ ed.context # None /\ ed.ref = ed.selectFile.name
        => ed.context.of.name = ed.selectFile.name

\* An editor that does not ask to be saved shows the text it compares with: nothing typed is lost
\* without a question, as long as the file has not been saved (SaveArrives keeps the old base).
CleanEditorShowsBase ==
    ~saved /\ ~ed.isNeedSave /\ ed.context # None => ed.context = ed.base

\* Loading ends: it began with a request for a text, and ends with the first answer to any.
EditorSpinnerEnds == ed.loading => \E call \in ed.calls : call.op = "content"
=============================================================================
