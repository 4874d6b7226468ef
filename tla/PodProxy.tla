------------------------------ MODULE PodProxy ------------------------------
(***************************************************************************)
(* The HTTP proxy page (ui/src/pages/Tools/PodProxy): a request with its      *)
(* headers above, the last response below.  A second request can be sent     *)
(* while one is under way.  ResponseBody keeps the formatted text of the     *)
(* response it was mounted for; it is mounted anew after every loading.      *)
(***************************************************************************)
EXTENDS Integers, FiniteSets

CONSTANTS Pods,
          MaxRows,   \* bound on the rows of headers
          MaxSends,  \* bound on the requests that are sent
          None

ProxyAssumption == None \notin Pods /\ MaxRows \in Nat \ {0} /\ MaxSends \in Nat

VARIABLES px,       \* the form, the response and the requests under way
          overlap,  \* history: a request was sent before the one before it was dealt with
          regrown   \* history: a header was deleted before one was typed in a remounted form

proxyVars == <<px, overlap, regrown>>

Sent    == [pod : Pods, n : 1..MaxSends]
Pretty  == {"json", "html", "xml", "plaintext"}
\* an instance of ResponseBody
Body    == [bodyType : {"pretty", "raw", "preview"}, prettyType : Pretty, editor : BOOLEAN,
            formatting : Pretty \cup {None},
            formatValue : [of : Sent, prettyType : Pretty] \cup {None}]

ProxyTypeOK ==
    /\ px \in [pod : Pods, requestType : {"Headers", "Body"},
               rows : 1..MaxRows, newName : (-MaxRows)..MaxRows \cup {None},
               loading : BOOLEAN, waits : 0..MaxSends, sent : 0..MaxSends, calls : SUBSET Sent,
               result : Sent \cup {None}, responseType : {"Headers", "Body"}, body : Body \cup {None}]
    /\ overlap \in BOOLEAN /\ regrown \in BOOLEAN

FreshBody == [bodyType |-> "pretty", prettyType |-> "json", editor |-> FALSE, formatting |-> None,
              formatValue |-> None]

\* ProxyResponse is there when there is a response and nothing is loading; it starts with the body.
Responds(p) == ~p.loading /\ p.result # None
\* Mutant: the body stays mounted while the next response is awaited.
RenderKeepsBody(p) ==
    LET q == [p EXCEPT !.responseType = IF p.result # None THEN @ ELSE "Body"]
    IN  [q EXCEPT !.body = IF q.result = None \/ q.responseType # "Body" THEN None
                           ELSE IF @ = None THEN FreshBody ELSE @]

Render(p) ==
    LET q == [p EXCEPT !.responseType = IF Responds(p) THEN @ ELSE "Body"]
    IN  [q EXCEPT !.body = IF ~Responds(q) \/ q.responseType # "Body" THEN None
                           ELSE IF @ = None THEN FreshBody ELSE @]
Become(p) == px' = Render(p)

\* RequestHeaders is mounted on the tab of the headers only; it forgets newName, the form keeps the rows.
SetRequestType(p, type) == [p EXCEPT !.requestType = type, !.newName = IF type = "Body" THEN None ELSE @]

\* handleResetTab: resetFields brings back the initial value of every field
ResetTab(p) == [SetRequestType(p, "Body") EXCEPT !.result = None, !.rows = 1]

ProxyInit ==
    /\ \E pod \in Pods :
        px = [pod |-> pod, requestType |-> "Body", rows |-> 1, newName |-> None, loading |-> FALSE,
              waits |-> 0, sent |-> 0, calls |-> {}, result |-> None, responseType |-> "Body", body |-> None]
    /\ overlap = FALSE /\ regrown = FALSE

-----------------------------------------------------------------------------
(* The request.                                                              *)

ChangePod(pod) ==
    /\ pod # px.pod
    /\ Become(ResetTab([px EXCEPT !.pod = pod]))
    /\ regrown' = FALSE
    /\ UNCHANGED overlap

ChangeRequestType(type) ==
    /\ type # px.requestType
    /\ Become(SetRequestType(px, type))
    /\ UNCHANGED <<overlap, regrown>>

\* handleChange: typing in the newest row adds one below it
TypeHeader(name) ==
    /\ px.requestType = "Headers" /\ name < px.rows /\ px.rows < MaxRows
    /\ Become(IF px.newName = None THEN [px EXCEPT !.rows = @ + 1, !.newName = px.rows]
              ELSE IF px.newName = name THEN [px EXCEPT !.rows = @ + 1, !.newName = @ + 1]
              ELSE px)
    /\ UNCHANGED <<overlap, regrown>>

\* Mutant: the link is there for the only row.
DeleteHeaderAlways ==
    /\ px.requestType = "Headers"
    /\ Become([px EXCEPT !.rows = @ - 1, !.newName = IF @ = None THEN 0 ELSE @ - 1])
    /\ regrown' = (regrown \/ px.newName = None)
    /\ UNCHANGED overlap

\* Mutant: handleDelete forgets newName.
DeleteHeaderOnly ==
    /\ px.requestType = "Headers" /\ px.rows > 1
    /\ Become([px EXCEPT !.rows = @ - 1])
    /\ UNCHANGED <<overlap, regrown>>

\* RequestHeaders shows the link when there are two rows.
CanDeleteHeader == px.requestType = "Headers" /\ px.rows > 1

\* handleDelete
DeleteHeader ==
    /\ CanDeleteHeader
    /\ Become([px EXCEPT !.rows = @ - 1, !.newName = IF @ = None THEN 0 ELSE @ - 1])
    /\ regrown' = (regrown \/ px.newName = None)
    /\ UNCHANGED overlap

\* handleFinishForm; urlBefore is never empty
Send ==
    LET call == [pod |-> px.pod, n |-> px.sent + 1] IN
    /\ px.sent < MaxSends
    /\ Become([px EXCEPT !.loading = TRUE, !.sent = @ + 1, !.calls = @ \cup {call}])
    /\ overlap' = (overlap \/ px.calls # {} \/ px.waits > 0)
    /\ UNCHANGED regrown

-----------------------------------------------------------------------------
(* The response.                                                             *)

\* .then with code 0, and .finally, which starts a timer
ResponseArrives(call) ==
    /\ Become([px EXCEPT !.calls = @ \ {call}, !.waits = @ + 1, !.result = call])
    /\ UNCHANGED <<overlap, regrown>>

RequestFails(call) ==
    /\ Become([px EXCEPT !.calls = @ \ {call}, !.waits = @ + 1])
    /\ UNCHANGED <<overlap, regrown>>

\* INIT_MONACO_WAIT is over
EndLoading ==
    /\ px.waits > 0
    /\ Become([px EXCEPT !.waits = @ - 1, !.loading = FALSE])
    /\ UNCHANGED <<overlap, regrown>>

ChangeResponseType(type) ==
    /\ Responds(px) /\ type # px.responseType
    /\ Become([px EXCEPT !.responseType = type])
    /\ UNCHANGED <<overlap, regrown>>

\* What ResponseBody shows: the formatted text of the type that is selected, else the body.
EditorValue ==
    IF /\ px.body.formatValue # None /\ px.body.bodyType = "pretty"
       /\ px.body.formatValue.prettyType = px.body.prettyType
    THEN px.body.formatValue.of ELSE px.result

\* getResponsePrettyType, whose test for XML compares with a list and never succeeds
PrettyOf(contentType) == IF contentType \in {"json", "html"} THEN contentType ELSE "plaintext"
\* onFormatDocument; the format button passes its event for a type and formats nothing
Formats(type) == type \in {"json", "html", "xml"}

\* handleMonacoMount: the editor exists in the modes pretty and raw; no Content-Type, nothing happens
MountEditor(contentType) ==
    LET pretty == PrettyOf(contentType) IN
    /\ px.body # None /\ ~px.body.editor /\ px.body.bodyType # "preview"
    /\ Become([px EXCEPT !.body =
           IF contentType = None THEN [@ EXCEPT !.editor = TRUE]
           ELSE [@ EXCEPT !.editor = TRUE, !.prettyType = pretty,
                          !.formatting = IF Formats(pretty) THEN pretty ELSE px.body.formatting]])
    /\ UNCHANGED <<overlap, regrown>>

\* formatDocument is done
FormatDone ==
    /\ px.body # None /\ px.body.editor /\ px.body.formatting # None
    /\ Become([px EXCEPT !.body.formatValue = [of |-> EditorValue, prettyType |-> px.body.formatting],
                         !.body.formatting = None])
    /\ UNCHANGED <<overlap, regrown>>

\* onChangeBodyType; the preview has no editor
ChangeBodyType(type) ==
    /\ px.body # None /\ type # px.body.bodyType
    /\ Become([px EXCEPT !.body.bodyType = type, !.body.editor = @ /\ type # "preview",
                         !.body.formatting = IF type = "preview" THEN None ELSE @])
    /\ UNCHANGED <<overlap, regrown>>

\* ResponseBodyOptions has the select in the mode pretty.
CanChangePretty == px.body # None /\ px.body.bodyType = "pretty"

\* onChangePrettyType
ChangePrettyType(type) ==
    /\ CanChangePretty /\ type # px.body.prettyType
    /\ Become([px EXCEPT !.body.prettyType = type])
    /\ UNCHANGED <<overlap, regrown>>

ProxyNext ==
    \/ \E pod \in Pods : ChangePod(pod)
    \/ \E type \in {"Headers", "Body"} : ChangeRequestType(type) \/ ChangeResponseType(type)
    \/ \E name \in 0..(MaxRows - 1) : TypeHeader(name)
    \/ DeleteHeader \/ Send \/ EndLoading \/ FormatDone
    \/ \E call \in px.calls : ResponseArrives(call) \/ RequestFails(call)
    \/ \E type \in Pretty \cup {None} : MountEditor(type)
    \/ \E type \in {"pretty", "raw", "preview"} : ChangeBodyType(type)
    \/ \E type \in Pretty : ChangePrettyType(type)

ProxySpec == ProxyInit /\ [][ProxyNext]_proxyVars

-----------------------------------------------------------------------------
(* Properties                                                                *)

\* The body that is shown, formatted or not, is that of the response above it, unless two
\* requests overlapped: formatValue outlives a response that replaces another without a
\* loading between them (ResponseBody.tsx:43).
BodyIsOfResult ==
    ~overlap /\ px.body # None => EditorValue = px.result

\* Typing in the last header adds a row: newName is that row or nothing, through deletions,
\* changes of tab and of pod, unless a header was deleted first after the tab was opened again
\* (RequestHeaders.tsx:29 takes the first row for the newest).
HeadersCanGrow ==
    ~regrown => px.newName \in {None, px.rows - 1}

\* Loading ends: a request or the timer after it is under way.
ProxySpinnerEnds == px.loading => px.calls # {} \/ px.waits > 0
=============================================================================
