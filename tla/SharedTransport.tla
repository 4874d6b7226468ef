--------------------------- MODULE SharedTransport ---------------------------
(***************************************************************************)
(* The server's end of the HTTP proxy (internal/service/proxy.go).  To learn *)
(* the headers of its response PODProxyHTTP wraps the transport of the       *)
(* client that all calls of a cluster manager share, and never takes the     *)
(* wrapper off: it reads the transport, wraps it and writes it back, without *)
(* a lock, and every response that passes a wrapper afterwards leaves its    *)
(* headers with the request the wrapper was made for.                        *)
(***************************************************************************)
EXTENDS Naturals, Sequences

CONSTANTS Requests,  \* requests to the proxy
          Others,    \* other calls to the cluster with the same client
          None

TransportAssumption == None \notin Requests \cup Others /\ Requests \cap Others = {}

VARIABLES chain,   \* the wrappers around the transport, outermost first
          header,  \* respHeader of every request: whose headers it holds
          call,    \* the calls: how far they are, the wrappers before them, their answer
          raced,   \* history: requests that wrapped the transport at the same time as another
          late     \* history: requests whose wrapper a response passed after their own

transportVars == <<chain, header, call, raced, late>>

Calls == Requests \cup Others

TransportTypeOK ==
    /\ \A i \in DOMAIN chain : chain[i] \in Requests
    /\ header \in [Requests -> Calls \cup {None}]
    /\ \A c \in Calls :
          /\ call[c].step \in {"new", "wrap", "do", "sent", "back", "failed", "done"}
          /\ \A i \in DOMAIN call[c].via : call[c].via[i] \in Requests
          /\ call[c].headers \in Calls \cup {None}
    /\ raced \subseteq Requests /\ late \subseteq Requests

TransportInit ==
    /\ chain = <<>>
    /\ header = [r \in Requests |-> None]
    /\ call = [c \in Calls |-> [step |-> "new", via |-> <<>>, headers |-> None]]
    /\ raced = {} /\ late = {}

\* Mutant: a transport that is wrapped is not wrapped again.
UnwrappedOnce(r) ==
    /\ r \in Requests /\ call[r].step = "new"
    /\ call' = [call EXCEPT ![r].step = IF chain = <<>> THEN "wrap" ELSE "do", ![r].via = chain]
    /\ UNCHANGED <<chain, header, raced, late>>

\* retrieveResponseHeader reads cli.Transport
Unwrapped(r) ==
    /\ r \in Requests /\ call[r].step = "new"
    /\ call' = [call EXCEPT ![r].step = "wrap", ![r].via = chain]
    /\ raced' = LET others == {q \in Requests : call[q].step = "wrap"}
                IN  IF others = {} THEN raced ELSE raced \cup others \cup {r}
    /\ UNCHANGED <<chain, header, late>>

\* and writes it.
Wrap(r) ==
    /\ call[r].step = "wrap"
    /\ chain' = <<r>> \o call[r].via
    /\ call' = [call EXCEPT ![r].step = "do", ![r].via = <<>>]
    /\ UNCHANGED <<header, raced, late>>

\* The request passes whatever transport the client has by then.
Do(c) ==
    /\ call[c].step = IF c \in Requests THEN "do" ELSE "new"
    /\ call' = [call EXCEPT ![c].step = "sent", ![c].via = chain]
    /\ UNCHANGED <<chain, header, raced, late>>

\* A response, or an error, which passes the wrappers without a trace.
Respond(c) ==
    /\ call[c].step = "sent"
    /\ \/ call' = [call EXCEPT ![c].step = "back"]
       \/ call' = [call EXCEPT ![c].step = "failed", ![c].via = <<>>]
    /\ UNCHANGED <<chain, header, raced, late>>

\* On its way back the response passes the wrappers from the innermost to the outermost.
RoundTrip(c) ==
    LET n == Len(call[c].via)
        r == call[c].via[n]
    IN  /\ call[c].step = "back" /\ n > 0
        /\ call' = [call EXCEPT ![c].via = SubSeq(@, 1, n - 1)]
        /\ header' = [header EXCEPT ![r] = c]
        /\ late' = IF c # r /\ header[r] = r THEN late \cup {r} ELSE late
        /\ UNCHANGED <<chain, raced>>

\* respHeader is read for the answer; an answer that says an error has none.
Answer(c) ==
    /\ call[c].step = "back" /\ call[c].via = <<>>
    /\ \/ call' = [call EXCEPT ![c].step = "done", ![c].headers = IF c \in Requests THEN header[c] ELSE c]
       \/ call' = [call EXCEPT ![c].step = "failed"]
    /\ UNCHANGED <<chain, header, raced, late>>

TransportNext ==
    \E c \in Calls : Unwrapped(c) \/ Wrap(c) \/ Do(c) \/ Respond(c) \/ RoundTrip(c) \/ Answer(c)

TransportSpec == TransportInit /\ [][TransportNext]_transportVars

-----------------------------------------------------------------------------
(* Properties                                                                *)

\* The headers a request is answered with are those of its own response, although the responses
\* of all calls are written to them (proxy.go:34), unless another response came after its own and
\* before they were read, or two requests wrapped the transport at the same time, which loses a
\* wrapper (proxy.go:39).
AnswersOwnHeaders ==
    \A r \in Requests : call[r].step = "done" /\ r \notin late \cup raced => call[r].headers = r
=============================================================================
