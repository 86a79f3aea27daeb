--------------------------- MODULE HttpTransport ---------------------------
(***************************************************************************)
(* One outbound request of auth/ (auth/http_transport.py): post(), then    *)
(* text() or discard() of its response, by a caller that may be cancelled  *)
(* at any await, under a signal.  The client is one post() made itself or  *)
(* one it was given; closing anything may fail.                            *)
(***************************************************************************)
EXTENDS Naturals

VARIABLES
    phase,     \* where the call is
    wrapper,   \* "login" (fetch_with_login_cancellation) or "refresh" (refresh_fetch)
    owned,     \* did post() make the client?
    success,   \* is the status of the response 2xx?
    request,   \* the task that sends: "off", "running", "ended", "failed" or "cancelled"
    body,      \* the task that reads the body, likewise
    client,    \* how often the client was closed
    response,  \* "none", "open" or "closed"
    fate,      \* what is going to be reported
    outcome,   \* what was reported, "none" before
    abort      \* the signal

httpVars == <<phase, wrapper, owned, success, request, body, client, response, fate, outcome, abort>>

InitAt(where) ==
    /\ phase = where
    /\ wrapper \in {"login", "refresh"} /\ owned \in BOOLEAN /\ success \in BOOLEAN
    /\ request = "off" /\ body = "off" /\ client = 0 /\ response = "none"
    /\ fate = "none" /\ outcome = "none" /\ abort \in BOOLEAN

Init == InitAt("start")

-----------------------------------------------------------------------------

\* How a failure of post() leaves the wrapper: an abort by then makes it "Login
\* cancelled", a refresh wraps it; a cancellation passes through both.
Wrapped(failure) ==
    CASE failure = "cancelled" -> "cancelled"
      [] failure # "cancelled" /\ wrapper = "refresh" -> "refresh error"
      [] failure # "cancelled" /\ wrapper = "login" -> IF abort THEN "login cancelled" ELSE failure

\* run_cancellable() does not start a request whose signal has been aborted.
Post ==
    /\ phase = "start"
    /\ IF abort THEN phase' = "failing" /\ fate' = "aborted" /\ UNCHANGED request
       ELSE phase' = "sending" /\ request' = "running" /\ UNCHANGED fate
    /\ UNCHANGED <<wrapper, owned, success, body, client, response, outcome, abort>>

\* Status and headers have arrived: post() returns, whatever the signal says.
Sent ==
    /\ phase = "sending" /\ request = "ended"
    /\ phase' = "open"
    /\ UNCHANGED <<wrapper, owned, success, request, body, client, response, fate, outcome, abort>>

\* The request failed, or is cancelled (and waited for) since the signal was
\* aborted, or the caller is cancelled: then also if the request has just ended,
\* whose response nobody gets.
SendFails ==
    /\ phase = "sending"
    /\ phase' = "failing"
    /\ \/ request = "failed" /\ fate' = "failed" /\ UNCHANGED request
       \/ request = "running" /\ abort /\ fate' = "aborted" /\ request' = "cancelled"
       \/ fate' = "cancelled" /\ request' = IF request = "running" THEN "cancelled" ELSE request
    /\ UNCHANGED <<wrapper, owned, success, body, client, response, outcome, abort>>

\* The except clause of post(): its own client is closed, then the failure goes
\* on, even if closing failed.  Only a cancellation of the closing replaces it.
FailingCloses ==
    /\ phase = "failing"
    /\ phase' = "over"
    /\ client' = IF owned THEN client + 1 ELSE client
    /\ \/ outcome' = Wrapped(fate)
       \/ owned /\ outcome' = "cancelled"
    /\ UNCHANGED <<wrapper, owned, success, request, body, response, fate, abort>>

\* text(): the body is read under the signal.
Text ==
    /\ phase = "open"
    /\ IF abort THEN phase' = "closing" /\ fate' = "aborted" /\ UNCHANGED body
       ELSE phase' = "reading" /\ body' = "running" /\ UNCHANGED fate
    /\ UNCHANGED <<wrapper, owned, success, request, client, response, outcome, abort>>

\* discard(): a caller that does not want the body.
Discard ==
    /\ phase = "open"
    /\ phase' = "closing" /\ fate' = "discarded"
    /\ UNCHANGED <<wrapper, owned, success, request, body, client, response, outcome, abort>>

\* The body was read, or not: a failure is an empty body unless the status was
\* 2xx, but an abort or a cancellation never is.
ReadEnds ==
    /\ phase = "reading"
    /\ phase' = "closing"
    /\ \/ body = "ended" /\ fate' = "text" /\ UNCHANGED body
       \/ body = "failed" /\ fate' = (IF success THEN "failed" ELSE "empty") /\ UNCHANGED body
       \/ body = "running" /\ abort /\ fate' = "aborted" /\ body' = "cancelled"
       \/ fate' = "cancelled" /\ body' = IF body = "running" THEN "cancelled" ELSE body
    /\ UNCHANGED <<wrapper, owned, success, request, client, response, outcome, abort>>

\* close_resources(): the response, then in a finally clause the client it owns.
\* A failure of either is suppressed; a cancellation of the first is not, and
\* the client is closed all the same.
CloseResponse ==
    /\ phase = "closing"
    /\ response' = "closed" /\ phase' = "closing client"
    /\ fate' \in {fate, "cancelled"}
    /\ UNCHANGED <<wrapper, owned, success, request, body, client, outcome, abort>>

CloseClient ==
    /\ phase = "closing client"
    /\ phase' = "over"
    /\ client' = IF owned THEN client + 1 ELSE client
    /\ outcome' \in IF owned THEN {fate, "cancelled"} ELSE {fate}
    /\ UNCHANGED <<wrapper, owned, success, request, body, response, fate, abort>>

-----------------------------------------------------------------------------
(* The environment: the network and the signal. *)

RequestEnds ==
    /\ request = "running"
    /\ \/ request' = "ended" /\ response' = "open"
       \/ request' = "failed" /\ UNCHANGED response
    /\ UNCHANGED <<phase, wrapper, owned, success, body, client, fate, outcome, abort>>

BodyEnds ==
    /\ body = "running"
    /\ body' \in {"ended", "failed"}
    /\ UNCHANGED <<phase, wrapper, owned, success, request, client, response, fate, outcome, abort>>

Abort ==
    /\ ~abort /\ phase # "off"
    /\ abort' = TRUE
    /\ UNCHANGED <<phase, wrapper, owned, success, request, body, client, response, fate, outcome>>

Next ==
    \/ Post \/ Sent \/ SendFails \/ FailingCloses \/ Text \/ Discard \/ ReadEnds \/ CloseResponse \/ CloseClient
    \/ RequestEnds \/ BodyEnds \/ Abort

\* The loop polls the signal and runs what can go on; the peer need not answer.
Fairness ==
    /\ WF_httpVars(Post) /\ WF_httpVars(Sent) /\ WF_httpVars(SendFails /\ (request = "failed" \/ abort))
    /\ WF_httpVars(FailingCloses) /\ WF_httpVars(Text \/ Discard)
    /\ WF_httpVars(ReadEnds /\ (body # "running" \/ abort))
    /\ WF_httpVars(CloseResponse) /\ WF_httpVars(CloseClient)

-----------------------------------------------------------------------------

HttpTypeOK ==
    /\ phase \in {"off", "start", "sending", "failing", "open", "reading", "closing", "closing client", "over"}
    /\ {request, body} \subseteq {"off", "running", "ended", "failed", "cancelled"}
    /\ client \in 0..1 /\ response \in {"none", "open", "closed"}

\* A call that is over has released what it held: no task runs, its own client
\* was closed once, with every connection it had, a client it was given never,
\* and then no response is open, but for one that came as the caller was being
\* cancelled.
ConnectionReleased ==
    /\ ~owned => client = 0
    /\ phase = "over" => /\ request # "running" /\ body # "running"
                         /\ owned => client = 1
                         /\ ~owned /\ response = "open" => fate = "cancelled" /\ body = "off"

\* What is reported is what happened: text only if the body was read to its end,
\* an empty body only for a failed read of an unsuccessful response, never for
\* an abort, "Login cancelled" only under an aborted signal, and nothing is sent
\* under a signal that was aborted before.
OutcomeTrue ==
    phase = "over" =>
        /\ outcome = "text" => request = "ended" /\ body = "ended"
        /\ outcome = "empty" => body = "failed" /\ ~success
        /\ outcome \in {"aborted", "login cancelled"} => abort
        /\ request = "off" => outcome \in {"login cancelled", "refresh error", "cancelled"}
        /\ outcome = "failed" => "failed" \in {request, body}

\* Under an aborted signal a call that has begun is over at last, although the
\* peer need not answer.
AbortedCallEnds == phase # "off" /\ abort ~> phase = "over"
=============================================================================
