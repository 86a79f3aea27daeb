----------------------------- MODULE OAuthLogin -----------------------------
(***************************************************************************)
(* The browser login of auth/openai_codex_oauth.py: the local callback     *)
(* server, the prompt for a pasted code and the login signal race to       *)
(* settle one future, and the code that comes out is exchanged for a       *)
(* credential (auth/http_transport.py).  A code is abstracted to where it  *)
(* came from and to the state parameter that came with it.  Module Auth    *)
(* composes it with the device flow.                                       *)
(***************************************************************************)
EXTENDS Naturals, FiniteSets

CONSTANTS
    Conns,  \* connections to the callback server
    Idle,   \* may a connection stay open without ever sending a request?
    Cancels \* may the task that runs the login be cancelled?

VARIABLES
    main,         \* where _login() is; "off" when nobody logs in
    result,       \* what it raises or returns
    signal,       \* interaction.signal
    server,       \* "off", "listening", "unbound", "closing" or "closed"
    conn,         \* conn[c]: "none", "open", "answering" or "closed"
    future,       \* _CallbackServer._future: "open", "absent", "code" or "cancelled"
    watcher,      \* _watch_abort(): "off", "polling", "done" or "cancelled"
    manual,       \* run_manual_prompt(): "off", "prompting", "answered" or "raised"
    input,        \* what was pasted, parsed
    promptSignal, \* manual_controller.signal
    used          \* the code that was sent to the token endpoint

vars == <<main, result, signal, server, conn, future, watcher, manual, input, promptSignal, used>>

\* What parse_authorization_input() finds: is there a code, and which state?
ParsedInputs == [code : BOOLEAN, state : {"none", "match", "other"}]

NoInput == [code |-> FALSE, state |-> "none"]

InitAt(where) ==
    /\ main = where /\ result = "none" /\ signal \in BOOLEAN
    /\ server = "off" /\ conn = [c \in Conns |-> "none"] /\ future = "open"
    /\ watcher = "off" /\ manual = "off" /\ input = NoInput
    /\ promptSignal = FALSE /\ used = "none"

Init == InitAt("select")

\* _CallbackServer._settle(): only the first one counts.
Settle(value) == future' = IF future = "open" THEN value ELSE future

-----------------------------------------------------------------------------

\* _login(): the method prompt.
Select ==
    /\ main = "select"
    /\ \/ main' = "bind" /\ UNCHANGED result
       \/ main' = "done" /\ result' \in {"select_error", "unknown_method", "device_code"}
    /\ UNCHANGED <<signal, server, conn, future, watcher, manual, input, promptSignal, used>>

\* The server is bound or not, the watcher started, the URL announced; when
\* notify() raises the login is over there and then.
Bind ==
    /\ main = "bind"
    /\ server' \in {"listening", "unbound"}
    /\ future' = IF signal \/ server' = "unbound" THEN "absent" ELSE "open"
    /\ watcher' = "polling"
    /\ \/ main' = "wait" /\ manual' = "prompting" /\ UNCHANGED result
       \/ main' = "done" /\ result' = "notify_error" /\ UNCHANGED manual
    /\ UNCHANGED <<signal, conn, input, promptSignal, used>>

\* The finally clause, up to the wait for the server.
Finish(outcome) ==
    /\ main' = "closing" /\ result' = outcome
    /\ watcher' = IF watcher = "polling" THEN "cancelled" ELSE watcher
    /\ promptSignal' = TRUE
    /\ server' = IF server = "listening" THEN "closing" ELSE server

\* A code goes to the token endpoint; run_cancellable() looks at the signal first.
Exchange(from) ==
    IF signal THEN used' = used /\ Finish("cancelled")
    ELSE /\ used' = from /\ main' = "request"
         /\ UNCHANGED <<result, watcher, promptSignal, server>>

\* The pasted input is used: another state than that of this login is refused.
UseInput ==
    IF input.state = "other" THEN Finish("mismatch") /\ UNCHANGED used
    ELSE IF input.code THEN Exchange("manual")
    ELSE Finish("missing") /\ UNCHANGED used

\* Mutant: what was pasted goes before what the callback brought.
WaitEndsManualFirst ==
    /\ main = "wait" /\ future \in {"absent", "code"}
    /\ IF manual = "raised" THEN Finish("prompt_error") /\ UNCHANGED used
       ELSE IF input.code \/ input.state = "other" THEN UseInput
       ELSE IF future = "code" THEN Exchange("callback")
       ELSE main' = "manual" /\ UNCHANGED <<result, watcher, promptSignal, server, used>>
    /\ UNCHANGED <<signal, conn, future, manual, input>>

\* The future is settled.
WaitEnds ==
    /\ main = "wait" /\ future \in {"absent", "code"}
    /\ IF manual = "raised" THEN Finish("prompt_error") /\ UNCHANGED used
       ELSE IF future = "code" THEN Exchange("callback")
       ELSE IF input.code \/ input.state = "other" THEN UseInput
       ELSE main' = "manual" /\ UNCHANGED <<result, watcher, promptSignal, server, used>>
    /\ UNCHANGED <<signal, conn, future, manual, input>>

\* Without a code the login waits for the prompt.
ManualEnds ==
    /\ main = "manual" /\ manual \in {"answered", "raised"}
    /\ IF manual = "raised" THEN Finish("prompt_error") /\ UNCHANGED used ELSE UseInput
    /\ UNCHANGED <<signal, conn, future, manual, input>>

\* POST: a failure while the signal is aborted is "Login cancelled".
RequestEnds ==
    /\ main = "request"
    /\ \/ main' = "body" /\ UNCHANGED <<result, watcher, promptSignal, server>>
       \/ Finish(IF signal THEN "cancelled" ELSE "request_error")
    /\ UNCHANGED <<signal, conn, future, manual, input, used>>

\* The body is read and checked, outside of that translation.
BodyEnds ==
    /\ main = "body"
    /\ \/ Finish("credential") \/ Finish("token_error")
       \/ signal /\ Finish("body_cancelled")
    /\ UNCHANGED <<signal, conn, future, manual, input, used>>

\* Mutant: close() does not allow for a server that was never bound.
CloseEndsBound ==
    /\ main = "closing"
    /\ server = "closing" /\ \A c \in Conns : conn[c] \notin {"open", "answering"}
    /\ main' = "done"
    /\ server' = "closed"
    /\ UNCHANGED <<result, signal, conn, future, watcher, manual, input, promptSignal, used>>

\* Server.wait_closed() waits for the connections that are still served.
CloseEnds ==
    /\ main = "closing"
    /\ server = "unbound" \/ \A c \in Conns : conn[c] \notin {"open", "answering"}
    /\ main' = "done"
    /\ server' = "closed"
    /\ UNCHANGED <<result, signal, conn, future, watcher, manual, input, promptSignal, used>>

\* The login task is cancelled at one of its awaits; what it awaits is cancelled
\* with it.
CancelLogin ==
    /\ Cancels
    /\ \/ /\ main \in {"wait", "manual", "request", "body"}
          /\ Finish("task_cancelled")
          /\ future' = IF main = "wait" /\ future = "open" THEN "cancelled" ELSE future
          /\ manual' = IF main = "manual" /\ manual = "prompting" THEN "raised" ELSE manual
       \/ /\ main = "closing"
          /\ main' = "done" /\ result' = "task_cancelled"
          /\ server' = IF server = "unbound" THEN server ELSE "closed"
          /\ UNCHANGED <<future, manual, watcher, promptSignal>>
    /\ UNCHANGED <<signal, conn, input, used>>

-----------------------------------------------------------------------------

WatcherFires ==
    /\ watcher = "polling" /\ signal
    /\ watcher' = "done"
    /\ Settle("absent")
    /\ UNCHANGED <<main, result, signal, server, conn, manual, input, promptSignal, used>>

\* The user pastes something, or the prompt raises: aborted with the login or by
\* its own signal, or for reasons of its own.
PromptEnds ==
    /\ manual = "prompting"
    /\ \/ manual' = "answered" /\ input' \in ParsedInputs
       \/ manual' = "raised" /\ UNCHANGED input
    /\ Settle("absent")
    /\ UNCHANGED <<main, result, signal, server, conn, watcher, promptSignal, used>>

Connect(c) ==
    /\ server = "listening" /\ conn[c] = "none"
    /\ conn' = [conn EXCEPT ![c] = "open"]
    /\ UNCHANGED <<main, result, signal, server, future, watcher, manual, input, promptSignal, used>>

\* A request is read: only one for the callback path with this login's state and
\* a code is a callback.
Request(c) ==
    /\ conn[c] = "open"
    /\ \E state \in {"match", "other"}, code \in BOOLEAN :
          conn' = [conn EXCEPT ![c] = IF state = "match" /\ code THEN "answering" ELSE "closed"]
    /\ UNCHANGED <<main, result, signal, server, future, watcher, manual, input, promptSignal, used>>

\* The page is written; after it has been drained the future is settled.
Answered(c) ==
    /\ conn[c] = "answering"
    /\ conn' = [conn EXCEPT ![c] = "closed"]
    /\ Settle("code") \/ UNCHANGED future
    /\ UNCHANGED <<main, result, signal, server, watcher, manual, input, promptSignal, used>>

Abort ==
    /\ ~signal
    /\ signal' = TRUE
    /\ UNCHANGED <<main, result, server, conn, future, watcher, manual, input, promptSignal, used>>

Next ==
    \/ Select \/ Bind \/ WaitEnds \/ ManualEnds \/ RequestEnds \/ BodyEnds \/ CloseEnds \/ CancelLogin
    \/ WatcherFires \/ PromptEnds \/ Abort
    \/ \E c \in Conns : Connect(c) \/ Request(c) \/ Answered(c)

Spec == Init /\ [][Next]_vars

\* The loop serves its tasks, requests end, and a prompt "raises/rejects on
\* cancel/abort".  Unless Idle, a client that has connected sends its request.
Fairness ==
    /\ WF_vars(Select) /\ WF_vars(Bind) /\ WF_vars(WaitEnds) /\ WF_vars(ManualEnds)
    /\ WF_vars(RequestEnds) /\ WF_vars(BodyEnds) /\ WF_vars(CloseEnds) /\ WF_vars(WatcherFires)
    /\ WF_vars((signal \/ promptSignal) /\ PromptEnds)
    /\ \A c \in Conns : WF_vars(Answered(c)) /\ WF_vars(~Idle /\ Request(c))

-----------------------------------------------------------------------------

TypeOK ==
    /\ main \in {"off", "select", "bind", "wait", "manual", "request", "body", "closing", "done"}
    /\ signal \in BOOLEAN /\ promptSignal \in BOOLEAN
    /\ server \in {"off", "listening", "unbound", "closing", "closed"}
    /\ conn \in [Conns -> {"none", "open", "answering", "closed"}]
    /\ future \in {"open", "absent", "code", "cancelled"}
    /\ watcher \in {"off", "polling", "done", "cancelled"}
    /\ manual \in {"off", "prompting", "answered", "raised"}
    /\ input \in ParsedInputs
    /\ used \in {"none", "callback", "manual"}

\* The code that is exchanged is this login's: the callback's when it was first
\* to settle the future, otherwise one that was pasted and carried no other
\* state; and a credential comes from no other way.
RightCode ==
    /\ used = "callback" <=> future = "code" /\ used # "none"
    /\ used = "manual" => input.code /\ input.state # "other"
    /\ result = "credential" => used # "none"

\* Nothing of the login is left once it is over: the port is free, nobody polls
\* the signal and the prompt was told, except after a failed notification.
CleanedUp ==
    main = "done" /\ result \notin {"select_error", "unknown_method", "device_code", "notify_error"}
        => /\ server \notin {"listening", "closing"}
           /\ watcher # "polling"
           /\ promptSignal

=============================================================================
