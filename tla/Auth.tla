-------------------------------- MODULE Auth --------------------------------
(***************************************************************************)
(* The parts of auth/ that wait for others.  login() of                    *)
(* auth/openai_codex_oauth.py as a whole: the browser flow (OAuthLogin),   *)
(* which when the user chooses so hands over to the device flow            *)
(* (DevicePoll); both obey the one signal of the application.  Beside it,  *)
(* for model checking, two concurrent calls of the credential store and    *)
(* one outbound request: they share no state, so a behaviour exercises the *)
(* one `part` names, and the others are at rest.                           *)
(***************************************************************************)
EXTENDS Integers

CONSTANTS
    Conns, Idle, Cancels,                  \* see OAuthLogin
    Milli, Minimum, Increment, Intervals,  \* see DevicePoll
    Expiries, Slice, MaxDelay, MaxSlow,
    None                                   \* see CredentialStore

ASSUME LoginAssumption ==
    /\ Idle \in BOOLEAN /\ Cancels \in BOOLEAN
    /\ {Milli, Minimum, Increment, Slice} \subseteq Nat \ {0}
    /\ Minimum % Milli = 0 /\ Increment % Milli = 0  \* both are whole seconds
    /\ Intervals \subseteq Nat /\ Expiries \subseteq Nat
    /\ MaxDelay \in Nat /\ MaxSlow \in Nat

VARIABLES
    signal,                                             \* interaction.signal
    main, result, server, conn, future, watcher,        \* see OAuthLogin
    manual, input, promptSignal, used,
    poll, answer,                                       \* pc and result of DevicePoll
    now, deadline, interval, left, slow, begun, ended   \* see DevicePoll

browserVars == <<main, result, server, conn, future, watcher, manual, input, promptSignal, used>>
deviceVars == <<poll, answer, now, deadline, interval, left, slow, begun, ended>>
vars == <<signal, browserVars, deviceVars>>

Browser == INSTANCE OAuthLogin
Device == INSTANCE DevicePoll WITH pc <- poll, result <- answer

InitAt(where) == Browser!InitAt(where) /\ Device!Init

Init == InitAt("select")

\* The user has chosen the device flow.
HandedOver == main = "done" /\ result = "device_code"

Next ==
    \/ Browser!Next /\ UNCHANGED deviceVars
    \/ HandedOver /\ Device!Next /\ UNCHANGED browserVars

\* What OAuthLogin says, and in the device flow requests end and sleeps are over.
Fairness == Browser!Fairness /\ WF_(Device!vars)(HandedOver /\ Device!Step)

Spec == Init /\ [][Next]_vars /\ Fairness

-----------------------------------------------------------------------------

\* The code that is exchanged is this login's: the callback's when it was first
\* to settle the future, otherwise one that was pasted and carried no other
\* state; and nothing of a login is left once it is over: the port is free,
\* nobody polls the signal and the prompt was told.
LoginSafe ==
    /\ Browser!TypeOK /\ Browser!RightCode /\ Browser!CleanedUp
    /\ Device!TypeOK

\* RFC 8628: a poll begins no sooner than the interval after the last one
\* ended, slow_down included, the millisecond before the deadline excepted; and
\* at most one poll is made after the login was aborted, the one under way.
PolitePolls == Device!PolitePolls /\ Device!AbortStopsPolling

\* The signal "cancels the WHOLE login flow": after an abort the login ends,
\* in whichever flow it is, provided that who connects sends a request; and a
\* device login ends without anybody's help, at its deadline at the latest.
LoginEnds ==
    /\ signal ~> main = "done" /\ (HandedOver => poll = "done")
    /\ HandedOver ~> poll = "done"

-----------------------------------------------------------------------------
(* The three side by side. *)

VARIABLES
    part,
    credential, expiring, issued, spent, chain, line, kind, callSignal, pc, tail,
    prev, snapshot, caller, cancelled, pruned,
    phase, wrapper, owned, success, request, body, client, response, fate, outcome, abort

requestVars == <<phase, wrapper, owned, success, request, body, client, response, fate, outcome, abort>>
storeVars == <<credential, expiring, issued, spent, chain, line, kind, callSignal, pc, tail,
               prev, snapshot, caller, cancelled, pruned>>

Store == INSTANCE CredentialStore WITH
    store <- credential, signal <- callSignal,
    Ops <- {"first", "second"}, Kinds <- {"refresh", "login"},
    Signals <- {"none", "live", "aborted"}, Cancels <- TRUE

Http == INSTANCE HttpTransport

MCInit ==
    /\ part \in {"login", "store", "http"}
    /\ IF part = "login" THEN Init ELSE InitAt("off") /\ ~signal
    /\ Store!Init /\ (part # "store" => credential = None /\ ~expiring)
    /\ IF part = "http" THEN Http!Init
       ELSE Http!InitAt("off") /\ wrapper = "login" /\ ~owned /\ ~success /\ ~abort

MCNext ==
    /\ UNCHANGED part
    /\ \/ part = "login" /\ Next /\ UNCHANGED <<storeVars, requestVars>>
       \/ part = "store" /\ Store!Next /\ UNCHANGED <<vars, requestVars>>
       \/ part = "http" /\ Http!Next /\ UNCHANGED <<vars, storeVars>>

MCSpec ==
    /\ MCInit /\ [][MCNext]_<<part, vars, storeVars, requestVars>>
    /\ Fairness /\ Store!Fairness /\ Http!Fairness

\* A login uses its own code and leaves nothing behind (see LoginSafe); an
\* outbound request releases its connection on every way out, and reports what
\* happened to it.
AuthSafe == LoginSafe /\ Http!HttpTypeOK /\ Http!ConnectionReleased /\ Http!OutcomeTrue

\* An abort ends a login and an outbound request, a device login ends when its
\* code expires, and every call of the credential store is answered and leaves
\* the chain, also when other calls are cancelled or give up.
AuthEnds == LoginEnds /\ Store!CallSettles /\ Http!AbortedCallEnds

=============================================================================
