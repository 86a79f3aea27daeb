------------------------------ MODULE EventBus ------------------------------
(***************************************************************************)
(* One event of the bus (runtime/events.py), dispatched in its declared    *)
(* mode by several tasks while its listeners come and go, and the result   *)
(* chain of tools/post-execute (_finalize() of tools/execute.py) when the  *)
(* mode is waterfall.  The arguments of a dispatch are its payload, which  *)
(* listeners share and may spoil, and for a waterfall the result handed on *)
(* with the identity no listener may change.  An emit runs without a       *)
(* pause, but its listeners may call the bus themselves.                   *)
(***************************************************************************)
EXTENDS Naturals, Sequences, FiniteSets, SequencesExt

CONSTANTS
    Listeners,   \* the registrations, each made once
    Tag,         \* the scope each is tagged with, or NoScope
    Above,       \* the parent of each scope, or NoScope
    NoScope,
    Dispatches   \* the dispatches

VARIABLES
    mode,        \* the mode it was declared with
    listeners,   \* _listeners: in the order they are called
    disposed,    \* registrations that were disposed
    dispatch,    \* each dispatch: where it is
    seen         \* auxiliary: what each listener called by it was given, in order

vars == <<mode, listeners, disposed, dispatch, seen>>

Scopes == DOMAIN Above \cup {NoScope}

\* ScopeKey.chain(): the key and its ancestors.
Chain[k \in Scopes] == IF k = NoScope THEN <<>> ELSE <<k>> \o Chain[Above[k]]

Genuine == "genuine"
Given == [payload |-> "prepared", identity |-> Genuine, by |-> {}]
Idle == [stage |-> "idle", scope |-> NoScope, registered |-> <<>>,
         callbacks |-> <<>>,   \* those to call
         called |-> 0,         \* the last one called; in a waterfall the innermost that is not left
         active |-> {}, failed |-> {},
         due |-> TRUE,         \* waterfall: is the next one about to be called,
         used |-> {},          \* who has called next, the arguments of each frame,
         args |-> <<>>, result |-> Given, error |-> FALSE]   \* and what came out of it

Init ==
    /\ mode \in {"emit", "parallel", "serial", "waterfall"}
    /\ listeners = <<>> /\ disposed = {}
    /\ dispatch = [d \in Dispatches |-> Idle]
    /\ seen = [d \in Dispatches |-> <<>>]

-----------------------------------------------------------------------------
(* Listeners *)

\* EventBus.on()
On(l, prepend) ==
    /\ l \notin ToSet(listeners) \cup disposed
    /\ listeners' = IF prepend THEN <<l>> \o listeners ELSE Append(listeners, l)
    /\ UNCHANGED <<mode, disposed, dispatch, seen>>

\* The disposer of a registration.
Dispose(l) ==
    /\ l \in ToSet(listeners)
    /\ listeners' = SelectSeq(listeners, LAMBDA e : e # l)
    /\ disposed' = disposed \cup {l}
    /\ UNCHANGED <<mode, dispatch, seen>>

\* _admits()
Admits(tag, scope) == tag = NoScope \/ (scope # NoScope /\ tag \in ToSet(Chain[scope]))

\* _chain(): a list of its own.
ChainOf(scope) == SelectSeq(listeners, LAMBDA l : Admits(Tag[l], scope))

-----------------------------------------------------------------------------
(* Dispatching *)

\* A dispatch method is called: the admitted listeners are fixed.
Start(d, scope) ==
    /\ dispatch[d].stage = "idle"
    /\ dispatch' = [dispatch EXCEPT ![d] =
           [Idle EXCEPT !.stage = IF ChainOf(scope) = <<>> THEN "ended" ELSE "running", !.scope = scope,
                        !.callbacks = ChainOf(scope), !.args = <<Given>>, !.registered = listeners]]
    /\ UNCHANGED <<mode, listeners, disposed, seen>>

\* Mutant: the arguments are prepared by the first listener only.
PrepareOnce(r) == IF r.called = 0 THEN [r.args[1] EXCEPT !.payload = "prepared"] ELSE Last(r.args)

\* _prepare(): whatever an earlier listener did to the arguments is undone.
Prepare(r) == [Last(r.args) EXCEPT !.payload = "prepared"]

\* May the next listener be called?  In parallel each is, in a task of its own;
\* in order it waits for the one before; in a waterfall that one calls it.
Ready(r) ==
    /\ r.stage = "running" /\ r.called < Len(r.callbacks)
    /\ CASE mode = "parallel" -> TRUE [] mode = "waterfall" -> r.due [] OTHER -> r.active = {}

\* A listener is called, with the arguments of the moment; it may spoil the
\* shared payload at once.
Invoke(d) ==
    LET r == dispatch[d]
        given == Prepare(r)
    IN  /\ Ready(r)
        /\ \E after \in {"prepared", "spoilt"} :
               dispatch' = [dispatch EXCEPT ![d] =
                   [r EXCEPT !.called = @ + 1, !.active = @ \cup {r.called + 1}, !.due = FALSE,
                             !.args[Len(r.args)] = [given EXCEPT !.payload = after]]]
        /\ seen' = [seen EXCEPT ![d] = Append(@, [who |-> r.callbacks[r.called + 1], what |-> given])]
        /\ UNCHANGED <<mode, listeners, disposed>>

\* The innermost listener that runs; any in parallel.
Runs(r, i) == r.stage = "running" /\ i \in r.active /\ (mode = "parallel" \/ (i = r.called /\ ~r.due))

Over(r) ==
    IF r.active = {} /\ (mode \in {"emit", "parallel", "serial"} => r.called = Len(r.callbacks))
    THEN [r EXCEPT !.stage = "ended"] ELSE r

\* A listener returns.  Behind it the loop goes on.
Returns(d, i) ==
    LET r == dispatch[d]
    IN  /\ mode # "waterfall" /\ Runs(r, i)
        /\ dispatch' = [dispatch EXCEPT ![d] = Over([r EXCEPT !.active = @ \ {i}])]
        /\ UNCHANGED <<mode, listeners, disposed, seen>>

\* A listener raises: an emit or a serial dispatch ends there, a parallel one
\* collects the failures.
Raises(d, i) ==
    LET r == [dispatch[d] EXCEPT !.active = @ \ {i}, !.failed = @ \cup {i}]
    IN  /\ mode # "waterfall" /\ Runs(dispatch[d], i)
        /\ dispatch' = [dispatch EXCEPT ![d] =
               IF mode = "parallel" THEN Over(r) ELSE [r EXCEPT !.stage = "ended"]]
        /\ UNCHANGED <<mode, listeners, disposed, seen>>

-----------------------------------------------------------------------------
(* Around-middleware *)

\* _restore() of _finalize(): the identity and the signal are not a listener's.
normalize_step(args) == [args EXCEPT !.identity = Genuine]

\* A listener calls next, with arguments of its own or with none; past the last
\* one the terminal answers, the result as it is by then.
CallsNext(d, i) ==
    LET r == dispatch[d]
        mine == r.args[i]
        last == i = Len(r.callbacks)
    IN  /\ mode = "waterfall" /\ Runs(r, i) /\ i \notin r.used
        /\ \E forwarded \in {mine, [mine EXCEPT !.by = @ \cup {r.callbacks[i]}],
                             [mine EXCEPT !.by = @ \cup {r.callbacks[i]}, !.identity = "forged"]} :
               dispatch' = [dispatch EXCEPT ![d] =
                   [r EXCEPT !.used = @ \cup {i}, !.due = ~last,
                             !.args = IF last THEN @ ELSE Append(@, normalize_step(forwarded)),
                             !.result = IF last THEN normalize_step(forwarded) ELSE @]]
        /\ UNCHANGED <<mode, listeners, disposed, seen>>

\* What _finalize() makes of the chain's value: the identity again.
Finalized(value) == [value EXCEPT !.identity = Genuine]

\* The frame of listener i is left: the one before it goes on, or the dispatch
\* ends with the value.
Leaves(d, i, value, error) ==
    LET r == dispatch[d]
    IN  dispatch' = [dispatch EXCEPT ![d] =
            [r EXCEPT !.active = @ \ {i}, !.called = IF i = 1 THEN @ ELSE i - 1,
                      !.args = IF i = 1 THEN @ ELSE Front(@), !.error = error,
                      !.result = IF i = 1 THEN Finalized(value) ELSE value,
                      !.stage = IF i = 1 THEN "ended" ELSE @]]

\* A listener of the chain returns what next gave it, or a value of its own; it
\* raises, as when it calls next again, or lets an error from below through.
ReturnsNext(d, i) ==
    LET r == dispatch[d]
    IN  /\ mode = "waterfall" /\ Runs(r, i)
        /\ \/ i \in r.used /\ ~r.error /\ Leaves(d, i, r.result, FALSE)
           \/ Leaves(d, i, [Given EXCEPT !.by = {r.callbacks[i]}, !.identity = "forged"], FALSE)
           \/ Leaves(d, i, r.result, TRUE)
        /\ UNCHANGED <<mode, listeners, disposed, seen>>

-----------------------------------------------------------------------------

Step(d) == Invoke(d) \/ \E i \in 1..Cardinality(Listeners) :
               Returns(d, i) \/ Raises(d, i) \/ CallsNext(d, i) \/ ReturnsNext(d, i)

Next ==
    \/ \E l \in Listeners : Dispose(l) \/ \E prepend \in BOOLEAN : On(l, prepend)
    \/ \E d \in Dispatches : Step(d) \/ \E scope \in Scopes : Start(d, scope)

Spec == Init /\ [][Next]_vars

-----------------------------------------------------------------------------

TypeOK ==
    /\ ToSet(listeners) \subseteq Listeners \ disposed
    /\ \A d \in Dispatches :
           dispatch[d].stage \in {"idle", "running", "ended"} /\ dispatch[d].called <= Len(dispatch[d].callbacks)

\* Who hears a dispatch under `scope': untagged listeners, and those whose
\* scope is at or above it.
Hears(l, scope) ==
    \/ Tag[l] = NoScope
    \/ \E n \in 1..Cardinality(DOMAIN Above) : scope # NoScope /\ n <= Len(Chain[scope]) /\ Chain[scope][n] = Tag[l]

Called(d) == [i \in DOMAIN seen[d] |-> seen[d][i].who]
Audience(d) == SelectSeq(dispatch[d].registered, LAMBDA l : Hears(l, dispatch[d].scope))

\* A dispatch calls those who were registered and admitted when it began, each
\* once and in order, whoever comes or goes meanwhile; it stops early only for
\* a listener that failed or kept next to itself, and a parallel one never.
CallsItsAudience ==
    \A d \in Dispatches :
        /\ IsPrefix(Called(d), Audience(d))
        /\ dispatch[d].stage = "ended" /\ Called(d) # Audience(d) =>
               CASE mode \in {"emit", "serial"} -> dispatch[d].failed = {Len(Called(d))}
                 [] mode = "waterfall" -> Len(Called(d)) \notin dispatch[d].used
                 [] OTHER -> FALSE

\* No listener is given a payload another has spoilt, nor an identity another
\* has forged; and the result that comes out has the identity of the call, with
\* nothing in it from outside the audience.
ArgumentsGuarded ==
    \A d \in Dispatches :
        /\ \A i \in DOMAIN seen[d] :
               /\ seen[d][i].what.payload = "prepared" /\ seen[d][i].what.identity = Genuine
               /\ seen[d][i].what.by \subseteq ToSet(SubSeq(Called(d), 1, i - 1))
        /\ dispatch[d].stage = "ended" =>
               /\ dispatch[d].result.identity = Genuine \/ dispatch[d].error
               /\ dispatch[d].result.by \subseteq ToSet(Called(d))

=============================================================================
