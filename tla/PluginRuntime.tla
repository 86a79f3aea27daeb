--------------------------- MODULE PluginRuntime ---------------------------
(***************************************************************************)
(* The plugin registry (runtime/registry.py), the service registry         *)
(* (runtime/service.py) and the parts of the context that change them      *)
(* (runtime/context.py).  Each task has the stack of what it awaits: a     *)
(* reconcile, a plugin body, or the unwinding of a fiber, whose services    *)
(* each reconcile again when they are revoked.  Only bodies and disposers  *)
(* suspend, so a task whose innermost call is a reconcile is not           *)
(* interrupted.  Operations that overlap on ONE fiber are in module Fiber. *)
(***************************************************************************)
EXTENDS Naturals, FiniteSets, SequencesExt

CONSTANTS
    Tasks,         \* the tasks that call plugin(), unmount() and service handles
    Fibers,        \* the fibers that may be mounted, each once
    Services,      \* service names
    Inject,        \* Inject[f]: the services the plugin of f declares
    Provides,      \* Provides[f]: the services its body may provide
    None,          \* no registration
    MaxPasses,     \* registry._MAX_PASSES
    DisposersFail, \* may a disposer raise?
    LateProvides,  \* may a plugin provide a service after its body returned?
    Withdraws      \* are the handles provide() returns called?

VARIABLES
    fibers,    \* PluginRegistry._fibers
    state,     \* Fiber._state
    provided,  \* provided[f]: the services among the disposables of f, in order
    impls,     \* ServiceRegistry._impls: the owner of each service
    stack,     \* stack[t]: what task t awaits, innermost last
    gaveUp     \* has a reconcile raised for lack of passes?

vars == <<fibers, state, provided, impls, stack, gaveUp>>

\* A reconcile about to begin its first pass.
Reconcile == [op |-> "reconcile", phase |-> "load", left |-> <<>>, changed |-> TRUE, pass |-> 0]

Body(f) == [op |-> "body", f |-> f]

\* dispose_all() of f, then the state of its finally clause.
Unwind(f, final) == [op |-> "unwind", f |-> f, final |-> final, failed |-> FALSE]

Init ==
    /\ fibers = <<>>
    /\ state = [f \in Fibers |-> "pending"]
    /\ provided = [f \in Fibers |-> <<>>]
    /\ impls = [s \in Services |-> None]
    /\ stack = [t \in Tasks |-> <<>>]
    /\ gaveUp = FALSE

\* A service resolves while its owner is ACTIVE.
Visible(s) == impls[s] # None /\ state[impls[s]] = "active"

Satisfied(f) == \A s \in Inject[f] : Visible(s)

In(t, op) == stack[t] # <<>> /\ Last(stack[t]).op = op

\* The others are suspended.
MayRun(t) == \A u \in Tasks \ {t} : ~In(u, "reconcile")

\* Application code: a task of its own, or a plugin body.
MayCall(t) == MayRun(t) /\ (stack[t] = <<>> \/ In(t, "body"))

\* An exception leaves the calls of a stack: dispose_all() records it and goes
\* on, a plugin body fails, a reconcile is abandoned.
Raised(calls) ==
    LET catches == {i \in DOMAIN calls : calls[i].op # "reconcile"}
        i == CHOOSE n \in catches : \A k \in catches : k <= n
    IN  IF catches = {} THEN <<>>
        ELSE IF calls[i].op = "unwind" THEN [SubSeq(calls, 1, i) EXCEPT ![i].failed = TRUE]
        ELSE Append(SubSeq(calls, 1, i - 1), Unwind(calls[i].f, "failed"))

-----------------------------------------------------------------------------
(* PluginRegistry *)

\* Context.plugin(): mount(), then reconcile().
Mount(t, f) ==
    /\ MayCall(t)
    /\ state[f] = "pending" /\ ~Contains(fibers, f)
    /\ fibers' = Append(fibers, f)
    /\ stack' = [stack EXCEPT ![t] = Append(@, Reconcile)]
    /\ UNCHANGED <<state, provided, impls, gaveUp>>

\* unmount(): dispose() unwinds a fiber that serves; then reconcile().
Unmount(t, f) ==
    /\ MayCall(t)
    /\ Contains(fibers, f) /\ state[f] \in {"pending", "active", "failed"}
    /\ fibers' = Remove(fibers, f)
    /\ IF state[f] = "active"
       THEN /\ state' = [state EXCEPT ![f] = "unloading"]
            /\ stack' = [stack EXCEPT ![t] = @ \o <<Reconcile, Unwind(f, "disposed")>>]
       ELSE /\ state' = [state EXCEPT ![f] = "disposed"]
            /\ stack' = [stack EXCEPT ![t] = Append(@, Reconcile)]
    /\ UNCHANGED <<provided, impls, gaveUp>>

\* What reconcile() does with a fiber in each half of a pass.
Due(f, phase) ==
    \/ phase = "unload" /\ state[f] = "active" /\ ~Satisfied(f)
    \/ phase = "load" /\ state[f] = "pending" /\ Satisfied(f)

\* Mutant: loading a fiber does not count as a change.
ScanUncounted(t) ==
    /\ MayRun(t) /\ In(t, "reconcile")
    /\ LET call == Last(stack[t])
           due == {i \in DOMAIN call.left : Due(call.left[i], call.phase)}
           i == CHOOSE n \in due : \A k \in due : n <= k
           f == call.left[i]
           rest == [call EXCEPT !.left = SubSeq(@, i + 1, Len(@))]
       IN  /\ due # {}
           /\ state' = [state EXCEPT ![f] = IF @ = "active" THEN "unloading" ELSE "loading"]
           /\ stack' = [stack EXCEPT ![t] = Front(@) \o
                  <<rest, IF call.phase = "unload" THEN Unwind(f, "pending") ELSE Body(f)>>]
    /\ UNCHANGED <<fibers, provided, impls, gaveUp>>

\* The next fiber of the half pass that is due is unloaded or loaded.
Scan(t) ==
    /\ MayRun(t) /\ In(t, "reconcile")
    /\ LET call == Last(stack[t])
           due == {i \in DOMAIN call.left : Due(call.left[i], call.phase)}
           i == CHOOSE n \in due : \A k \in due : n <= k
           f == call.left[i]
           rest == [call EXCEPT !.left = SubSeq(@, i + 1, Len(@)), !.changed = TRUE]
       IN  /\ due # {}
           /\ state' = [state EXCEPT ![f] = IF @ = "active" THEN "unloading" ELSE "loading"]
           /\ stack' = [stack EXCEPT ![t] = Front(@) \o
                  <<rest, IF call.phase = "unload" THEN Unwind(f, "pending") ELSE Body(f)>>]
    /\ UNCHANGED <<fibers, provided, impls, gaveUp>>

\* Nothing more is due in this half pass.
HalfPassEnds(t) ==
    /\ MayRun(t) /\ In(t, "reconcile")
    /\ LET call == Last(stack[t])
           again == call.changed /\ call.pass < MaxPasses
       IN  /\ \A i \in DOMAIN call.left : ~Due(call.left[i], call.phase)
           /\ stack' = [stack EXCEPT ![t] =
                IF call.phase = "unload"
                THEN Append(Front(@), [call EXCEPT !.phase = "load", !.left = fibers])
                ELSE IF again
                THEN Append(Front(@), [call EXCEPT !.phase = "unload", !.left = fibers,
                                                   !.changed = FALSE, !.pass = @ + 1])
                ELSE IF call.changed THEN Raised(Front(@)) ELSE Front(@)]
           /\ gaveUp' = (gaveUp \/ (call.phase = "load" /\ call.changed /\ ~again))
    /\ UNCHANGED <<fibers, state, provided, impls>>

-----------------------------------------------------------------------------
(* Fiber.load() and _unwind(), the services of a fiber *)

\* The body provides a service; a name that is taken makes the body raise.
BodyProvides(t, s) ==
    /\ MayRun(t) /\ In(t, "body")
    /\ LET f == Last(stack[t]).f
       IN  /\ s \in Provides[f] /\ ~Contains(provided[f], s)
           /\ IF impls[s] = None
              THEN /\ impls' = [impls EXCEPT ![s] = f]
                   /\ provided' = [provided EXCEPT ![f] = Append(@, s)]
                   /\ UNCHANGED stack
              ELSE /\ stack' = [stack EXCEPT ![t] = Raised(@)]
                   /\ UNCHANGED <<impls, provided>>
    /\ UNCHANGED <<fibers, state, gaveUp>>

BodyRaises(t) ==
    /\ MayRun(t) /\ In(t, "body")
    /\ stack' = [stack EXCEPT ![t] = Raised(@)]
    /\ UNCHANGED <<fibers, state, provided, impls, gaveUp>>

\* The body returned: the fiber commits if its dependencies are still there.
BodyReturns(t) ==
    /\ MayRun(t) /\ In(t, "body")
    /\ LET f == Last(stack[t]).f
       IN  IF Satisfied(f)
           THEN /\ state' = [state EXCEPT ![f] = "active"]
                /\ stack' = [stack EXCEPT ![t] = Front(@)]
           ELSE /\ stack' = [stack EXCEPT ![t] = Append(Front(@), Unwind(f, "pending"))]
                /\ UNCHANGED state
    /\ UNCHANGED <<fibers, provided, impls, gaveUp>>

\* Service s of f is revoked and what depended on it is reconciled.
Revoke(t, f, s) ==
    /\ provided' = [provided EXCEPT ![f] = Remove(@, s)]
    /\ impls' = [impls EXCEPT ![s] = IF @ = f THEN None ELSE @]
    /\ stack' = [stack EXCEPT ![t] = Append(@, Reconcile)]

\* dispose_all(): the last registration of the fiber that is left.
UnwindStep(t) ==
    /\ MayRun(t) /\ In(t, "unwind")
    /\ LET f == Last(stack[t]).f
       IN  provided[f] # <<>> /\ Revoke(t, f, Last(provided[f]))
    /\ UNCHANGED <<fibers, state, gaveUp>>

\* The fiber settles; failures of its disposers are raised after that.
UnwindEnds(t) ==
    /\ MayRun(t) /\ In(t, "unwind")
    /\ LET call == Last(stack[t])
       IN  /\ provided[call.f] = <<>>
           /\ state' = [state EXCEPT ![call.f] = call.final]
           /\ \/ ~call.failed /\ stack' = [stack EXCEPT ![t] = Front(@)]
              \/ (call.failed \/ DisposersFail) /\ stack' = [stack EXCEPT ![t] = Raised(Front(@))]
    /\ UNCHANGED <<fibers, provided, impls, gaveUp>>

\* An ACTIVE plugin provides a service.
LateProvide(t, f, s) ==
    /\ LateProvides
    /\ MayCall(t)
    /\ state[f] = "active" /\ s \in Provides[f] /\ impls[s] = None
    /\ impls' = [impls EXCEPT ![s] = f]
    /\ provided' = [provided EXCEPT ![f] = Append(@, s)]
    /\ UNCHANGED <<fibers, state, stack, gaveUp>>

\* The handle provide() returned is called.
Withdraw(t, f, s) ==
    /\ Withdraws
    /\ MayCall(t)
    /\ state[f] = "active" /\ Contains(provided[f], s)
    /\ Revoke(t, f, s)
    /\ UNCHANGED <<fibers, state, gaveUp>>

Step(t) ==
    \/ Scan(t) \/ HalfPassEnds(t)
    \/ (\E s \in Services : BodyProvides(t, s)) \/ BodyRaises(t) \/ BodyReturns(t)
    \/ UnwindStep(t) \/ UnwindEnds(t)

Next ==
    \E t \in Tasks :
        \/ Step(t)
        \/ \E f \in Fibers :
             \/ Mount(t, f) \/ Unmount(t, f)
             \/ \E s \in Services : LateProvide(t, f, s) \/ Withdraw(t, f, s)

Spec == Init /\ [][Next]_vars

-----------------------------------------------------------------------------

TypeOK ==
    /\ fibers \in Seq(Fibers) /\ IsInjective(fibers)
    /\ state \in [Fibers -> {"pending", "loading", "active", "failed", "unloading", "disposed"}]
    /\ provided \in [Fibers -> Seq(Services)]
    /\ impls \in [Services -> Fibers \cup {None}]
    /\ \A t \in Tasks : \A i \in DOMAIN stack[t] :
          stack[t][i].op = "reconcile" => stack[t][i].left \in Seq(Fibers) /\ stack[t][i].pass \in 0..MaxPasses
    /\ gaveUp \in BOOLEAN

AtRest == \A t \in Tasks : stack[t] = <<>>

\* "Reconciliation ... keeps their load state consistent": whenever no operation
\* is under way a mounted fiber is ACTIVE exactly if all it injects is visible,
\* or it has failed.
Consistent ==
    AtRest => \A f \in ToSet(fibers) :
        \/ state[f] = "failed"
        \/ state[f] = IF Satisfied(f) THEN "active" ELSE "pending"

\* Exclusive registration and its ownership: a name is held by the fiber among
\* whose disposables its revocation is, and that fiber is live or being unwound.
\* So no conflict, failed body or abandoned reconcile leaves a name taken.
RegistrationOwned ==
    \A f \in Fibers, s \in Services :
        /\ impls[s] = f <=> Contains(provided[f], s)
        /\ impls[s] = f => state[f] \in {"loading", "active", "unloading"}

\* The passes suffice: a reconcile gives up only for "a cycle in plugin
\* dependencies", and the plugins of this model have none.
Stabilizes == ~gaveUp

=============================================================================
