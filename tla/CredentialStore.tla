-------------------------- MODULE CredentialStore --------------------------
(***************************************************************************)
(* The credentials of one provider in InMemoryCredentialStore              *)
(* (auth/store.py) under concurrent refresh_if_expiring() (auth/refresh.py)*)
(* login (modify) and logout (delete) calls.  Each call queues a task      *)
(* behind the tail of the chain; its caller waits for that task, giving up *)
(* when its signal is aborted.  A caller without a signal awaits the task  *)
(* itself, so cancelling it cancels whatever the task is waiting for.      *)
(***************************************************************************)
EXTENDS Naturals, Sequences, TLC

CONSTANTS
    Ops,      \* the calls, each made once
    Kinds,    \* what they do: "refresh", "login" or "logout"
    Signals,  \* the signals they come with: "none", "live" or "aborted"
    None,     \* no operation, no credential
    Cancels   \* may callers be cancelled while they wait?

ASSUME StoreAssumption ==
    /\ None \notin Ops /\ Cancels \in BOOLEAN
    /\ Kinds \subseteq {"refresh", "login", "logout"}
    /\ Signals \subseteq {"none", "live", "aborted"}

VARIABLES
    store,     \* _credentials.get(provider): a credential or None
    expiring,  \* is the stored credential within the validity window?
    issued,    \* how many credentials were ever issued
    chain,     \* _chains.get(provider): the operation whose tail it is, or None
    line,      \* the operations in the order they were queued
    kind,      \* what each call does
    signal,    \* its signal: "none", "live" or "aborted"
    pc,        \* its queued task; how it ended, once it has
    tail,      \* its tail task: "none", "pending", "done" or "cancelled"
    prev,      \* the operation whose tail it found in the chain
    snapshot,  \* the credential its callback was given
    caller,    \* its caller: waiting, or what the caller was told
    spent,     \* the credentials replaced by committed refreshes, in order
    cancelled, \* the callers that were cancelled
    pruned     \* the operations whose done callback has run

storeVars == <<store, expiring, issued, spent>>
callVars == <<kind, signal, prev, snapshot>>
vars == <<storeVars, callVars, chain, line, pc, tail, caller, cancelled, pruned>>

Credentials == [type : {"oauth", "api_key"}, gen : Nat]

Ended == {"value", "error", "aborted", "cancelled"}

IsOAuth(c) == c # None /\ c.type = "oauth"

\* _expires_soon() of the stored credential.
ExpiresSoon == IsOAuth(store) /\ expiring

Init ==
    /\ store \in {None, [type |-> "oauth", gen |-> 0]} /\ expiring \in BOOLEAN
    /\ issued = 0 /\ spent = <<>>
    /\ chain = None /\ line = <<>>
    /\ kind = [o \in Ops |-> "none"] /\ signal = [o \in Ops |-> "none"]
    /\ pc = [o \in Ops |-> "idle"] /\ tail = [o \in Ops |-> "none"]
    /\ prev = [o \in Ops |-> None] /\ snapshot = [o \in Ops |-> None]
    /\ caller = [o \in Ops |-> "idle"]
    /\ cancelled = {} /\ pruned = {}

-----------------------------------------------------------------------------

\* _enqueue() up to its await.
Enqueue(o) ==
    /\ pc' = [pc EXCEPT ![o] = "queued"]
    /\ tail' = [tail EXCEPT ![o] = "pending"]
    /\ prev' = [prev EXCEPT ![o] = chain]
    /\ chain' = o
    /\ line' = Append(line, o)

\* A call.  refresh_if_expiring() looks at the credential first and queues
\* nothing unless it expires soon; an aborted signal makes that read fail, but
\* does not keep modify() and delete() from queueing their task.
Begin(o) ==
    /\ caller[o] = "idle"
    /\ \E k \in Kinds, s \in Signals :
         /\ kind' = [kind EXCEPT ![o] = k]
         /\ signal' = [signal EXCEPT ![o] = s]
         /\ IF k = "refresh" /\ (s = "aborted" \/ ~ExpiresSoon)
            THEN /\ caller' = [caller EXCEPT ![o] = IF s = "aborted" THEN "aborted" ELSE "returned"]
                 /\ UNCHANGED <<pc, tail, prev, chain, line>>
            ELSE /\ Enqueue(o)
                 /\ caller' = [caller EXCEPT ![o] = IF s = "aborted" THEN "aborted" ELSE "waiting"]
    /\ UNCHANGED <<storeVars, snapshot, cancelled, pruned>>

\* The tail this task awaits is over.
TurnOf(o) == prev[o] # None => tail[prev[o]] = "done"

End(o, how) == pc' = [pc EXCEPT ![o] = how]

Commit(c) == store' = c /\ expiring' \in BOOLEAN

\* Mutant: the callback runs although its signal was aborted in the queue.
TaskIgnoresSignal(o) ==
    /\ pc[o] = "queued" /\ TurnOf(o)
    /\ IF kind[o] = "logout"
       THEN /\ End(o, "value") /\ store' = None /\ UNCHANGED <<expiring, snapshot>>
       ELSE /\ End(o, "running") /\ snapshot' = [snapshot EXCEPT ![o] = store] /\ UNCHANGED <<store, expiring>>
    /\ UNCHANGED <<issued, spent, kind, signal, prev, chain, line, tail, caller, cancelled, pruned>>

\* queued() after its turn has come: the abort check, then the removal, or the
\* callback with the current credential.  A refresh that finds nothing left to
\* do returns None and leaves the entry unchanged.
TaskRuns(o) ==
    /\ pc[o] = "queued" /\ TurnOf(o)
    /\ \/ /\ signal[o] = "aborted"
          /\ End(o, "aborted")
          /\ UNCHANGED <<store, snapshot>>
       \/ /\ signal[o] # "aborted" /\ kind[o] = "logout"
          /\ End(o, "value")
          /\ store' = None
          /\ UNCHANGED snapshot
       \/ /\ signal[o] # "aborted" /\ kind[o] # "logout"
          /\ snapshot' = [snapshot EXCEPT ![o] = store]
          /\ End(o, IF kind[o] = "refresh" /\ ~ExpiresSoon THEN "value" ELSE "running")
          /\ UNCHANGED store
    /\ UNCHANGED <<expiring, issued, spent, kind, signal, prev, chain, line, tail, caller, cancelled, pruned>>

\* A tail that was cancelled raises CancelledError into the task behind it.
TaskSoured(o) ==
    /\ pc[o] = "queued" /\ prev[o] # None /\ tail[prev[o]] = "cancelled"
    /\ End(o, "cancelled")
    /\ UNCHANGED <<storeVars, callVars, chain, line, tail, caller, cancelled, pruned>>

\* The callback returned a credential.
Commits(o) ==
    /\ pc[o] = "running" /\ signal[o] # "aborted"
    /\ End(o, "value")
    /\ issued' = issued + 1
    /\ \E type \in IF kind[o] = "refresh" THEN {"oauth"} ELSE {"oauth", "api_key"} :
         Commit([type |-> type, gen |-> issued + 1])
    /\ spent' = IF kind[o] = "refresh" THEN Append(spent, snapshot[o].gen) ELSE spent
    /\ UNCHANGED <<callVars, chain, line, tail, caller, cancelled, pruned>>

\* The callback raised or, its signal aborted meanwhile, its result is dropped.
DoesNotCommit(o) ==
    /\ pc[o] = "running"
    /\ End(o, IF signal[o] = "aborted" THEN "aborted" ELSE "error")
    /\ UNCHANGED <<storeVars, callVars, chain, line, tail, caller, cancelled, pruned>>

\* tail(): every Exception is suppressed, CancelledError is none.
TailEnds(o) ==
    /\ pc[o] \in Ended /\ tail[o] = "pending"
    /\ tail' = [tail EXCEPT ![o] = IF pc[o] = "cancelled" THEN "cancelled" ELSE "done"]
    /\ UNCHANGED <<storeVars, callVars, chain, line, pc, caller, cancelled, pruned>>

\* Mutant: a finished tail drops the chain although a later call joined it.
PruneAnyway(o) ==
    /\ tail[o] \in {"done", "cancelled"} /\ o \notin pruned
    /\ pruned' = pruned \cup {o}
    /\ chain' = None
    /\ UNCHANGED <<storeVars, callVars, line, pc, tail, caller, cancelled>>

\* Mutant: the done callback is never added.
PruneNever(o) ==
    /\ tail[o] \in {"done", "cancelled"} /\ o \notin pruned
    /\ pruned' = pruned \cup {o}
    /\ UNCHANGED <<storeVars, callVars, chain, line, pc, tail, caller, cancelled>>

\* The done callback of the tail.
Prune(o) ==
    /\ tail[o] \in {"done", "cancelled"} /\ o \notin pruned
    /\ pruned' = pruned \cup {o}
    /\ chain' = IF chain = o THEN None ELSE chain
    /\ UNCHANGED <<storeVars, callVars, line, pc, tail, caller, cancelled>>

-----------------------------------------------------------------------------

\* The caller sees its task end.  A refreshed credential that still expires too
\* soon is rejected after the fact.
CallerReturns(o) ==
    /\ caller[o] = "waiting" /\ pc[o] \in Ended
    /\ \E told \in (CASE pc[o] = "value" -> {"returned"} \cup (IF kind[o] = "refresh" THEN {"error"} ELSE {})
                      [] OTHER -> {pc[o]}) :
         caller' = [caller EXCEPT ![o] = told]
    /\ UNCHANGED <<storeVars, callVars, chain, line, pc, tail, cancelled, pruned>>

\* The caller polls its signal and stops waiting; the task goes on.
CallerGivesUp(o) ==
    /\ caller[o] = "waiting" /\ signal[o] = "aborted" /\ pc[o] \notin Ended
    /\ caller' = [caller EXCEPT ![o] = "aborted"]
    /\ UNCHANGED <<storeVars, callVars, chain, line, pc, tail, cancelled, pruned>>

\* What cancelling a task that waits in the chain reaches: the first operation
\* of the line whose tail is not over.
Root ==
    line[CHOOSE i \in DOMAIN line :
            /\ tail[line[i]] = "pending"
            /\ \A j \in 1..(i - 1) : tail[line[j]] # "pending"]

\* The caller is cancelled.  With a signal it waits through asyncio.wait() and
\* just leaves; without one it awaits the task, and the cancellation travels
\* along the awaits to the root: a task not ended, or the tail of one that has.
CallerCancelled(o) ==
    /\ Cancels
    /\ caller[o] = "waiting" /\ pc[o] \notin Ended /\ o \notin cancelled
    /\ cancelled' = cancelled \cup {o}
    /\ IF signal[o] # "none"
       THEN caller' = [caller EXCEPT ![o] = "cancelled"] /\ UNCHANGED <<pc, tail>>
       ELSE /\ IF pc[Root] \in Ended
               THEN tail' = [tail EXCEPT ![Root] = "cancelled"] /\ UNCHANGED pc
               ELSE End(Root, "cancelled") /\ UNCHANGED tail
            /\ UNCHANGED caller
    /\ UNCHANGED <<storeVars, callVars, chain, line, pruned>>

\* A signal is aborted; once the task has ended nobody looks at it again.
Abort(o) ==
    /\ signal[o] = "live" /\ pc[o] \notin Ended
    /\ signal' = [signal EXCEPT ![o] = "aborted"]
    /\ UNCHANGED <<storeVars, kind, prev, snapshot, chain, line, pc, tail, caller, cancelled, pruned>>

\* Time passes.
Expire ==
    /\ ~expiring /\ store # None
    /\ expiring' = TRUE
    /\ UNCHANGED <<store, issued, spent, callVars, chain, line, pc, tail, caller, cancelled, pruned>>

TaskStep(o) ==
    TaskRuns(o) \/ TaskSoured(o) \/ Commits(o) \/ DoesNotCommit(o) \/ TailEnds(o) \/ Prune(o)

CallerStep(o) == CallerReturns(o) \/ CallerGivesUp(o)

Next ==
    \/ \E o \in Ops : Begin(o) \/ TaskStep(o) \/ CallerStep(o) \/ CallerCancelled(o) \/ Abort(o)
    \/ Expire

Spec == Init /\ [][Next]_vars

\* The event loop runs what is ready, and callbacks come to an end.
Fairness == \A o \in Ops : WF_vars(TaskStep(o)) /\ WF_vars(CallerStep(o))

-----------------------------------------------------------------------------

TypeOK ==
    /\ store \in Credentials \cup {None} /\ expiring \in BOOLEAN
    /\ issued \in Nat /\ spent \in Seq(Nat)
    /\ chain \in Ops \cup {None} /\ line \in Seq(Ops)
    /\ kind \in [Ops -> {"none", "refresh", "login", "logout"}]
    /\ signal \in [Ops -> {"none", "live", "aborted"}]
    /\ pc \in [Ops -> {"idle", "queued", "running"} \cup Ended]
    /\ tail \in [Ops -> {"none", "pending", "done", "cancelled"}]
    /\ prev \in [Ops -> Ops \cup {None}]
    /\ snapshot \in [Ops -> Credentials \cup {None}]
    /\ caller \in [Ops -> {"idle", "waiting", "returned", "error", "aborted", "cancelled"}]
    /\ cancelled \subseteq Ops /\ pruned \subseteq Ops

\* modify() is a serialized read-modify-write: from the moment its callback is
\* given the credential to the moment the result is committed, no other
\* operation of the provider touches it, whoever was aborted or cancelled.
ModifyIsolated == \A o \in Ops : pc[o] = "running" => store = snapshot[o]

\* "Never letting two concurrent callers both read the same stale token and
\* both commit their own rotation".
RefreshedOnce == \A i, j \in DOMAIN spent : spent[i] = spent[j] => i = j

\* Both: a refresh reads, rotates and commits undisturbed.
RefreshIsolated == TypeOK /\ ModifyIsolated /\ RefreshedOnce

\* A caller that was told its operation was cancelled never sees it take effect
\* later: the callback's result, or the removal, is dropped.
ToldAbortedNeverCommits ==
    \A o \in Ops : caller[o] = "aborted" => pc[o] # "value"

\* The chain entry is pruned once no operation is under way, so a provider
\* leaves nothing behind.
ChainPruned ==
    (\A o \in Ops : tail[o] = "none" \/ o \in pruned) => chain = None

\* Every call is answered, and its task leaves the chain.
CallSettles ==
    \A o \in Ops : caller[o] = "waiting" ~> caller[o] # "waiting" /\ o \in pruned

\* The calls are interchangeable.
Symmetry == Permutations(Ops)

=============================================================================
