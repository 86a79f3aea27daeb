--------------------------- MODULE MutationQueue ---------------------------
(***************************************************************************)
(* The queue shared by the write and edit tools                            *)
(* (tools/builtin/mutation_queue.py), for the calls of one event loop.     *)
(* A call first passes the global registration chain, in which its path is *)
(* resolved to a scope (provider and key), then waits for the entry that   *)
(* was the tail of that scope, then runs its function.  Every wait can be  *)
(* interrupted by cancelling the task.                                     *)
(***************************************************************************)
EXTENDS Naturals, Sequences, FiniteSets

CONSTANTS
    Calls,    \* the calls of with_mutation_queue(), each made once
    Scopes,   \* the pairs of provider and key a path can resolve to
    None,     \* no entry
    Cancels   \* may the tasks be cancelled while they wait?

ASSUME QueueAssumption == None \notin Calls /\ Cancels \in BOOLEAN

VARIABLES
    pc,          \* what each call is doing
    called,      \* the registration chain: calls in the order they were made
    registered,  \* calls whose `registered` future is set
    tails,       \* _State.tails: the last entry of each scope, or None
    scope,       \* the scope a call resolved to
    current,     \* the entry a call found at the tail of its scope
    released,    \* calls whose `released` future is set
    entries,     \* auxiliary: how many entries were made
    ticket       \* auxiliary: the number of each entry, in order of entering

vars == <<pc, called, registered, tails, scope, current, released, entries, ticket>>

\* A call that is over; "abandoned" is one given up before its registration began.
Over == {"done", "abandoned"}

Stages ==
    {"idle", "registering", "resolving", "waiting", "running", "deferred", "done", "abandoned"}

Entered == {c \in Calls : ticket[c] > 0}

\* The await on entry c's predecessor does not block.
TurnOf(c) == current[c] = None \/ current[c] \in released

Init ==
    /\ pc = [c \in Calls |-> "idle"]
    /\ called = <<>> /\ registered = {}
    /\ tails = [s \in Scopes |-> None]
    /\ scope = [c \in Calls |-> None] /\ current = [c \in Calls |-> None]
    /\ released = {}
    /\ entries = 0 /\ ticket = [c \in Calls |-> 0]

-----------------------------------------------------------------------------

\* with_mutation_queue() up to its first await: join the registration chain.
Call(c) ==
    /\ pc[c] = "idle"
    /\ called' = Append(called, c)
    /\ pc' = [pc EXCEPT ![c] = IF called = <<>> \/ called[Len(called)] \in registered
                               THEN "resolving" ELSE "registering"]
    /\ UNCHANGED <<registered, tails, scope, current, released, entries, ticket>>

\* Mutant: a call does not wait for the registration before its own.
RegistrationOvertakes(c) ==
    /\ pc[c] = "registering"
    /\ pc' = [pc EXCEPT ![c] = "resolving"]
    /\ UNCHANGED <<called, registered, tails, scope, current, released, entries, ticket>>

\* The registration before this one has settled.
RegistrationTurn(c) ==
    /\ pc[c] = "registering"
    /\ \E i \in 2..Len(called) : called[i] = c /\ called[i - 1] \in registered
    /\ pc' = [pc EXCEPT ![c] = "resolving"]
    /\ UNCHANGED <<called, registered, tails, scope, current, released, entries, ticket>>

\* Mutant: the entry becomes the tail before it looked at the one it follows.
EnterBlind(c, s) ==
    /\ pc[c] = "resolving"
    /\ registered' = registered \cup {c}
    /\ scope' = [scope EXCEPT ![c] = s]
    /\ tails' = [tails EXCEPT ![s] = c]
    /\ entries' = entries + 1 /\ ticket' = [ticket EXCEPT ![c] = entries + 1]
    /\ pc' = [pc EXCEPT ![c] = "running"]
    /\ UNCHANGED <<called, current, released>>

\* Mutant: the entry found at the tail is taken for the scope.
EnterSwapped(c, s) ==
    /\ pc[c] = "resolving"
    /\ registered' = registered \cup {c}
    /\ scope' = [scope EXCEPT ![c] = tails[s]]
    /\ current' = [current EXCEPT ![c] = s]
    /\ tails' = [tails EXCEPT ![s] = c]
    /\ entries' = entries + 1 /\ ticket' = [ticket EXCEPT ![c] = entries + 1]
    /\ pc' = [pc EXCEPT ![c] = "running"]
    /\ UNCHANGED <<called, released>>

\* mutation_queue_key() returned: the call becomes the tail of its scope, after
\* the entry it found there.
Enter(c, s) ==
    /\ pc[c] = "resolving"
    /\ registered' = registered \cup {c}
    /\ scope' = [scope EXCEPT ![c] = s]
    /\ current' = [current EXCEPT ![c] = tails[s]]
    /\ tails' = [tails EXCEPT ![s] = c]
    /\ entries' = entries + 1 /\ ticket' = [ticket EXCEPT ![c] = entries + 1]
    /\ pc' = [pc EXCEPT ![c] = IF tails[s] = None \/ tails[s] \in released
                               THEN "running" ELSE "waiting"]
    /\ UNCHANGED <<called, released>>

\* The finally clause of a registration that leaves no entry.
RegistrationSettles(c, over) ==
    /\ registered' = registered \cup {c}
    /\ pc' = [pc EXCEPT ![c] = over]
    /\ UNCHANGED <<called, tails, scope, current, released, entries, ticket>>

\* mutation_queue_key() raised, or the task was cancelled in it.
RegistrationFails(c) == pc[c] = "resolving" /\ RegistrationSettles(c, "done")

\* The task was cancelled while an earlier registration was under way.
RegistrationCancelled(c) ==
    Cancels /\ pc[c] = "registering" /\ RegistrationSettles(c, "abandoned")

\* Mutant: the queue of a scope is never dropped.
ReleaseKeepsTail(c) ==
    /\ released' = released \cup {c}
    /\ pc' = [pc EXCEPT ![c] = "done"]
    /\ UNCHANGED tails

\* release(): the scope is dropped when the entry is still its tail.
Release(c) ==
    /\ released' = released \cup {c}
    /\ tails' = IF tails[scope[c]] = c THEN [tails EXCEPT ![scope[c]] = None] ELSE tails
    /\ pc' = [pc EXCEPT ![c] = "done"]

\* Mutant: a lock instead of a queue, whoever wakes up first takes the turn.
TurnAnyone(c) ==
    /\ pc[c] = "waiting"
    /\ \A d \in Calls : scope[d] = scope[c] => pc[d] # "running"
    /\ pc' = [pc EXCEPT ![c] = "running"]
    /\ UNCHANGED <<called, registered, tails, scope, current, released, entries, ticket>>

\* The entry before this one was released.
TurnComes(c) ==
    /\ pc[c] = "waiting"
    /\ TurnOf(c)
    /\ pc' = [pc EXCEPT ![c] = "running"]
    /\ UNCHANGED <<called, registered, tails, scope, current, released, entries, ticket>>

\* Mutant: an interrupted wait never releases its entry.
WaitForgets(c) ==
    /\ Cancels
    /\ pc[c] = "waiting"
    /\ pc' = [pc EXCEPT ![c] = "done"]
    /\ UNCHANGED <<called, registered, tails, scope, current, released, entries, ticket>>

\* The task was cancelled while it waited for its turn: the entry is released
\* only after the one before it.
WaitCancelled(c) ==
    /\ Cancels
    /\ pc[c] = "waiting"
    /\ IF TurnOf(c)
       THEN Release(c)
       ELSE pc' = [pc EXCEPT ![c] = "deferred"] /\ UNCHANGED <<released, tails>>
    /\ UNCHANGED <<called, registered, scope, current, entries, ticket>>

\* The done callback an interrupted wait left on the entry before it.
DeferredRelease(c) ==
    /\ pc[c] = "deferred"
    /\ current[c] \in released
    /\ Release(c)
    /\ UNCHANGED <<called, registered, scope, current, entries, ticket>>

\* fn returned, raised or was cancelled.
FnEnds(c) ==
    /\ pc[c] = "running"
    /\ Release(c)
    /\ UNCHANGED <<called, registered, scope, current, entries, ticket>>

Settle(c) ==
    \/ RegistrationTurn(c) \/ RegistrationFails(c) \/ (\E s \in Scopes : Enter(c, s))
    \/ TurnComes(c) \/ DeferredRelease(c) \/ FnEnds(c)

Next == \E c \in Calls : Call(c) \/ Settle(c) \/ RegistrationCancelled(c) \/ WaitCancelled(c)

Spec == Init /\ [][Next]_vars

-----------------------------------------------------------------------------

TypeOK ==
    /\ pc \in [Calls -> Stages]
    /\ called \in Seq(Calls)
    /\ registered \subseteq Calls /\ released \subseteq Calls
    /\ tails \in [Scopes -> Calls \cup {None}]
    /\ scope \in [Calls -> Scopes \cup {None}]
    /\ current \in [Calls -> Calls \cup {None}]
    /\ entries \in Nat /\ ticket \in [Calls -> Nat]

\* "Equal keys share one FIFO": two calls on one file never run their functions
\* at once, whatever was cancelled in front of them.
OneMutationAtATime ==
    \A c, d \in Calls :
        pc[c] = "running" /\ pc[d] = "running" /\ scope[c] = scope[d] => c = d

\* A call runs its function only after every earlier entry of its scope was
\* released, also when some of those were interrupted while waiting.
FirstInFirstOut ==
    \A c, d \in Entered :
        scope[c] = scope[d] /\ ticket[c] < ticket[d] /\ pc[d] = "running" => c \in released

\* "The key's queue is dropped once empty": a scope has a tail exactly while
\* one of its entries is not released, so the table does not grow for ever.
QueueDropped ==
    \A s \in Scopes :
        tails[s] # None <=> \E c \in Entered : scope[c] = s /\ c \notin released

\* "A later registration (including its canonical_path) does not begin until
\* every earlier one has SETTLED, whether it succeeded or failed": so it is for
\* two registrations unless one between them was given up while it waited (such
\* a one settles at once, and lets the next begin beside those still under way).
RegistrationInOrder ==
    \A i, j \in DOMAIN called :
        /\ i < j /\ (pc[called[j]] = "resolving" \/ called[j] \in Entered)
        /\ \A k \in (i + 1)..(j - 1) : pc[called[k]] # "abandoned"
        => called[i] \in registered

\* Every call that was made has come to an end and given up its entry.
AllSettled ==
    \A c \in Calls : pc[c] # "idle" => pc[c] \in Over /\ (c \in Entered => c \in released)

=============================================================================
