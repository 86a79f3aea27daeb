------------------------------- MODULE Fiber -------------------------------
(***************************************************************************)
(* One fiber (runtime/fiber.py) with the reversible effects it owns        *)
(* (runtime/disposable.py).  Tasks call load(), unload() and dispose();    *)
(* the plugin body and every disposer may suspend, so two of those calls   *)
(* can be under way at once.  Effect e is the e-th one created; its        *)
(* resource is held from creation until its disposer is called.             *)
(***************************************************************************)
EXTENDS Naturals, Sequences, FiniteSets

CONSTANTS
    Tasks,        \* who calls load(), unload() and dispose()
    MaxEffects,   \* bound on the effects ever created
    MaxLists,     \* bound on the disposable lists the fiber goes through
    LateEffects,  \* may effects be created while a failed load is unwound?
    Cancels       \* may the tasks be cancelled while they wait?

VARIABLES
    state,      \* Fiber._state
    lists,      \* lists[g]: the g-th DisposableList, 0 where one was removed
    closed,     \* the lists whose dispose_all() has begun
    current,    \* the list Fiber._disposables refers to
    home,       \* home[e]: the list and the index effect e was pushed to
    settled,    \* effects whose disposer was called
    held,       \* effects whose resource is held
    unwound,    \* the effects released by dispose_all(), in that order
    task        \* what each task is suspended in

listVars == <<lists, closed, current>>
effectVars == <<home, settled, held, unwound>>
vars == <<state, listVars, effectVars, task>>

States == {"pending", "loading", "active", "failed", "unloading", "disposed"}

LiveStates == {"loading", "active"}

\* "body": the plugin body; otherwise dispose_all() of list g with the entries
\* 1..n to go, on behalf of a failed load, a stale load, unload() or dispose().
Idle == [at |-> "idle", g |-> 0, n |-> 0]
Unwinding(t) == task[t].at \in {"fail", "stale", "unload", "dispose"}

\* Where the finally clause of each of them leaves the fiber.
Final(at) ==
    CASE at = "fail" -> "failed"
      [] at = "dispose" -> "disposed"
      [] OTHER -> "pending"

Init ==
    /\ state = "pending"
    /\ lists = <<<<>>>> /\ closed = {} /\ current = 1
    /\ home = <<>> /\ settled = {} /\ held = {} /\ unwound = <<>>
    /\ task = [t \in Tasks |-> Idle]

-----------------------------------------------------------------------------

\* Fiber._unwind() up to its first disposer.  A list that is being disposed is
\* not disposed again: the fiber takes a fresh list and settles at once.
StartUnwind(t, at) ==
    IF current \in closed
    THEN /\ Len(lists) < MaxLists
         /\ lists' = Append(lists, <<>>) /\ current' = Len(lists) + 1
         /\ task' = [task EXCEPT ![t] = Idle]
         /\ state' = Final(at)
         /\ UNCHANGED closed
    ELSE /\ closed' = closed \cup {current}
         /\ task' = [task EXCEPT ![t] = [at |-> at, g |-> current, n |-> Len(lists[current])]]
         /\ UNCHANGED <<lists, current>>

Load(t) ==
    /\ task[t] = Idle
    /\ state = "pending"
    /\ state' = "loading"
    /\ task' = [task EXCEPT ![t] = [at |-> "body", g |-> 0, n |-> 0]]
    /\ UNCHANGED <<listVars, effectVars>>

\* The body raised, or its dependencies went away while it ran: the state
\* stays LOADING until the unwinding is over.
LoadFails(t, at) ==
    /\ task[t].at = "body"
    /\ StartUnwind(t, at)
    /\ current \in closed \/ UNCHANGED state
    /\ UNCHANGED <<effectVars>>

\* The body returned and the dependencies are still there.
LoadCommits(t) ==
    /\ task[t].at = "body"
    /\ state' = "active"
    /\ task' = [task EXCEPT ![t] = Idle]
    /\ UNCHANGED <<listVars, effectVars>>

\* A task cancelled in the body: CancelledError is no Exception, so nothing is
\* unwound and the fiber stays LOADING.
LoadCancelled(t) ==
    /\ Cancels
    /\ task[t].at = "body"
    /\ task' = [task EXCEPT ![t] = Idle]
    /\ UNCHANGED <<state, listVars, effectVars>>

Unload(t) ==
    /\ task[t] = Idle
    /\ state \in LiveStates
    /\ StartUnwind(t, "unload")
    /\ current \in closed \/ state' = "unloading"
    /\ UNCHANGED <<effectVars>>

\* dispose(): a fiber that is not live has nothing to unwind.
Dispose(t) ==
    /\ task[t] = Idle
    /\ state # "disposed"
    /\ IF state \in LiveStates
       THEN /\ StartUnwind(t, "dispose")
            /\ current \in closed
               \/ state' = IF state = "active" THEN "unloading" ELSE state
       ELSE /\ state' = "disposed"
            /\ UNCHANGED <<listVars, task>>
    /\ UNCHANGED <<effectVars>>

-----------------------------------------------------------------------------

\* Mutant: the disposers run in creation order.
UnwindForward(t) ==
    /\ Unwinding(t) /\ task[t].n > 0
    /\ LET len == Len(lists[task[t].g])
           e == lists[task[t].g][len - task[t].n + 1]
       IN  /\ settled' = (settled \cup {e}) \ {0}
           /\ held' = held \ {e}
           /\ unwound' = IF e = 0 \/ e \in settled THEN unwound ELSE Append(unwound, e)
    /\ task' = [task EXCEPT ![t].n = @ - 1]
    /\ UNCHANGED <<state, listVars, home>>

\* dispose_all() calls the next disposer, in reverse order; a disposer that
\* raises does not keep the others from running.
UnwindStep(t) ==
    /\ Unwinding(t) /\ task[t].n > 0
    /\ LET e == lists[task[t].g][task[t].n]
       IN  IF e = 0 \/ e \in settled
           THEN UNCHANGED <<settled, held, unwound>>
           ELSE /\ settled' = settled \cup {e}
                /\ held' = held \ {e}
                /\ unwound' = Append(unwound, e)
    /\ task' = [task EXCEPT ![t].n = @ - 1]
    /\ UNCHANGED <<state, listVars, home>>

\* A task cancelled while it awaits a disposer leaves dispose_all() at once: the
\* fiber takes a fresh list and settles, with the rest of the old one not run.
UnwindCancelled(t) ==
    /\ Cancels
    /\ Unwinding(t) /\ task[t].n < Len(lists[task[t].g])
    /\ Len(lists) < MaxLists
    /\ lists' = Append(lists, <<>>) /\ current' = Len(lists) + 1
    /\ state' = Final(task[t].at)
    /\ task' = [task EXCEPT ![t] = Idle]
    /\ UNCHANGED <<closed, effectVars>>

\* The list is cleared, the fiber takes a fresh one, and the finally clause
\* sets the state, whether or not disposers raised.
UnwindEnds(t) ==
    /\ Unwinding(t) /\ task[t].n = 0
    /\ Len(lists) < MaxLists
    /\ lists' = Append([lists EXCEPT ![task[t].g] = <<>>], <<>>)
    /\ current' = Len(lists) + 1
    /\ state' = Final(task[t].at)
    /\ task' = [task EXCEPT ![t] = Idle]
    /\ UNCHANGED <<closed, effectVars>>

\* effect(): by the body, or by whoever has the fiber's context.
Effect ==
    /\ state \in LiveStates
    /\ LateEffects \/ current \notin closed
    /\ Len(home) < MaxEffects
    /\ lists' = [lists EXCEPT ![current] = Append(@, Len(home) + 1)]
    /\ home' = Append(home, <<current, Len(lists[current]) + 1>>)
    /\ held' = held \cup {Len(home) + 1}
    /\ UNCHANGED <<state, closed, current, settled, unwound, task>>

\* The handle effect() returned: remove() blanks the effect's place in the list
\* it was pushed to, then the disposer runs unless it already has.  When that
\* list has been cleared remove() raises and nothing changes.
CallHandle ==
    \E e \in DOMAIN home :
        LET g == home[e][1]
            i == home[e][2]
        IN  /\ i \in DOMAIN lists[g]
            /\ lists' = [lists EXCEPT ![g][i] = 0]
            /\ settled' = settled \cup {e}
            /\ held' = held \ {e}
            /\ UNCHANGED <<state, closed, current, home, unwound, task>>

Next ==
    \/ \E t \in Tasks :
         \/ Load(t) \/ LoadFails(t, "fail") \/ LoadFails(t, "stale") \/ LoadCommits(t)
         \/ LoadCancelled(t) \/ UnwindCancelled(t)
         \/ Unload(t) \/ Dispose(t) \/ UnwindStep(t) \/ UnwindEnds(t)
    \/ Effect \/ CallHandle

Spec == Init /\ [][Next]_vars

-----------------------------------------------------------------------------

TypeOK ==
    /\ state \in States
    /\ lists \in Seq(Seq(0..MaxEffects)) /\ Len(lists) \in 1..MaxLists
    /\ closed \subseteq 1..MaxLists
    /\ current \in 1..Len(lists)
    /\ home \in Seq((1..MaxLists) \X (1..MaxEffects))
    /\ settled \subseteq 1..MaxEffects /\ held \subseteq 1..MaxEffects
    /\ unwound \in Seq(1..MaxEffects)
    /\ task \in [Tasks -> [at : {"idle", "body", "fail", "stale", "unload", "dispose"},
                           g : 0..MaxLists, n : 0..MaxEffects]]

\* A fiber at rest holds nothing: whenever it is PENDING, FAILED or DISPOSED
\* and nothing is being unwound, every effect it ever owned was disposed.
NothingLeaks ==
    state \in {"pending", "failed", "disposed"} /\ (\A t \in Tasks : ~Unwinding(t))
        => held = {}

\* dispose_all() calls a disposer at most once, and those of one list last-in
\* first-out, whatever handles are called meanwhile.
ReverseOnce ==
    \A i, j \in DOMAIN unwound :
        i < j => /\ unwound[i] # unwound[j]
                 /\ home[unwound[i]][1] = home[unwound[j]][1] => unwound[i] > unwound[j]

\* "DISPOSED: Terminal. The fiber cannot be reused.": no step leaves it.  True
\* of a fiber with one task.
StaysDisposed == state = "disposed" => state' = "disposed"

\* The same for every step of a behaviour.  With two tasks the code breaks it: a
\* load() whose body was awaited when the other task disposed the fiber makes
\* it ACTIVE.
DisposedIsTerminal == [][StaysDisposed]_vars

\* What holds of any number of tasks: no call begins on a disposed fiber, and
\* only the end of a call that was under way before can give it another state.
NothingBeginsDisposed ==
    state = "disposed" =>
        /\ \A t \in Tasks : task[t] = Idle => task'[t] = Idle
        /\ state' = "disposed" \/ \E t \in Tasks : task[t] # Idle /\ task'[t] = Idle

=============================================================================
