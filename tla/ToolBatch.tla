----------------------------- MODULE ToolBatch -----------------------------
(***************************************************************************)
(* One batch of tool calls: execute_batch and execute_length_stop_batch    *)
(* (tools/batch.py) over the stages of each call (tools/execute.py).       *)
(* stage[i] names the await at which call i is suspended.  A sequential    *)
(* batch takes one call after the other through all its stages; a parallel *)
(* one preflights the calls one after the other and then runs those that   *)
(* survived concurrently, under asyncio.gather.                            *)
(***************************************************************************)
EXTENDS Naturals, Sequences, FiniteSets

CONSTANTS
    N,          \* the number of calls in the batch, in source order 1..N
    Modes,      \* the kinds of batch to explore
    Updating,   \* the calls whose tools report progress
    MaxUpdates  \* bound on the update(partial) callbacks of one call

ASSUME ToolBatchAssumption ==
    /\ N \in Nat \ {0}
    /\ Updating \subseteq 1..N /\ MaxUpdates \in Nat
    /\ Modes \subseteq {"sequential", "parallel", "length"}

VARIABLES
    mode,        \* "sequential", "parallel" or "length" (a truncated reply)
    phase,       \* "off" when there is no batch, "loop", "gather", "returned" or "raised"
    stage,       \* where each call is
    result,      \* the kind of result of each call, "none" before there is one
    terminate,   \* does the call's result ask to end the run?
    inflight,    \* update dispatches of the call that are not finished
    updates,     \* update(partial) callbacks that were dispatched
    broken,      \* did an update listener of the call raise?
    completion,  \* completion_order
    aborted      \* the run's signal

vars == <<mode, phase, stage, result, terminate, inflight, updates, broken,
          completion, aborted>>
callVars == <<result, terminate, inflight, updates, broken>>

CallIds == 1..N

\* "starting", "immediate" and "ending" await the driver's event listeners,
\* "hook" the tools/pre-execute waterfall, "executing" the tool, "joining" its
\* update dispatches, and "after" the tools/post-execute waterfall.  A call
\* whose end listener raised has "failed"; one that never got to its end is
\* "lost", and stays in pending_tool_calls.
PreflightStages == {"starting", "hook", "immediate"}
ExecuteStages   == {"executing", "joining", "after", "ending"}
Stages == {"waiting", "prepared", "done", "failed", "lost"} \cup PreflightStages \cup ExecuteStages

Results == {"none", "ok", "error", "aborted", "blocked", "truncated"}

InitAt(where) ==
    /\ mode \in Modes
    /\ phase = where
    /\ stage = [i \in CallIds |-> "waiting"]
    /\ result = [i \in CallIds |-> "none"]
    /\ terminate = [i \in CallIds |-> FALSE]
    /\ inflight = [i \in CallIds |-> 0]
    /\ updates = [i \in CallIds |-> 0]
    /\ broken = [i \in CallIds |-> FALSE]
    /\ completion = <<>>
    /\ aborted \in BOOLEAN

Init == InitAt("loop")

\* TOOLS_EXECUTION_START of the first call is dispatched.
Begins ==
    /\ phase = "loop" /\ \A i \in CallIds : stage[i] = "waiting"
    /\ stage' = [stage EXCEPT ![1] = "starting"]
    /\ UNCHANGED <<mode, phase, callVars, completion, aborted>>

Settle(i, kind, term) ==
    /\ result' = [result EXCEPT ![i] = kind]
    /\ terminate' = [terminate EXCEPT ![i] = term]

\* Mutant: the next call starts although the signal was aborted.
AdvanceAborted(i, to) ==
    IF i < N
    THEN /\ stage' = [stage EXCEPT ![i] = to, ![i + 1] = "starting"]
         /\ UNCHANGED phase
    ELSE /\ stage' = [stage EXCEPT ![i] = to]
         /\ phase' = IF mode = "parallel" THEN "gather" ELSE "returned"

\* Call i of the loop has come to "to": the next call starts unless the
\* signal was aborted meanwhile; after the last one the loop is over.
Advance(i, to) ==
    IF i < N /\ (mode = "length" \/ ~aborted)
    THEN /\ stage' = [stage EXCEPT ![i] = to, ![i + 1] = "starting"]
         /\ UNCHANGED phase
    ELSE /\ stage' = [stage EXCEPT ![i] = to]
         /\ phase' = IF mode = "parallel" THEN "gather" ELSE "returned"

-----------------------------------------------------------------------------
(* _preflight                                                              *)

\* The start listeners returned: an unknown tool, or arguments that cannot be
\* prepared or validated, end the call; otherwise the before-hooks run.
Resolved(i) ==
    /\ stage[i] = "starting" /\ mode # "length"
    /\ \/ /\ stage' = [stage EXCEPT ![i] = "immediate"]
          /\ Settle(i, "error", FALSE)
       \/ /\ stage' = [stage EXCEPT ![i] = "hook"]
          /\ UNCHANGED <<result, terminate>>
    /\ UNCHANGED <<mode, phase, inflight, updates, broken, completion, aborted>>

\* execute_length_stop_batch: no call of a truncated reply is executed.
Truncated(i) ==
    /\ stage[i] = "starting" /\ mode = "length"
    /\ stage' = [stage EXCEPT ![i] = "immediate"]
    /\ Settle(i, "truncated", FALSE)
    /\ UNCHANGED <<mode, phase, inflight, updates, broken, completion, aborted>>

\* A before-hook that raises keeps its own error; an aborted signal wins over
\* the hooks' decision; Block may ask to terminate.
HookRefuses(i) ==
    /\ stage[i] = "hook"
    /\ stage' = [stage EXCEPT ![i] = "immediate"]
    /\ \/ Settle(i, "error", FALSE)
       \/ aborted /\ Settle(i, "aborted", FALSE)
       \/ ~aborted /\ \E term \in BOOLEAN : Settle(i, "blocked", term)
    /\ UNCHANGED <<mode, phase, inflight, updates, broken, completion, aborted>>

\* Mutant: the signal is not looked at after the before-hooks.
HookProceedsAborted(i) ==
    /\ stage[i] = "hook"
    /\ IF mode = "parallel"
       THEN Advance(i, "prepared")
       ELSE stage' = [stage EXCEPT ![i] = "executing"] /\ UNCHANGED phase
    /\ UNCHANGED <<mode, callVars, completion, aborted>>

\* Mutant: a parallel batch executes a call as soon as it is prepared.
HookExecutesAtOnce(i) ==
    /\ stage[i] = "hook"
    /\ ~aborted
    /\ IF mode = "parallel"
       THEN Advance(i, "executing")
       ELSE stage' = [stage EXCEPT ![i] = "executing"] /\ UNCHANGED phase
    /\ UNCHANGED <<mode, callVars, completion, aborted>>

\* Proceed: a sequential batch executes the call at once, a parallel one
\* records it and goes on with the preflight of the next.
HookProceeds(i) ==
    /\ stage[i] = "hook"
    /\ ~aborted
    /\ IF mode = "parallel"
       THEN Advance(i, "prepared")
       ELSE stage' = [stage EXCEPT ![i] = "executing"] /\ UNCHANGED phase
    /\ UNCHANGED <<mode, callVars, completion, aborted>>

ImmediateEnded(i) ==
    /\ stage[i] = "immediate"
    /\ completion' = Append(completion, i)
    /\ Advance(i, "done")
    /\ UNCHANGED <<mode, callVars, aborted>>

-----------------------------------------------------------------------------
(* _execute_and_finalize                                                   *)

\* A task of asyncio.gather takes its first step.
Executes(i) ==
    /\ phase = "gather"
    /\ stage[i] = "prepared"
    /\ stage' = [stage EXCEPT ![i] = "executing"]
    /\ UNCHANGED <<mode, phase, callVars, completion, aborted>>

\* update(partial): ignored once execute() has settled (accepting_updates).
Update(i) ==
    /\ stage[i] = "executing"
    /\ i \in Updating /\ updates[i] < MaxUpdates
    /\ updates' = [updates EXCEPT ![i] = @ + 1]
    /\ inflight' = [inflight EXCEPT ![i] = @ + 1]
    /\ UNCHANGED <<mode, phase, stage, result, terminate, broken, completion, aborted>>

UpdateDispatched(i) ==
    /\ inflight[i] > 0
    /\ inflight' = [inflight EXCEPT ![i] = @ - 1]
    /\ UNCHANGED <<mode, phase, stage, result, terminate, updates, broken,
                   completion, aborted>>

UpdateRaises(i) ==
    /\ inflight[i] > 0
    /\ inflight' = [inflight EXCEPT ![i] = @ - 1]
    /\ broken' = [broken EXCEPT ![i] = TRUE]
    /\ UNCHANGED <<mode, phase, stage, result, terminate, updates, completion, aborted>>

ExecuteSettles(i) ==
    /\ stage[i] = "executing"
    /\ \/ \E term \in BOOLEAN : Settle(i, "ok", term)
       \/ Settle(i, "error", FALSE)
    /\ stage' = [stage EXCEPT ![i] = IF updates[i] > 0 THEN "joining" ELSE "after"]
    /\ UNCHANGED <<mode, phase, inflight, updates, broken, completion, aborted>>

UpdatesJoined(i) ==
    /\ stage[i] = "joining"
    /\ inflight[i] = 0 /\ ~broken[i]
    /\ stage' = [stage EXCEPT ![i] = "after"]
    /\ UNCHANGED <<mode, phase, callVars, completion, aborted>>

\* _finalize: the after-hooks transform the result, an exception replaces it.
AfterHook(i) ==
    /\ stage[i] = "after"
    /\ \/ \E kind \in {"ok", "error"}, term \in BOOLEAN : Settle(i, kind, term)
       \/ Settle(i, "error", FALSE)
    /\ stage' = [stage EXCEPT ![i] = "ending"]
    /\ UNCHANGED <<mode, phase, inflight, updates, broken, completion, aborted>>

EndDispatched(i) ==
    /\ stage[i] = "ending"
    /\ completion' = Append(completion, i)
    /\ IF mode = "sequential"
       THEN Advance(i, "done")
       ELSE stage' = [stage EXCEPT ![i] = "done"] /\ UNCHANGED phase
    /\ UNCHANGED <<mode, callVars, aborted>>

-----------------------------------------------------------------------------
(* The end of the batch                                                    *)

\* A start, end or update listener raises: out of the loop at once, out of a
\* gather through the failed task.
Raises(i) ==
    /\ \/ stage[i] \in {"starting", "immediate", "ending"}
       \/ stage[i] = "joining" /\ broken[i]
    /\ stage' = [stage EXCEPT ![i] =
                    IF stage[i] \in {"immediate", "ending"} THEN "failed" ELSE "lost"]
    /\ phase' = IF phase = "loop" THEN "raised" ELSE phase
    /\ UNCHANGED <<mode, callVars, completion, aborted>>

\* gather hands on the first exception once every task has taken its first
\* step, and leaves the other tasks running.
GatherRaises ==
    /\ phase = "gather"
    /\ \E i \in CallIds : stage[i] \in {"failed", "lost"}
    /\ \A i \in CallIds : stage[i] # "prepared"
    /\ phase' = "raised"
    /\ UNCHANGED <<mode, stage, callVars, completion, aborted>>

\* Mutant: the batch waits for the calls an abort kept from starting.
GatherAwaitsAll ==
    /\ phase = "gather"
    /\ \A i \in CallIds : stage[i] = "done"
    /\ phase' = "returned"
    /\ UNCHANGED <<mode, stage, callVars, completion, aborted>>

GatherReturns ==
    /\ phase = "gather"
    /\ \A i \in CallIds : stage[i] \in {"done", "waiting"}
    /\ phase' = "returned"
    /\ UNCHANGED <<mode, stage, callVars, completion, aborted>>

\* The caller's task is cancelled: so is the call it awaits, and under gather
\* every task that has not finished.
Cancelled ==
    /\ phase \in {"loop", "gather"}
    /\ stage' = [i \in CallIds |->
          CASE stage[i] \in {"waiting", "done", "failed", "lost"} -> stage[i]
            [] stage[i] \in {"immediate", "ending"} -> "failed"
            [] OTHER -> "lost"]
    /\ phase' = "raised"
    /\ UNCHANGED <<mode, callVars, completion, aborted>>

Abort ==
    /\ ~aborted
    /\ aborted' = TRUE
    /\ UNCHANGED <<mode, phase, stage, callVars, completion>>

-----------------------------------------------------------------------------

Progress(i) ==
    \/ Resolved(i) \/ Truncated(i) \/ HookRefuses(i) \/ HookProceeds(i)
    \/ ImmediateEnded(i) \/ Executes(i) \/ ExecuteSettles(i) \/ UpdatesJoined(i)
    \/ AfterHook(i) \/ EndDispatched(i) \/ Raises(i)

Delivers(i) == UpdateDispatched(i) \/ UpdateRaises(i)

Next ==
    \/ \E i \in CallIds : Progress(i) \/ Update(i) \/ Delivers(i)
    \/ Begins \/ GatherRaises \/ GatherReturns \/ Cancelled \/ Abort

Spec == Init /\ [][Next]_vars

\* The tools, the hooks and the listeners return.
Fairness ==
    /\ \A i \in CallIds : WF_vars(Progress(i)) /\ WF_vars(Delivers(i))
    /\ WF_vars(Begins) /\ WF_vars(GatherRaises) /\ WF_vars(GatherReturns)

-----------------------------------------------------------------------------

TypeOK ==
    /\ mode \in {"sequential", "parallel", "length"}
    /\ phase \in {"off", "loop", "gather", "returned", "raised"}
    /\ stage \in [CallIds -> Stages]
    /\ result \in [CallIds -> Results]
    /\ terminate \in [CallIds -> BOOLEAN]
    /\ inflight \in [CallIds -> 0..MaxUpdates]
    /\ updates \in [CallIds -> 0..MaxUpdates]
    /\ broken \in [CallIds -> BOOLEAN]
    /\ completion \in Seq(CallIds) /\ Len(completion) <= N
    /\ aborted \in BOOLEAN

Retained == {i \in CallIds : stage[i] # "waiting"}

\* No tool of a parallel batch executes before every retained call has passed
\* its preflight, and a sequential batch has one call under way (IR-L06-001).
PreflightBarrier ==
    /\ mode = "parallel" /\ (\E i \in CallIds : stage[i] \in ExecuteStages)
          => \A i \in CallIds : stage[i] \notin PreflightStages
    /\ mode # "parallel" =>
          Cardinality({i \in CallIds : stage[i] \in PreflightStages \cup ExecuteStages}) <= 1

\* A batch that returns has a result for a non-empty prefix of its calls, all
\* of them unless it was aborted; each completed exactly once; the results of
\* a truncated reply never terminate the run.
ReturnedBatch ==
    phase = "returned" =>
        /\ \E k \in CallIds :
              /\ Retained = 1..k
              /\ \A i \in 1..k : stage[i] = "done" /\ result[i] # "none"
              /\ k < N => aborted /\ mode # "length"
              /\ Len(completion) = k
              /\ {completion[j] : j \in 1..k} = 1..k
        /\ mode = "length" => \A i \in CallIds : result[i] = "truncated" /\ ~terminate[i]

\* tool_execution_end of a call follows all of its tool_execution_updates:
\* none is in flight or yet to come once the after-hooks run.
EndAfterUpdates ==
    \A i \in CallIds :
        stage[i] \in {"after", "ending", "done"} => inflight[i] = 0 /\ ~broken[i]

\* The order of a batch: preflights before executions, updates before ends, and
\* at its return one result for each call of a prefix.
BatchOrdered == TypeOK /\ PreflightBarrier /\ ReturnedBatch /\ EndAfterUpdates

\* Abort freezes a batch that has begun: no further call starts and no call
\* that is not past its before-hooks executes (L09-C001, L09-C002).
AbortFreezes ==
    [][aborted /\ mode # "length" /\ Retained # {} =>
         /\ Retained' = Retained
         /\ \A i \in CallIds :
               stage[i] \in PreflightStages => stage'[i] \notin {"prepared", "executing"}]_vars

\* Every batch returns or raises, and every call it started comes to an end.
BatchSettles ==
    /\ <>(phase \in {"off", "returned", "raised"})
    /\ \A i \in CallIds : (stage[i] \in ExecuteStages) ~> (stage[i] \in {"done", "failed", "lost"})

\* What AgentLoop assumes of a batch, with the pending calls and the calls
\* not started read off the stages.
Contract == INSTANCE BatchContract WITH
    Calls <- CallIds,
    truncated <- (mode = "length"),
    todo <- {i \in CallIds : stage[i] = "waiting"},
    pending <- {i \in CallIds : stage[i] \in {"starting", "hook", "prepared", "executing",
                                              "joining", "after", "lost"}},
    phase <- IF phase \in {"returned", "raised"} THEN phase ELSE "running"

\* Every batch behaves as the driver's turn assumes: aborted it starts no
\* further call, and it returns only when no call is pending.
ImplementsContract == Contract!Spec

=============================================================================
