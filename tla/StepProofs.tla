----------------------------- MODULE StepProofs -----------------------------
(***************************************************************************)
(* What one step of the driver awaits: a batch of tool calls, and a stream *)
(* of the LLM service.                                                     *)
(*                                                                         *)
(* Safety of a batch for any number of calls and of updates, and that it   *)
(* implements BatchContract.  While the loop runs, at most one call is     *)
(* between its start and its end, behind calls that are done or prepared   *)
(* and before calls that wait (LoopInv); what a loop left behind is kept   *)
(* by PhaseInv, what a call's stage says of its updates and its result by  *)
(* CallInv, and completion_order lists the calls done, each one once       *)
(* (CompletionInv).                                                        *)
(*                                                                         *)
(* LlmServes for every set of models, adapters and requests, and any       *)
(* number of registrations and chunks.  What the service has seen of a     *)
(* stream is the message of the last chunk that was sent (PartialInv):     *)
(* that is what the terminal chunk of a stream that stops halfway is made  *)
(* from.  Routing needs only that an entry names a registration there was. *)
(***************************************************************************)
EXTENDS ToolBatch, LlmService, FiniteSetTheorems, TLAPS

\* What the stage of a call says of its updates and of its result.
CallOK(i) ==
    /\ inflight[i] <= updates[i]
    /\ stage[i] \in {"waiting", "starting", "hook", "immediate", "prepared"}
          => updates[i] = 0 /\ ~broken[i]
    /\ stage[i] = "executing" /\ updates[i] = 0 => ~broken[i]
    /\ stage[i] \in {"after", "ending", "done"} => inflight[i] = 0 /\ ~broken[i]
    /\ stage[i] \in {"immediate", "joining", "after", "ending", "done"} => result[i] # "none"
    /\ mode = "length" =>
          /\ stage[i] \in {"waiting", "starting", "immediate", "done", "failed", "lost"}
          /\ stage[i] \in {"immediate", "done"} => result[i] = "truncated" /\ ~terminate[i]

CallInv == \A i \in CallIds : CallOK(i)

\* The calls started are a prefix of the batch.
PrefixInv ==
    \E k \in 0..N : \A i \in CallIds : stage[i] # "waiting" <=> i <= k

\* In the loop every call before the one under way is done, or prepared for
\* the gather of a parallel batch.
LoopInv ==
    phase = "loop" =>
        /\ \A i, j \in CallIds : i < j /\ stage[j] # "waiting" => stage[i] \in {"done", "prepared"}
        /\ \A i \in CallIds :
              /\ stage[i] \notin {"failed", "lost"}
              /\ stage[i] = "prepared" => mode = "parallel"
              /\ mode = "parallel" => stage[i] \notin ExecuteStages

\* Past the loop no call is in its preflight, and only a parallel batch executes.
PhaseInv ==
    /\ phase # "off"
    /\ phase # "loop" =>
          \A i \in CallIds :
              /\ stage[i] \notin PreflightStages
              /\ mode # "parallel" => stage[i] \notin ExecuteStages \cup {"prepared"}
    /\ phase \in {"gather", "returned"} =>
          /\ stage[1] # "waiting"
          /\ \A i \in CallIds : stage[i] = "waiting" => aborted /\ mode # "length"
    /\ phase = "gather" => mode = "parallel"
    /\ phase = "returned" => \A i \in CallIds : stage[i] \in {"done", "waiting"}

CompletionInv ==
    /\ \A j, k \in 1..Len(completion) : completion[j] = completion[k] => j = k
    /\ \A i \in CallIds : stage[i] = "done" <=> \E j \in 1..Len(completion) : completion[j] = i

IndInv == TypeOK /\ CallInv /\ PrefixInv /\ LoopInv /\ PhaseInv /\ CompletionInv

\* completion_order is not longer than the batch while it names no call twice.
LEMMA DistinctCallsFit ==
  ASSUME NEW s \in Seq(CallIds), \A j, k \in 1..Len(s) : s[j] = s[k] => j = k
  PROVE  Len(s) <= N
<1>1. s \in Injection(1..Len(s), CallIds)
  BY DEF Injection, IsInjective
<1>2. IsFiniteSet(CallIds) /\ Cardinality(CallIds) = N
  BY FS_Interval, ToolBatchAssumption DEF CallIds
<1>3. Cardinality(1..Len(s)) = Len(s)
  BY FS_Interval
<1> QED BY <1>1, <1>2, <1>3, FS_Injection

\* A call that comes to its end joins completion_order once.
LEMMA CompletionGrows ==
  ASSUME IndInv, NEW i \in CallIds, stage[i] # "done", stage'[i] = "done",
         \A j \in CallIds \ {i} : stage'[j] = "done" <=> stage[j] = "done",
         completion' = Append(completion, i)
  PROVE  /\ CompletionInv'
         /\ completion' \in Seq(CallIds) /\ Len(completion') <= N
<1> USE DEF IndInv
<1>1. completion \in Seq(CallIds)
  BY DEF TypeOK
<1>2. /\ completion' \in Seq(CallIds) /\ Len(completion') = Len(completion) + 1
      /\ completion'[Len(completion) + 1] = i
      /\ \A j \in 1..Len(completion) : completion'[j] = completion[j]
  BY <1>1
<1>3. \A j \in 1..Len(completion) : completion[j] \in CallIds /\ completion[j] # i
  BY <1>1 DEF CompletionInv
<1>4. \A j, k \in 1..Len(completion') : completion'[j] = completion'[k] => j = k
  BY <1>1, <1>2, <1>3 DEF CompletionInv
<1>5. ASSUME NEW c \in CallIds
      PROVE  stage'[c] = "done" <=> \E j \in 1..Len(completion') : completion'[j] = c
  <2>1. CASE c = i
    BY <2>1, <1>1, <1>2
  <2>2. CASE c # i
    BY <2>2, <1>1, <1>2 DEF CompletionInv
  <2> QED BY <2>1, <2>2
<1>6. Len(completion') <= N
  BY <1>2, <1>4, DistinctCallsFit
<1> QED BY <1>2, <1>4, <1>5, <1>6 DEF CompletionInv

\* completion_order stays right when no call comes to its end.
LEMMA CompletionStays ==
  ASSUME IndInv, UNCHANGED completion,
         \A j \in CallIds : stage'[j] = "done" <=> stage[j] = "done"
  PROVE  CompletionInv'
BY DEF IndInv, CompletionInv

\* A step that starts no call leaves the prefix as it is.
LEMMA PrefixStays ==
  ASSUME PrefixInv, \A j \in CallIds : stage'[j] = "waiting" <=> stage[j] = "waiting"
  PROVE  PrefixInv'
BY DEF PrefixInv

\* The loop goes on behind a call that is done or prepared, or ends there.
LEMMA AdvanceKeeps ==
  ASSUME IndInv, NEW i \in CallIds, NEW to \in {"done", "prepared"},
         phase = "loop", stage[i] \in {"hook", "immediate", "ending"},
         to = "prepared" => mode = "parallel",
         Advance(i, to), UNCHANGED <<mode, aborted>>
  PROVE  /\ stage' \in [CallIds -> Stages] /\ phase' \in {"loop", "gather", "returned"}
         /\ \A j \in CallIds \ {i} : stage'[j] = stage[j] \/ (stage[j] = "waiting" /\ stage'[j] = "starting")
         /\ stage'[i] = to
         /\ PrefixInv' /\ LoopInv' /\ PhaseInv'
<1> USE DEF IndInv, CallIds, TypeOK
<1>1. N \in Nat \ {0} /\ i \in 1..N
  BY ToolBatchAssumption
<1>2. /\ \A j \in CallIds : j < i => stage[j] \in {"done", "prepared"}
      /\ \A j \in CallIds : j > i => stage[j] = "waiting"
      /\ \A j \in CallIds : stage[j] = "prepared" => mode = "parallel"
  BY <1>1 DEF LoopInv
<1>3. CASE i < N /\ (mode = "length" \/ ~aborted)
  <2>1. /\ i + 1 \in CallIds /\ UNCHANGED phase
        /\ stage' = [stage EXCEPT ![i] = to, ![i + 1] = "starting"]
    BY <1>1, <1>3 DEF Advance
  <2>2. /\ stage'[i] = to /\ stage'[i + 1] = "starting" /\ stage[i + 1] = "waiting"
        /\ \A j \in CallIds \ {i, i + 1} : stage'[j] = stage[j]
        /\ stage' \in [CallIds -> Stages]
    BY <1>1, <1>2, <2>1 DEF Stages, PreflightStages
  <2>3. \A j, k \in CallIds : j < k /\ stage'[k] # "waiting" => stage'[j] \in {"done", "prepared"}
    BY <1>1, <1>2, <2>1, <2>2
  <2>4. PrefixInv'
    <3>1. ASSUME NEW j \in CallIds PROVE stage'[j] # "waiting" <=> j <= i + 1
      <4>1. CASE j < i
        BY <4>1, <1>1, <1>2, <2>2
      <4>2. CASE j = i \/ j = i + 1
        BY <4>2, <1>1, <2>2
      <4>3. CASE j > i + 1
        BY <4>3, <1>1, <1>2, <2>2
      <4> QED BY <1>1, <4>1, <4>2, <4>3
    <3>2. i + 1 \in 0..N
      BY <1>1, <2>1
    <3> QED BY <3>1, <3>2 DEF PrefixInv
  <2>5. LoopInv'
    BY <1>1, <1>2, <2>1, <2>2, <2>3 DEF LoopInv, ExecuteStages
  <2> QED BY <2>1, <2>2, <2>4, <2>5 DEF PhaseInv
<1>4. CASE ~(i < N /\ (mode = "length" \/ ~aborted))
  <2>1. /\ stage' = [stage EXCEPT ![i] = to]
        /\ phase' = IF mode = "parallel" THEN "gather" ELSE "returned"
    BY <1>4 DEF Advance
  <2>2. /\ stage'[i] = to /\ \A j \in CallIds \ {i} : stage'[j] = stage[j]
        /\ stage' \in [CallIds -> Stages]
    BY <2>1 DEF Stages
  <2>3. \A j \in CallIds : stage'[j] \in {"done", "prepared", "waiting"}
    BY <1>1, <1>2, <2>2
  <2>4. PrefixInv' /\ LoopInv'
    BY <2>1, <2>2, PrefixStays DEF LoopInv
  <2>5. \A j \in CallIds : stage'[j] = "waiting" => aborted /\ mode # "length"
    <3>1. ASSUME NEW j \in CallIds, stage'[j] = "waiting" PROVE i < N
      <4>1. j # i /\ stage[j] = "waiting"
        BY <2>2, <3>1
      <4>2. ~(j < i)
        BY <1>2, <4>1
      <4> QED BY <1>1, <4>1, <4>2
    <3> QED BY <1>4, <3>1, Zenon
  <2>6. stage'[1] # "waiting" /\ 1 \in CallIds
    BY <1>1, <1>2, <2>2
  <2>7. \A j \in CallIds : mode # "parallel" => stage'[j] \in {"done", "waiting"}
    BY <1>1, <1>2, <2>2, <2>3
  <2>8. PhaseInv'
    BY <2>1, <2>3, <2>5, <2>6, <2>7 DEF PhaseInv, PreflightStages, ExecuteStages
  <2> QED BY <2>1, <2>2, <2>4, <2>8
<1> QED BY <1>3, <1>4

\* A call that goes on without moving the loop keeps the order of the batch.
LEMMA MoveKeeps ==
  ASSUME IndInv, NEW i \in CallIds, NEW to \in Stages \ {"waiting", "prepared"},
         stage[i] \notin {"waiting", "done"},
         stage' = [stage EXCEPT ![i] = to], UNCHANGED <<mode, phase, aborted>>,
         phase = "loop" => /\ stage[i] # "prepared" /\ to \notin {"failed", "lost"}
                           /\ mode = "parallel" => to \notin ExecuteStages,
         phase # "loop" => to \notin PreflightStages /\ mode = "parallel"
  PROVE  /\ stage' \in [CallIds -> Stages] /\ PrefixInv' /\ LoopInv' /\ PhaseInv'
         /\ stage'[i] = to /\ \A j \in CallIds \ {i} : stage'[j] = stage[j]
<1> USE DEF IndInv
<1>1. N \in Nat \ {0}
  BY ToolBatchAssumption
<1>2. /\ stage' \in [CallIds -> Stages] /\ stage'[i] = to
      /\ \A j \in CallIds \ {i} : stage'[j] = stage[j]
  BY DEF TypeOK
<1>3. PrefixInv'
  BY <1>2, PrefixStays
<1>4. LoopInv'
  <2> SUFFICES ASSUME phase = "loop"
               PROVE  /\ \A j, k \in CallIds : j < k /\ stage'[k] # "waiting"
                                                => stage'[j] \in {"done", "prepared"}
                      /\ \A j \in CallIds :
                            /\ stage'[j] \notin {"failed", "lost"}
                            /\ stage'[j] = "prepared" => mode = "parallel"
                            /\ mode = "parallel" => stage'[j] \notin ExecuteStages
    BY DEF LoopInv
  <2>1. \A k \in CallIds : i < k => stage'[k] = "waiting"
    BY <1>1, <1>2 DEF LoopInv, CallIds
  <2>2. ASSUME NEW j \in CallIds, NEW k \in CallIds, j < k, stage'[k] # "waiting"
        PROVE  stage'[j] \in {"done", "prepared"}
    <3>1. j # i
      BY <2>1, <2>2
    <3>2. stage[k] # "waiting"
      BY <1>2, <2>2
    <3> QED BY <1>2, <2>2, <3>1, <3>2 DEF LoopInv
  <2> QED BY <1>2, <2>2 DEF LoopInv
<1>5. PhaseInv'
  <2>1. phase # "returned"
    BY DEF PhaseInv
  <2>2. phase' # "loop" => \A j \in CallIds :
                  /\ stage'[j] \notin PreflightStages
                  /\ mode' # "parallel" => stage'[j] \notin ExecuteStages \cup {"prepared"}
    BY <1>2 DEF PhaseInv
  <2>3. \A j \in CallIds : stage'[j] = "waiting" => stage[j] = "waiting"
    BY <1>2
  <2>4. stage[1] # "waiting" => stage'[1] # "waiting"
    BY <1>1, <1>2 DEF CallIds
  <2> QED BY <2>1, <2>2, <2>3, <2>4 DEF PhaseInv
<1> QED BY <1>2, <1>3, <1>4, <1>5

\* A step of one call says nothing about the others.
LEMMA OthersKeep ==
  ASSUME CallInv, NEW i \in CallIds, UNCHANGED mode, CallOK(i)',
         \A j \in CallIds \ {i} :
            /\ stage'[j] = stage[j] \/ (stage[j] = "waiting" /\ stage'[j] = "starting")
            /\ result'[j] = result[j] /\ terminate'[j] = terminate[j]
            /\ inflight'[j] = inflight[j] /\ updates'[j] = updates[j] /\ broken'[j] = broken[j]
  PROVE  CallInv'
<1> SUFFICES ASSUME NEW j \in CallIds, j # i PROVE CallOK(j)'
  BY DEF CallInv
<1>1. CallOK(j)
  BY DEF CallInv
<1>2. CASE stage'[j] = stage[j]
  BY <1>1, <1>2 DEF CallOK
<1>3. CASE stage[j] = "waiting" /\ stage'[j] = "starting"
  BY <1>1, <1>3 DEF CallOK
<1> QED BY <1>2, <1>3

\* The steps of a call's preflight, of its execution and of its end.
LEMMA CallSteps ==
  ASSUME IndInv, NEW i \in CallIds,
         \/ Resolved(i) \/ Truncated(i) \/ HookRefuses(i) \/ Executes(i)
         \/ ExecuteSettles(i) \/ UpdatesJoined(i) \/ AfterHook(i)
  PROVE  IndInv'
<1> USE DEF IndInv
<1>1. /\ CallOK(i) /\ UNCHANGED <<mode, phase, aborted, inflight, updates, broken, completion>>
      /\ (result' = result /\ terminate' = terminate)
           \/ \E kind \in Results \ {"none"}, term \in BOOLEAN : Settle(i, kind, term)
  BY DEF CallInv, Resolved, Truncated, HookRefuses, Executes, ExecuteSettles, UpdatesJoined,
         AfterHook, callVars, Results
<1>2. /\ result' \in [CallIds -> Results] /\ terminate' \in [CallIds -> BOOLEAN]
      /\ \A j \in CallIds \ {i} : result'[j] = result[j] /\ terminate'[j] = terminate[j]
  BY <1>1 DEF Settle, TypeOK, Results
<1> DEFINE to == stage'[i]
<1>3. /\ to \in Stages \ {"waiting", "prepared", "done", "failed", "lost"}
      /\ stage' = [stage EXCEPT ![i] = to]
      /\ stage[i] \notin {"waiting", "done", "failed", "lost"}
  BY DEF TypeOK, Resolved, Truncated, HookRefuses, Executes, ExecuteSettles, UpdatesJoined,
         AfterHook, Stages, PreflightStages, ExecuteStages
<1>4. phase = "loop" => stage[i] # "prepared" /\ (mode = "parallel" => to \notin ExecuteStages)
  BY DEF LoopInv, TypeOK, Resolved, Truncated, HookRefuses, Executes, ExecuteSettles, UpdatesJoined,
         AfterHook, ExecuteStages
<1>5. phase # "loop" => to \notin PreflightStages /\ mode = "parallel"
  BY DEF PhaseInv, TypeOK, Resolved, Truncated, HookRefuses, Executes, ExecuteSettles, UpdatesJoined,
         AfterHook, PreflightStages, ExecuteStages
<1>6. /\ stage' \in [CallIds -> Stages] /\ PrefixInv' /\ LoopInv' /\ PhaseInv'
      /\ \A j \in CallIds \ {i} : stage'[j] = stage[j]
  BY <1>1, <1>3, <1>4, <1>5, MoveKeeps
<1>7. TypeOK'
  BY <1>1, <1>2, <1>6 DEF TypeOK
<1>8. CompletionInv'
  BY <1>1, <1>3, <1>6, CompletionStays
<1>9. CallOK(i)'
  <2>1. CASE Resolved(i)
    BY <2>1, <1>1, <1>2 DEF CallOK, Resolved, Settle, TypeOK
  <2>2. CASE Truncated(i)
    BY <2>2, <1>1, <1>2 DEF CallOK, Truncated, Settle, TypeOK
  <2>3. CASE HookRefuses(i)
    BY <2>3, <1>1, <1>2 DEF CallOK, HookRefuses, Settle, TypeOK
  <2>4. CASE Executes(i)
    BY <2>4, <1>1, <1>2 DEF CallOK, Executes, callVars, TypeOK
  <2>5. CASE ExecuteSettles(i)
    BY <2>5, <1>1, <1>2 DEF CallOK, ExecuteSettles, Settle, TypeOK
  <2>6. CASE UpdatesJoined(i)
    BY <2>6, <1>1, <1>2 DEF CallOK, UpdatesJoined, callVars, TypeOK
  <2>7. CASE AfterHook(i)
    BY <2>7, <1>1, <1>2 DEF CallOK, AfterHook, Settle, TypeOK
  <2> QED BY <2>1, <2>2, <2>3, <2>4, <2>5, <2>6, <2>7
<1>10. CallInv'
  BY <1>1, <1>2, <1>6, <1>9, OthersKeep
<1> QED BY <1>6, <1>7, <1>8, <1>10

\* A call whose before-hooks let it proceed executes, or waits for the gather.
LEMMA HookProceedsKeeps ==
  ASSUME IndInv, NEW i \in CallIds, HookProceeds(i)
  PROVE  IndInv'
<1> USE DEF IndInv
<1>1. /\ CallOK(i) /\ stage[i] = "hook" /\ phase = "loop"
      /\ UNCHANGED <<mode, aborted, result, terminate, inflight, updates, broken, completion>>
  BY DEF CallInv, HookProceeds, PhaseInv, PreflightStages, callVars
<1>2. mode # "length"
  BY <1>1 DEF CallOK
<1>3. CASE mode = "parallel"
  <2>1. Advance(i, "prepared")
    BY <1>3 DEF HookProceeds
  <2>2. /\ stage' \in [CallIds -> Stages] /\ phase' \in {"loop", "gather", "returned"}
        /\ stage'[i] = "prepared" /\ PrefixInv' /\ LoopInv' /\ PhaseInv'
        /\ \A j \in CallIds \ {i} :
              stage'[j] = stage[j] \/ (stage[j] = "waiting" /\ stage'[j] = "starting")
    BY <1>1, <1>3, <2>1, AdvanceKeeps
  <2>3. TypeOK'
    BY <1>1, <2>2 DEF TypeOK
  <2>4. CallOK(i)'
    BY <1>1, <1>2, <2>2 DEF CallOK
  <2>5. CallInv'
    BY <1>1, <2>2, <2>4, OthersKeep
  <2>6. CompletionInv'
    BY <1>1, <2>2, CompletionStays
  <2> QED BY <2>2, <2>3, <2>5, <2>6
<1>4. CASE mode # "parallel"
  <2>1. stage' = [stage EXCEPT ![i] = "executing"] /\ UNCHANGED phase
    BY <1>4 DEF HookProceeds
  <2>2. "executing" \in Stages \ {"waiting", "prepared"}
    BY DEF Stages, ExecuteStages
  <2>3. /\ stage' \in [CallIds -> Stages] /\ stage'[i] = "executing"
        /\ PrefixInv' /\ LoopInv' /\ PhaseInv' /\ \A j \in CallIds \ {i} : stage'[j] = stage[j]
    BY <1>1, <1>4, <2>1, <2>2, MoveKeeps
  <2>4. TypeOK'
    BY <1>1, <2>1, <2>3 DEF TypeOK
  <2>5. CallOK(i)'
    BY <1>1, <1>2, <2>3 DEF CallOK
  <2>6. CallInv'
    BY <1>1, <2>3, <2>5, OthersKeep
  <2>7. CompletionInv'
    BY <1>1, <2>3, CompletionStays
  <2> QED BY <2>3, <2>4, <2>6, <2>7
<1> QED BY <1>3, <1>4

\* The end of a call was reported.
LEMMA EndKeeps ==
  ASSUME IndInv, NEW i \in CallIds, ImmediateEnded(i) \/ EndDispatched(i)
  PROVE  IndInv'
<1> USE DEF IndInv
<1>1. /\ CallOK(i) /\ stage[i] \in {"immediate", "ending"}
      /\ UNCHANGED <<mode, aborted, result, terminate, inflight, updates, broken>>
      /\ completion' = Append(completion, i) /\ inflight[i] \in Nat
  BY DEF CallInv, ImmediateEnded, EndDispatched, callVars, TypeOK
<1>2. stage[i] = "ending" => mode # "length"
  BY <1>1 DEF CallOK
<1>3. CASE Advance(i, "done") /\ (stage[i] = "ending" => mode = "sequential")
  <2>1. phase = "loop"
    BY <1>1, <1>3 DEF PhaseInv, PreflightStages, ExecuteStages
  <2>2. /\ stage' \in [CallIds -> Stages] /\ phase' \in {"loop", "gather", "returned"}
        /\ stage'[i] = "done" /\ PrefixInv' /\ LoopInv' /\ PhaseInv'
        /\ \A j \in CallIds \ {i} :
              stage'[j] = stage[j] \/ (stage[j] = "waiting" /\ stage'[j] = "starting")
    BY <1>1, <1>3, <2>1, AdvanceKeeps
  <2>3. CompletionInv' /\ completion' \in Seq(CallIds) /\ Len(completion') <= N
    BY <1>1, <2>2, CompletionGrows
  <2>4. TypeOK'
    BY <1>1, <2>2, <2>3 DEF TypeOK
  <2>5. CallOK(i)'
    BY <1>1, <1>2, <2>2 DEF CallOK
  <2>6. CallInv'
    BY <1>1, <2>2, <2>5, OthersKeep
  <2> QED BY <2>2, <2>3, <2>4, <2>6
<1>4. CASE EndDispatched(i) /\ mode # "sequential"
  <2>1. /\ stage[i] = "ending" /\ stage' = [stage EXCEPT ![i] = "done"] /\ UNCHANGED phase
        /\ "done" \in Stages \ {"waiting", "prepared"}
    BY <1>4 DEF EndDispatched, Stages
  <2>2. mode = "parallel" /\ phase # "loop"
    BY <1>1, <1>2, <1>4, <2>1 DEF TypeOK, LoopInv, ExecuteStages
  <2>3. /\ stage' \in [CallIds -> Stages] /\ stage'[i] = "done"
        /\ PrefixInv' /\ LoopInv' /\ PhaseInv' /\ \A j \in CallIds \ {i} : stage'[j] = stage[j]
    BY <1>1, <2>1, <2>2, MoveKeeps DEF PreflightStages
  <2>4. CompletionInv' /\ completion' \in Seq(CallIds) /\ Len(completion') <= N
    BY <1>1, <2>1, <2>3, CompletionGrows
  <2>5. TypeOK'
    BY <1>1, <2>1, <2>3, <2>4 DEF TypeOK
  <2>6. CallOK(i)'
    BY <1>1, <2>1, <2>2, <2>3 DEF CallOK
  <2>7. CallInv'
    BY <1>1, <2>3, <2>6, OthersKeep
  <2> QED BY <2>3, <2>4, <2>5, <2>7
<1> QED BY <1>3, <1>4 DEF ImmediateEnded, EndDispatched

\* A call or its listener raises.
LEMMA RaisesKeeps ==
  ASSUME IndInv, NEW i \in CallIds, Raises(i)
  PROVE  IndInv'
<1> USE DEF IndInv
<1> DEFINE to == stage'[i]
<1>1. /\ CallOK(i) /\ stage[i] \in {"starting", "immediate", "joining", "ending"}
      /\ UNCHANGED <<mode, aborted, result, terminate, inflight, updates, broken, completion>>
      /\ phase' = IF phase = "loop" THEN "raised" ELSE phase
  BY DEF CallInv, Raises, callVars
<1>2. /\ to \in {"failed", "lost"} /\ stage' = [stage EXCEPT ![i] = to]
      /\ stage' \in [CallIds -> Stages] /\ \A j \in CallIds \ {i} : stage'[j] = stage[j]
  BY DEF Raises, TypeOK, Stages
<1>3. TypeOK'
  BY <1>1, <1>2 DEF TypeOK
<1>4. CallOK(i)'
  BY <1>1, <1>2 DEF CallOK
<1>5. CallInv'
  BY <1>1, <1>2, <1>4, OthersKeep
<1>6. CompletionInv'
  BY <1>1, <1>2, CompletionStays
<1>7. PrefixInv' /\ LoopInv' /\ PhaseInv'
  <2>1. CASE phase = "loop"
    <3>1. PrefixInv' /\ LoopInv'
      BY <1>1, <1>2, <2>1, PrefixStays DEF LoopInv
    <3>2. \A j \in CallIds \ {i} : stage'[j] \in {"done", "prepared", "waiting"}
      BY <1>1, <1>2, <2>1, ToolBatchAssumption DEF LoopInv, CallIds
    <3>3. \A j \in CallIds : stage'[j] = "prepared" => mode = "parallel"
      BY <1>2, <2>1 DEF LoopInv
    <3> QED BY <1>1, <1>2, <2>1, <3>1, <3>2, <3>3 DEF PhaseInv, PreflightStages, ExecuteStages
  <2>2. CASE phase # "loop"
    <3>1. mode = "parallel"
      BY <1>1, <2>2 DEF PhaseInv, PreflightStages, ExecuteStages
    <3>2. to \in Stages \ {"waiting", "prepared"} /\ to \notin PreflightStages
      BY <1>2 DEF Stages, PreflightStages
    <3> QED BY <1>1, <1>2, <2>2, <3>1, <3>2, MoveKeeps
  <2> QED BY <2>1, <2>2
<1> QED BY <1>3, <1>5, <1>6, <1>7

\* Updates are dispatched while the call executes, and may end in any order.
LEMMA UpdatesKeep ==
  ASSUME IndInv, NEW i \in CallIds, Update(i) \/ UpdateDispatched(i) \/ UpdateRaises(i)
  PROVE  IndInv'
<1> USE DEF IndInv
<1>1. CallOK(i) /\ inflight[i] \in 0..MaxUpdates /\ updates[i] \in 0..MaxUpdates /\ MaxUpdates \in Nat
  BY ToolBatchAssumption DEF CallInv, TypeOK
<1>2. UNCHANGED <<mode, phase, stage, aborted, result, terminate, completion>>
  BY DEF Update, UpdateDispatched, UpdateRaises
<1>3. PrefixInv' /\ LoopInv' /\ PhaseInv' /\ CompletionInv'
  BY <1>2 DEF PrefixInv, LoopInv, PhaseInv, CompletionInv
<1>4. TypeOK' /\ CallOK(i)'
  <2>1. CASE Update(i)
    BY <2>1, <1>1, <1>2 DEF Update, TypeOK, CallOK
  <2>2. CASE UpdateDispatched(i)
    BY <2>2, <1>1, <1>2 DEF UpdateDispatched, TypeOK, CallOK
  <2>3. CASE UpdateRaises(i)
    BY <2>3, <1>1, <1>2 DEF UpdateRaises, TypeOK, CallOK
  <2> QED BY <2>1, <2>2, <2>3
<1>5. \A j \in CallIds \ {i} :
        inflight'[j] = inflight[j] /\ updates'[j] = updates[j] /\ broken'[j] = broken[j]
  BY DEF Update, UpdateDispatched, UpdateRaises, TypeOK
<1>6. CallInv'
  BY <1>2, <1>4, <1>5, OthersKeep
<1> QED BY <1>3, <1>4, <1>6

\* The steps of the batch as a whole.
LEMMA BatchSteps ==
  ASSUME IndInv, Begins \/ GatherRaises \/ GatherReturns \/ Cancelled \/ Abort
  PROVE  IndInv'
<1> USE DEF IndInv
<1>1. N \in Nat \ {0} /\ 1 \in CallIds
  BY ToolBatchAssumption DEF CallIds
<1>2. CASE Begins
  <2>1. /\ phase = "loop" /\ \A j \in CallIds : stage[j] = "waiting"
        /\ stage' = [stage EXCEPT ![1] = "starting"]
        /\ UNCHANGED <<mode, phase, aborted, result, terminate, inflight, updates, broken, completion>>
    BY <1>2 DEF Begins, callVars
  <2>2. /\ stage' \in [CallIds -> Stages] /\ stage'[1] = "starting"
        /\ \A j \in CallIds \ {1} : stage'[j] = "waiting"
    BY <1>1, <2>1 DEF TypeOK, Stages, PreflightStages
  <2>3. TypeOK'
    BY <2>1, <2>2 DEF TypeOK
  <2>4. CallOK(1)'
    BY <1>1, <2>1, <2>2 DEF CallInv, CallOK
  <2>5. CallInv'
    BY <1>1, <2>1, <2>2, <2>4, OthersKeep
  <2>6. PrefixInv' /\ LoopInv'
    <3>1. \A j \in CallIds : stage'[j] # "waiting" <=> j <= 1
      BY <1>1, <2>2 DEF CallIds
    <3>2. PrefixInv'
      BY <1>1, <3>1 DEF PrefixInv
    <3> QED BY <1>1, <2>1, <2>2, <3>2 DEF LoopInv, CallIds, ExecuteStages
  <2>7. PhaseInv'
    BY <2>1 DEF PhaseInv
  <2>8. CompletionInv'
    BY <2>1, <2>2, CompletionStays
  <2> QED BY <2>3, <2>5, <2>6, <2>7, <2>8
<1>3. CASE GatherRaises \/ GatherReturns
  <2>1. /\ phase = "gather" /\ phase' \in {"raised", "returned"}
        /\ phase' = "returned" => \A j \in CallIds : stage[j] \in {"done", "waiting"}
        /\ UNCHANGED <<mode, stage, aborted, result, terminate, inflight, updates, broken, completion>>
    BY <1>3 DEF GatherRaises, GatherReturns, callVars
  <2>2. TypeOK' /\ CallInv' /\ PrefixInv' /\ LoopInv' /\ CompletionInv'
    BY <2>1 DEF TypeOK, CallInv, CallOK, PrefixInv, LoopInv, CompletionInv
  <2>3. PhaseInv'
    BY <2>1 DEF PhaseInv
  <2> QED BY <2>2, <2>3
<1>4. CASE Cancelled
  <2>1. /\ phase' = "raised"
        /\ UNCHANGED <<mode, aborted, result, terminate, inflight, updates, broken, completion>>
    BY <1>4 DEF Cancelled, callVars
  <2>2. /\ stage' \in [CallIds -> Stages]
        /\ \A j \in CallIds :
              IF stage[j] \in {"waiting", "done", "failed", "lost"} THEN stage'[j] = stage[j]
              ELSE stage'[j] \in {"failed", "lost"}
    <3>1. ASSUME NEW j \in CallIds
          PROVE  IF stage[j] \in {"waiting", "done", "failed", "lost"} THEN stage'[j] = stage[j]
                 ELSE stage'[j] \in {"failed", "lost"}
      BY <1>4 DEF Cancelled
    <3>2. stage[1] \in Stages /\ {"failed", "lost"} \subseteq Stages
      BY <1>1 DEF TypeOK, Stages
    <3>3. stage' \in [CallIds -> Stages]
      <4>1. \A j \in CallIds : stage'[j] \in Stages
        BY <3>1, <3>2 DEF TypeOK
      <4>2. stage' = [j \in CallIds |-> stage'[j]]
        BY <1>4 DEF Cancelled
      <4> QED BY <4>1, <4>2
    <3> QED BY <3>1, <3>3
  <2>3. TypeOK'
    BY <2>1, <2>2 DEF TypeOK
  <2>4. CallInv'
    <3> SUFFICES ASSUME NEW j \in CallIds PROVE CallOK(j)'
      BY DEF CallInv
    <3> QED BY <2>1, <2>2 DEF CallInv, CallOK
  <2>5. PrefixInv' /\ LoopInv'
    BY <2>1, <2>2, PrefixStays DEF LoopInv
  <2>6. PhaseInv'
    BY <2>1, <2>2 DEF PhaseInv, PreflightStages, ExecuteStages
  <2>7. CompletionInv'
    BY <2>1, <2>2, CompletionStays
  <2> QED BY <2>3, <2>4, <2>5, <2>6, <2>7
<1>5. CASE Abort
  <2>1. /\ aborted' = TRUE
        /\ UNCHANGED <<mode, phase, stage, result, terminate, inflight, updates, broken, completion>>
    BY <1>5 DEF Abort, callVars
  <2> QED BY <2>1 DEF TypeOK, CallInv, CallOK, PrefixInv, LoopInv, PhaseInv, CompletionInv
<1> QED BY <1>2, <1>3, <1>4, <1>5

\* The order of a batch is an inductive invariant.
LEMMA IndInvInductive == Spec => []IndInv
<1>1. Init => IndInv
  <2> SUFFICES ASSUME Init PROVE IndInv
    OBVIOUS
  <2> USE DEF Init, InitAt
  <2>1. TypeOK
    BY ToolBatchAssumption DEF TypeOK, Stages, Results
  <2>2. CallInv
    BY DEF CallInv, CallOK
  <2>3. PrefixInv
    <3>1. \A j \in CallIds : stage[j] # "waiting" <=> j <= 0
      BY ToolBatchAssumption DEF CallIds
    <3> QED BY <3>1, ToolBatchAssumption DEF PrefixInv
  <2>4. LoopInv /\ PhaseInv /\ CompletionInv
    BY DEF LoopInv, PhaseInv, CompletionInv, ExecuteStages
  <2> QED BY <2>1, <2>2, <2>3, <2>4 DEF IndInv
<1>2. IndInv /\ [Next]_vars => IndInv'
  <2> SUFFICES ASSUME IndInv, [Next]_vars PROVE IndInv'
    OBVIOUS
  <2>1. CASE UNCHANGED vars
    BY <2>1 DEF vars, IndInv, TypeOK, CallInv, CallOK, PrefixInv, LoopInv, PhaseInv, CompletionInv
  <2>2. CASE Next
    BY <2>2, CallSteps, HookProceedsKeeps, EndKeeps, RaisesKeeps, UpdatesKeep, BatchSteps
       DEF Next, Progress, Delivers
  <2> QED BY <2>1, <2>2
<1> QED BY <1>1, <1>2, PTL DEF Spec

\* Once the calls 1..k and only those are done, completion_order has length k.
LEMMA CompletionCounts ==
  ASSUME IndInv, NEW k \in CallIds, \A i \in CallIds : stage[i] = "done" <=> i \in 1..k
  PROVE  Len(completion) = k /\ {completion[j] : j \in 1..k} = 1..k
<1>1. completion \in Seq(CallIds) /\ k \in Nat /\ 1..k \subseteq CallIds
  BY ToolBatchAssumption DEF IndInv, TypeOK, CallIds
<1>2. \A j \in 1..Len(completion) : completion[j] \in CallIds /\ completion[j] \in 1..k
  <2> SUFFICES ASSUME NEW j \in 1..Len(completion)
               PROVE  completion[j] \in CallIds /\ completion[j] \in 1..k
    OBVIOUS
  <2>1. completion[j] \in CallIds
    BY <1>1
  <2>2. stage[completion[j]] = "done"
    BY <2>1 DEF IndInv, CompletionInv
  <2> QED BY <2>1, <2>2
<1>3. completion \in Injection(1..Len(completion), 1..k)
  BY <1>1, <1>2 DEF IndInv, CompletionInv, Injection, IsInjective
<1>4. completion \in Surjection(1..Len(completion), 1..k)
  BY <1>1, <1>2 DEF IndInv, CompletionInv, Surjection
<1>5. IsFiniteSet(1..k) /\ Cardinality(1..k) = k
  BY <1>1, FS_Interval, 1 \in Int, k \in Int DEF CallIds
<1>6. Len(completion) \in Nat /\ Cardinality(1..Len(completion)) = Len(completion)
  <2>1. \A n \in Nat : Cardinality(1..n) = n
    BY FS_Interval
  <2>2. Len(completion) \in Nat
    BY <1>1
  <2> QED BY <2>1, <2>2
<1>7. Len(completion) = k
  BY <1>3, <1>4, <1>5, <1>6, FS_Injection
<1> QED BY <1>1, <1>2, <1>4, <1>7 DEF Surjection

\* Whatever raises, is cancelled or is aborted, preflights come before
\* executions, updates before ends, and execute_batch returns one result for
\* each call of a prefix, the whole batch unless it was aborted.
THEOREM BatchInOrder == Spec => []BatchOrdered
<1>1. IndInv => BatchOrdered
  <2> SUFFICES ASSUME IndInv PROVE BatchOrdered
    OBVIOUS
  <2> USE DEF IndInv
  <2>1. N \in Nat \ {0} /\ 1 \in CallIds
    BY ToolBatchAssumption DEF CallIds
  <2>2. EndAfterUpdates
    BY DEF CallInv, CallOK, EndAfterUpdates
  <2>3. PreflightBarrier
    <3>1. mode = "parallel" /\ (\E i \in CallIds : stage[i] \in ExecuteStages)
            => \A i \in CallIds : stage[i] \notin PreflightStages
      BY DEF LoopInv, PhaseInv
    <3>2. ASSUME mode # "parallel"
          PROVE  Cardinality({i \in CallIds : stage[i] \in PreflightStages \cup ExecuteStages}) <= 1
      <4> DEFINE S == {i \in CallIds : stage[i] \in PreflightStages \cup ExecuteStages}
      <4>1. \A i, j \in S : i = j
        BY <2>1, <3>2 DEF LoopInv, PhaseInv, CallIds, PreflightStages, ExecuteStages
      <4>2. S = {} \/ \E i \in S : S = {i}
        BY <4>1
      <4>3. CASE S = {}
        BY <4>3, FS_EmptySet
      <4>4. CASE \E i \in S : S = {i}
        <5>1. PICK i \in S : S = {i}
          BY <4>4
        <5>2. Cardinality(S) = 1
          BY <5>1, FS_Singleton
        <5> QED BY <5>2
      <4> QED BY <4>2, <4>3, <4>4
    <3> QED BY <3>1, <3>2 DEF PreflightBarrier
  <2>4. ReturnedBatch
    <3> SUFFICES ASSUME phase = "returned" PROVE ReturnedBatch
      BY DEF ReturnedBatch
    <3>1. PICK k \in 0..N : \A i \in CallIds : stage[i] # "waiting" <=> i <= k
      BY DEF PrefixInv
    <3>2. /\ stage[1] # "waiting"
          /\ \A i \in CallIds : stage[i] = "waiting" => aborted /\ mode # "length"
          /\ \A i \in CallIds : stage[i] \in {"done", "waiting"}
      BY DEF PhaseInv
    <3>3. k \in CallIds /\ 1..k \subseteq CallIds /\ Retained = 1..k
      BY <2>1, <3>1, <3>2 DEF CallIds, Retained
    <3>4. \A i \in CallIds : stage[i] = "done" <=> i \in 1..k
      BY <2>1, <3>1, <3>2 DEF CallIds
    <3>5. \A i \in 1..k : stage[i] = "done" /\ result[i] # "none"
      BY <3>3, <3>4 DEF CallInv, CallOK
    <3>6. k < N => aborted /\ mode # "length"
      <4>1. k < N => N \in CallIds /\ stage[N] = "waiting"
        BY <2>1, <3>1 DEF CallIds
      <4> QED BY <3>2, <4>1
    <3>7. Len(completion) = k /\ {completion[j] : j \in 1..k} = 1..k
      BY <3>3, <3>4, CompletionCounts
    <3>8. mode = "length" => \A i \in CallIds : result[i] = "truncated" /\ ~terminate[i]
      BY <3>2 DEF CallInv, CallOK
    <3> QED BY <3>3, <3>5, <3>6, <3>7, <3>8 DEF ReturnedBatch
  <2> QED BY <2>2, <2>3, <2>4 DEF BatchOrdered
<1> QED BY <1>1, IndInvInductive, PTL

\* A step of an aborted batch that has begun neither starts a call nor lets
\* one past its preflight.
LEMMA AbortedStep ==
  ASSUME TypeOK, Next, aborted, mode # "length", Retained # {}
  PROVE  /\ Retained' = Retained
         /\ \A i \in CallIds :
               stage[i] \in PreflightStages => stage'[i] \notin {"prepared", "executing"}
<1> DEFINE Kept(i) == /\ stage'[i] = "waiting" <=> stage[i] = "waiting"
                      /\ stage[i] \in PreflightStages => stage'[i] \notin {"prepared", "executing"}
<1> SUFFICES \A i \in CallIds : Kept(i)
  BY DEF Retained
<1>1. ASSUME NEW i \in CallIds, Progress(i) PROVE \A j \in CallIds : Kept(j)
  <2>1. ASSUME NEW to \in Stages, stage[i] # "waiting", to # "waiting", stage' = [stage EXCEPT ![i] = to],
               stage[i] \in PreflightStages => to \notin {"prepared", "executing"}
        PROVE  \A j \in CallIds : Kept(j)
    <3>1. stage'[i] = to /\ \A j \in CallIds \ {i} : stage'[j] = stage[j]
      BY <2>1 DEF TypeOK
    <3>2. \A j \in CallIds \ {i} : Kept(j)
      BY <3>1 DEF PreflightStages
    <3> QED BY <2>1, <3>1, <3>2
  <2>2. CASE Resolved(i) \/ Truncated(i) \/ HookRefuses(i) \/ Executes(i)
    BY <2>1, <2>2 DEF Resolved, Truncated, HookRefuses, Executes, Stages, PreflightStages, ExecuteStages
  <2>3. CASE ExecuteSettles(i) \/ UpdatesJoined(i) \/ AfterHook(i)
    BY <2>1, <2>3 DEF ExecuteSettles, UpdatesJoined, AfterHook, Stages, PreflightStages, ExecuteStages
  <2>4. CASE ImmediateEnded(i) \/ EndDispatched(i)
    BY <2>1, <2>4 DEF ImmediateEnded, EndDispatched, Advance, Stages
  <2>5. CASE Raises(i)
    BY <2>1, <2>5 DEF Raises, Stages
  <2>6. ~HookProceeds(i)
    BY DEF HookProceeds
  <2> QED BY <1>1, <2>2, <2>3, <2>4, <2>5, <2>6 DEF Progress
<1>2. CASE Cancelled
  BY <1>2 DEF Cancelled, TypeOK
<1>3. ~Begins
  BY DEF Begins, Retained
<1>4. CASE UNCHANGED stage
  BY <1>4 DEF PreflightStages
<1> QED BY <1>1, <1>2, <1>3, <1>4
        DEF Next, Update, Delivers, UpdateDispatched, UpdateRaises, GatherRaises, GatherReturns, Abort

\* Once the signal of a batch that has begun is aborted no further call starts
\* and no call passes its preflight, whichever task runs next.
THEOREM AbortedBatchFrozen == Spec => AbortFreezes
<1>1. IndInv /\ [Next]_vars =>
        [aborted /\ mode # "length" /\ Retained # {} =>
           /\ Retained' = Retained
           /\ \A i \in CallIds :
                 stage[i] \in PreflightStages => stage'[i] \notin {"prepared", "executing"}]_vars
  BY AbortedStep DEF IndInv
<1> QED BY <1>1, IndInvInductive, PTL DEF Spec, AbortFreezes

-----------------------------------------------------------------------------
(* The batch implements its contract: the steps of the loop that start a   *)
(* call, report its end or leave the loop are the contract's steps, and    *)
(* everything else a batch does is invisible to the driver.                *)

\* The contract's variables, read off the batch.
ToDo == {i \in CallIds : stage[i] = "waiting"}
PendingStages == {"starting", "hook", "prepared", "executing", "joining", "after", "lost"}
PendingCalls == {i \in CallIds : stage[i] \in PendingStages}
Outcome == IF phase \in {"returned", "raised"} THEN phase ELSE "running"

\* A step that moves no call between the contract's sets.
LEMMA InvisibleStep ==
  ASSUME UNCHANGED <<mode, aborted>>, Outcome' = Outcome,
         \A j \in CallIds : /\ stage'[j] = "waiting" <=> stage[j] = "waiting"
                            /\ stage'[j] \in PendingStages <=> stage[j] \in PendingStages
  PROVE  UNCHANGED Contract!contractVars
<1>1. ToDo' = ToDo /\ PendingCalls' = PendingCalls
  BY DEF ToDo, PendingCalls
<1> QED BY <1>1 DEF Contract!contractVars, ToDo, PendingCalls, PendingStages, Outcome

\* The end of one pending call.
LEMMA EndStep ==
  ASSUME NEW i \in CallIds, UNCHANGED <<mode, aborted>>, Outcome' = Outcome,
         stage[i] \in PendingStages, stage'[i] \notin PendingStages, stage'[i] # "waiting",
         \A j \in CallIds \ {i} : stage'[j] = stage[j]
  PROVE  Contract!End
<1>1. stage[i] # "waiting"
  BY DEF PendingStages
<1>2. ToDo' = ToDo /\ i \in PendingCalls /\ PendingCalls' = PendingCalls \ {i}
  BY <1>1 DEF ToDo, PendingCalls
<1> QED BY <1>2 DEF Contract!End, ToDo, PendingCalls, PendingStages, Outcome

\* The start of the next call, while call i stays where the contract has it.
LEMMA StartStep ==
  ASSUME NEW n \in CallIds, UNCHANGED <<mode, aborted>>, Outcome' = Outcome, Outcome = "running",
         mode = "length" \/ ~aborted \/ ToDo = CallIds,
         stage[n] = "waiting", stage'[n] = "starting",
         \A j \in CallIds \ {n} : /\ stage'[j] = "waiting" <=> stage[j] = "waiting"
                                  /\ stage'[j] \in PendingStages <=> stage[j] \in PendingStages
  PROVE  Contract!Start
<1>1. stage[n] \notin PendingStages /\ stage'[n] \in PendingStages
  BY DEF PendingStages
<1>2. n \in ToDo /\ ToDo' = ToDo \ {n} /\ PendingCalls' = PendingCalls \cup {n}
  BY <1>1 DEF ToDo, PendingCalls
<1> QED BY <1>2 DEF Contract!Start, ToDo, PendingCalls, PendingStages, Outcome

\* The batch returns: nothing is pending, and calls are left only by an abort.
LEMMA ReturnStep ==
  ASSUME IndInv, IndInv', UNCHANGED <<mode, aborted>>, Outcome = "running", phase' = "returned",
         \A j \in CallIds : /\ stage'[j] = "waiting" <=> stage[j] = "waiting"
                            /\ stage'[j] \in PendingStages <=> stage[j] \in PendingStages
  PROVE  Contract!Return
<1>1. /\ \A j \in CallIds : stage'[j] \in {"done", "waiting"}
      /\ stage'[1] # "waiting"
      /\ \A j \in CallIds : stage'[j] = "waiting" => aborted /\ mode # "length"
  BY DEF IndInv, PhaseInv
<1>2. 1 \in CallIds
  BY ToolBatchAssumption DEF CallIds
<1>3. ToDo' = ToDo /\ PendingCalls' = PendingCalls
  BY DEF ToDo, PendingCalls
<1>4. PendingCalls = {}
  BY <1>1, <1>3 DEF PendingCalls, PendingStages
<1>5. ToDo # CallIds
  BY <1>1, <1>2 DEF ToDo
<1>6. ToDo = {} \/ (aborted /\ ~(mode = "length"))
  BY <1>1, <1>3 DEF ToDo
<1>7. Outcome' = "returned"
  BY DEF Outcome
<1> QED BY <1>3, <1>4, <1>5, <1>6, <1>7 DEF Contract!Return, ToDo, PendingCalls, PendingStages, Outcome

\* The batch raises, whatever its calls are doing.
LEMMA RaiseStep ==
  ASSUME UNCHANGED <<mode, aborted>>, Outcome = "running", phase' = "raised",
         \A j \in CallIds : /\ stage'[j] = "waiting" <=> stage[j] = "waiting"
                            /\ stage'[j] \in PendingStages <=> stage[j] \in PendingStages
  PROVE  Contract!Raise
<1>1. ToDo' = ToDo /\ PendingCalls' = PendingCalls
  BY DEF ToDo, PendingCalls
<1>2. Outcome' = "raised"
  BY DEF Outcome
<1> QED BY <1>1, <1>2 DEF Contract!Raise, ToDo, PendingCalls, PendingStages, Outcome

\* Moving on in the loop starts the next call, returns, or begins the gather.
LEMMA AdvanceStep ==
  ASSUME IndInv, IndInv', NEW i \in CallIds, NEW to \in {"done", "prepared"},
         phase = "loop", stage[i] \in {"hook", "immediate", "ending"},
         to \in PendingStages <=> stage[i] \in PendingStages,
         Advance(i, to), UNCHANGED <<mode, aborted>>
  PROVE  Contract!Next \/ UNCHANGED Contract!contractVars
<1>1. N \in Nat \ {0} /\ Outcome = "running" /\ stage \in [CallIds -> Stages]
  BY ToolBatchAssumption DEF Outcome, IndInv, TypeOK
<1>2. CASE i < N /\ (mode = "length" \/ ~aborted)
  <2>1. /\ i + 1 \in CallIds /\ i + 1 # i /\ UNCHANGED phase
        /\ stage' = [stage EXCEPT ![i] = to, ![i + 1] = "starting"]
    BY <1>1, <1>2 DEF Advance, CallIds
  <2>2. stage[i + 1] = "waiting"
    <3>1. i < i + 1
      BY <1>1 DEF CallIds
    <3> QED BY <2>1, <3>1 DEF IndInv, LoopInv
  <2>3. /\ stage'[i + 1] = "starting" /\ stage'[i] = to
        /\ \A j \in CallIds \ {i, i + 1} : stage'[j] = stage[j]
    BY <1>1, <2>1
  <2>4. \A j \in CallIds \ {i + 1} : /\ stage'[j] = "waiting" <=> stage[j] = "waiting"
                                     /\ stage'[j] \in PendingStages <=> stage[j] \in PendingStages
    BY <2>3
  <2>5. Outcome' = Outcome
    BY <2>1 DEF Outcome
  <2>6. Contract!Start
    BY <1>1, <1>2, <2>1, <2>2, <2>3, <2>4, <2>5, StartStep
  <2> QED BY <2>6 DEF Contract!Next
<1>3. CASE ~(i < N /\ (mode = "length" \/ ~aborted))
  <2>1. /\ stage' = [stage EXCEPT ![i] = to]
        /\ phase' = IF mode = "parallel" THEN "gather" ELSE "returned"
    BY <1>3 DEF Advance
  <2>2. stage'[i] = to /\ \A j \in CallIds \ {i} : stage'[j] = stage[j]
    BY <1>1, <2>1
  <2>3. \A j \in CallIds : /\ stage'[j] = "waiting" <=> stage[j] = "waiting"
                           /\ stage'[j] \in PendingStages <=> stage[j] \in PendingStages
    BY <2>2
  <2>4. CASE mode = "parallel"
    <3>1. Outcome' = Outcome
      BY <1>1, <2>1, <2>4 DEF Outcome
    <3> QED BY <2>3, <3>1, InvisibleStep
  <2>5. CASE mode # "parallel"
    BY <1>1, <2>1, <2>3, <2>5, ReturnStep DEF Contract!Next
  <2> QED BY <2>4, <2>5
<1> QED BY <1>2, <1>3

\* Every step of a call is a step of the contract or none.
LEMMA CallRefines ==
  ASSUME IndInv, IndInv', NEW i \in CallIds, Progress(i)
  PROVE  Contract!Next \/ UNCHANGED Contract!contractVars
<1>1. /\ UNCHANGED <<mode, aborted>> /\ stage \in [CallIds -> Stages]
      /\ stage[i] \in PreflightStages => phase = "loop"
  BY DEF Progress, Resolved, Truncated, HookRefuses, HookProceeds, ImmediateEnded, Executes,
         ExecuteSettles, UpdatesJoined, AfterHook, EndDispatched, Raises, IndInv, TypeOK, PhaseInv
<1>2. ASSUME NEW to \in Stages \ {"waiting"}, UNCHANGED phase,
             stage[i] # "waiting", stage' = [stage EXCEPT ![i] = to],
             to \in PendingStages => stage[i] \in PendingStages
      PROVE  Contract!Next \/ UNCHANGED Contract!contractVars
  <2>1. stage'[i] = to /\ \A j \in CallIds \ {i} : stage'[j] = stage[j]
    BY <1>1, <1>2
  <2>2. Outcome' = Outcome
    BY <1>2 DEF Outcome
  <2>3. CASE to \in PendingStages \/ stage[i] \notin PendingStages
    BY <1>1, <1>2, <2>1, <2>2, <2>3, InvisibleStep
  <2>4. CASE to \notin PendingStages /\ stage[i] \in PendingStages
    BY <1>1, <1>2, <2>1, <2>2, <2>4, EndStep DEF Contract!Next
  <2> QED BY <2>3, <2>4
<1>3. CASE Resolved(i) \/ Truncated(i) \/ HookRefuses(i) \/ Executes(i)
  BY <1>2, <1>3 DEF Resolved, Truncated, HookRefuses, Executes, Stages, PreflightStages,
                    ExecuteStages, PendingStages
<1>4. CASE ExecuteSettles(i) \/ UpdatesJoined(i) \/ AfterHook(i)
  BY <1>2, <1>4 DEF ExecuteSettles, UpdatesJoined, AfterHook, Stages, ExecuteStages, PendingStages
<1>5. CASE HookProceeds(i)
  <2>1. CASE mode = "parallel"
    BY <1>1, <1>5, <2>1, AdvanceStep DEF HookProceeds, PreflightStages, PendingStages
  <2>2. CASE mode # "parallel"
    BY <1>2, <1>5, <2>2 DEF HookProceeds, Stages, ExecuteStages, PendingStages
  <2> QED BY <2>1, <2>2
<1>6. CASE ImmediateEnded(i)
  BY <1>1, <1>6, AdvanceStep DEF ImmediateEnded, PreflightStages, PendingStages
<1>7. CASE EndDispatched(i)
  <2>1. CASE mode = "sequential"
    <3>1. phase = "loop"
      BY <1>7, <2>1 DEF EndDispatched, IndInv, PhaseInv, ExecuteStages
    <3> QED BY <1>1, <1>7, <2>1, <3>1, AdvanceStep DEF EndDispatched, PendingStages
  <2>2. CASE mode # "sequential"
    BY <1>2, <1>7, <2>2 DEF EndDispatched, Stages, PendingStages
  <2> QED BY <2>1, <2>2
<1>8. CASE Raises(i)
  <2>1. /\ stage[i] \in {"starting", "immediate", "joining", "ending"}
        /\ stage' = [stage EXCEPT ![i] = IF stage[i] \in {"immediate", "ending"} THEN "failed" ELSE "lost"]
        /\ phase' = IF phase = "loop" THEN "raised" ELSE phase
    BY <1>8 DEF Raises
  <2>2. CASE phase = "loop"
    <3>1. \A j \in CallIds \ {i} : stage'[j] = stage[j]
      BY <1>1, <2>1
    <3>2. stage'[i] # "waiting" /\ (stage'[i] \in PendingStages <=> stage[i] \in PendingStages)
      BY <1>1, <2>1 DEF PendingStages
    <3>3. Outcome = "running"
      BY <2>2 DEF Outcome
    <3>4. Contract!Raise
      BY <1>1, <2>1, <2>2, <3>1, <3>2, <3>3, RaiseStep
    <3> QED BY <3>4 DEF Contract!Next
  <2>3. CASE phase # "loop"
    <3>1. CASE stage[i] \in {"immediate", "ending"}
      <4>1. stage' = [stage EXCEPT ![i] = "failed"] /\ UNCHANGED phase
        BY <2>1, <2>3, <3>1
      <4> QED BY <1>2, <3>1, <4>1 DEF Stages, PendingStages
    <3>2. CASE stage[i] \in {"starting", "joining"}
      <4>1. stage' = [stage EXCEPT ![i] = "lost"] /\ UNCHANGED phase
        BY <2>1, <2>3, <3>2
      <4> QED BY <1>2, <3>2, <4>1 DEF Stages, PendingStages
    <3> QED BY <2>1, <3>1, <3>2
  <2> QED BY <2>2, <2>3
<1> QED BY <1>3, <1>4, <1>5, <1>6, <1>7, <1>8 DEF Progress

\* Every step of the batch is a step of the contract or none.
LEMMA StepRefines ==
  ASSUME IndInv, IndInv', Next
  PROVE  Contract!Next \/ UNCHANGED Contract!contractVars
<1>1. CASE \E i \in CallIds : Progress(i)
  BY <1>1, CallRefines
<1>2. CASE \E i \in CallIds : Update(i) \/ Delivers(i)
  <2>1. UNCHANGED <<mode, aborted, phase, stage>>
    BY <1>2 DEF Update, Delivers, UpdateDispatched, UpdateRaises
  <2> QED BY <2>1 DEF Contract!contractVars
<1>3. CASE Begins
  <2>1. 1 \in CallIds /\ stage \in [CallIds -> Stages]
    BY ToolBatchAssumption DEF CallIds, IndInv, TypeOK
  <2>2. /\ stage[1] = "waiting" /\ stage'[1] = "starting" /\ ToDo = CallIds
        /\ \A j \in CallIds \ {1} : stage'[j] = stage[j]
        /\ Outcome = "running" /\ Outcome' = Outcome /\ UNCHANGED <<mode, aborted>>
    BY <1>3, <2>1 DEF Begins, ToDo, Outcome
  <2>3. Contract!Start
    BY <2>1, <2>2, StartStep
  <2> QED BY <2>3 DEF Contract!Next
<1>4. CASE GatherRaises
  <2>1. Contract!Raise
    BY <1>4, RaiseStep DEF GatherRaises, Outcome
  <2> QED BY <2>1 DEF Contract!Next
<1>5. CASE GatherReturns
  <2>1. Contract!Return
    BY <1>5, ReturnStep DEF GatherReturns, Outcome
  <2> QED BY <2>1 DEF Contract!Next
<1>6. CASE Cancelled
  <2>1. \A j \in CallIds : /\ stage'[j] = "waiting" <=> stage[j] = "waiting"
                           /\ stage'[j] \in PendingStages <=> stage[j] \in PendingStages
    <3> SUFFICES ASSUME NEW j \in CallIds
                 PROVE  /\ stage'[j] = "waiting" <=> stage[j] = "waiting"
                        /\ stage'[j] \in PendingStages <=> stage[j] \in PendingStages
      OBVIOUS
    <3>1. stage[j] \in Stages
      BY DEF IndInv, TypeOK
    <3> QED BY <1>6, <3>1 DEF Cancelled, Stages, PreflightStages, ExecuteStages, PendingStages
  <2>2. Outcome = "running" /\ phase' = "raised" /\ UNCHANGED <<mode, aborted>>
    BY <1>6 DEF Cancelled, Outcome
  <2>3. Contract!Raise
    BY <2>1, <2>2, RaiseStep
  <2> QED BY <2>3 DEF Contract!Next
<1>7. CASE Abort
  <2>1. Contract!Abort
    BY <1>7 DEF Abort, Contract!Abort
  <2> QED BY <2>1 DEF Contract!Next
<1> QED BY <1>1, <1>2, <1>3, <1>4, <1>5, <1>6, <1>7 DEF Next

\* A batch of any length behaves as the driver's turn assumes of it: it starts
\* nothing once aborted and returns only when no call is pending.
THEOREM BatchMeetsContract == Spec => ImplementsContract
<1>1. Init => Contract!Init
  <2> SUFFICES ASSUME Init PROVE Contract!Init
    OBVIOUS
  <2>1. ToDo = CallIds /\ PendingCalls = {} /\ Outcome = "running"
    BY DEF Init, InitAt, ToDo, PendingCalls, PendingStages, Outcome
  <2>2. (mode = "length") \in BOOLEAN /\ aborted \in BOOLEAN
    BY DEF Init, InitAt
  <2> QED BY <2>1, <2>2 DEF Contract!Init, ToDo, PendingCalls, PendingStages, Outcome
<1>2. IndInv /\ IndInv' /\ [Next]_vars => [Contract!Next]_Contract!contractVars
  <2> SUFFICES ASSUME IndInv, IndInv', [Next]_vars
               PROVE  Contract!Next \/ UNCHANGED Contract!contractVars
    OBVIOUS
  <2>1. CASE Next
    BY <2>1, StepRefines
  <2>2. CASE UNCHANGED vars
    BY <2>2 DEF vars, Contract!contractVars
  <2> QED BY <2>1, <2>2
<1> QED BY <1>1, <1>2, IndInvInductive, PTL DEF Spec, ImplementsContract, Contract!Spec

-----------------------------------------------------------------------------
(* A stream of the LLM service *)

Chunks == [kind : {"chunk", "done", "error"}, length : 0..MaxChunks]

StreamRecord ==
    [at : {"idle", "open", "raised", "closed", "ended"}, via : Nat,
     source : Seq(Chunks), out : Seq(Chunks), partial : 0..MaxChunks]

Shape ==
    /\ calls \in Seq(Adapters)
    /\ entries \in [Models -> 0..Len(calls)]
    /\ streams \in [Requests -> StreamRecord]

PartialInv ==
    \A q \in Requests :
        streams[q].partial =
            IF streams[q].source = <<>> THEN 0 ELSE Last(streams[q].source).length

ServiceInv == Shape /\ PartialInv /\ LlmServes

\* StreamSettled and PartialInv, of one request.
Settled(s) ==
    /\ \A i \in 1..Len(s.out) : Terminal(s.out[i]) <=> s.at = "ended" /\ i = Len(s.out)
    /\ s.at = "ended" =>
          \/ s.out = s.source
          \/ /\ Front(s.out) = s.source
             /\ Last(s.out) = Failed(IF s.source = <<>> THEN 0 ELSE Last(s.source).length)
    /\ s.at # "ended" => s.out = s.source
    /\ s.partial = IF s.source = <<>> THEN 0 ELSE Last(s.source).length

\* The record of a request satisfies the invariant exactly if it is settled.
LEMMA PerRequest ==
  ASSUME Shape
  PROVE  PartialInv /\ StreamSettled <=> \A q \in Requests : Settled(streams[q])
<1>1. \A q \in Requests : DOMAIN streams[q].out = 1..Len(streams[q].out)
  BY DEF Shape, StreamRecord
<1> QED BY <1>1 DEF PartialInv, StreamSettled, Settled

\* Appending to a sequence: its length, its members, its front and its end.
LEMMA Appended ==
  ASSUME NEW S, NEW s \in Seq(S), NEW x \in S
  PROVE  /\ Append(s, x) \in Seq(S) /\ Append(s, x) # <<>>
         /\ Len(Append(s, x)) = Len(s) + 1
         /\ \A i \in 1..Len(s) : Append(s, x)[i] = s[i]
         /\ Append(s, x)[Len(s) + 1] = x
         /\ Front(Append(s, x)) = s /\ Last(Append(s, x)) = x
<1>1. /\ Append(s, x) \in Seq(S) /\ Len(Append(s, x)) = Len(s) + 1 /\ Len(s) \in Nat
      /\ \A i \in 1..Len(s) : Append(s, x)[i] = s[i]
      /\ Append(s, x)[Len(s) + 1] = x
  OBVIOUS
<1>2. Append(s, x) # <<>>
  BY <1>1
<1>3. Front(Append(s, x)) = s
  <2>1. /\ Front(Append(s, x)) \in Seq(S) /\ Len(Front(Append(s, x))) = Len(s)
        /\ \A i \in 1..Len(s) : Front(Append(s, x))[i] = Append(s, x)[i]
    BY <1>1 DEF Front
  <2> QED BY <1>1, <2>1
<1> QED BY <1>1, <1>2, <1>3 DEF Last

\* At first nothing is registered and nothing was sent.
LEMMA InitInv ==
  LlmInit => ServiceInv
<1> SUFFICES ASSUME LlmInit PROVE ServiceInv
  OBVIOUS
<1>1. Shape
  BY LlmAssumption DEF LlmInit, Shape, StreamRecord, Idle
<1>2. \A q \in Requests : Settled(streams[q])
  BY DEF LlmInit, Settled, Idle
<1>3. LatestSupplies
  BY DEF LlmInit, LatestSupplies, Suppliers
<1>4. LlmTypeOK
  BY LlmAssumption DEF LlmInit, LlmTypeOK, Idle
<1> QED BY <1>1, <1>2, <1>3, <1>4, PerRequest DEF ServiceInv, LlmServes

\* A registration becomes the latest of the models it supplies.
LEMMA RegisterKeeps ==
  ASSUME ServiceInv, NEW a \in Adapters, Register(a)
  PROVE  ServiceInv'
<1>1. /\ calls \in Seq(Adapters) /\ calls' = Append(calls, a) /\ Len(calls) \in Nat
      /\ UNCHANGED <<withdrawn, streams>>
      /\ entries' = [m \in Models |-> IF m \in Supplies[a] THEN Len(calls) + 1 ELSE entries[m]]
      /\ withdrawn \subseteq 1..Len(calls)
  BY DEF ServiceInv, LlmServes, LlmTypeOK, Register
<1>2. /\ calls' \in Seq(Adapters) /\ DOMAIN calls' = 1..(Len(calls) + 1)
      /\ calls'[Len(calls) + 1] = a /\ \A r \in 1..Len(calls) : calls'[r] = calls[r]
  BY <1>1
<1>3. Shape' /\ PartialInv' /\ StreamSettled'
  BY <1>1, <1>2 DEF ServiceInv, LlmServes, Shape, PartialInv, StreamSettled
<1>4. ASSUME NEW m \in Models
      PROVE  Suppliers(m)' = Suppliers(m) \cup (IF m \in Supplies[a] THEN {Len(calls) + 1} ELSE {})
  <2>1. DOMAIN calls = 1..Len(calls)
    BY <1>1
  <2> QED BY <1>2, <2>1, <1>1 DEF Suppliers
<1>5. LatestSupplies'
  <2> SUFFICES ASSUME NEW m \in Models
               PROVE  (entries[m] = IF Suppliers(m) = {} \/ Latest(m) \in withdrawn
                                    THEN 0 ELSE Latest(m))'
    BY DEF LatestSupplies
  <2>1. CASE m \in Supplies[a]
    <3>1. Len(calls) + 1 \in Suppliers(m)' /\ \A s \in Suppliers(m)' : s <= Len(calls) + 1
      BY <1>1, <1>2, <1>4, <2>1 DEF Suppliers
    <3>2. Latest(m)' = Len(calls) + 1
      <4>1. \A s \in Suppliers(m)' : s \in Nat
        BY <1>2, <1>1 DEF Suppliers
      <4>2. Latest(m)' \in Suppliers(m)' /\ \A s \in Suppliers(m)' : s <= Latest(m)'
        BY <3>1 DEF Latest
      <4> QED BY <3>1, <4>1, <4>2
    <3> QED BY <1>1, <2>1, <3>1, <3>2
  <2>2. CASE m \notin Supplies[a]
    <3>1. Suppliers(m)' = Suppliers(m)
      BY <1>4, <2>2
    <3>2. Latest(m)' = Latest(m)
      BY <3>1 DEF Latest
    <3> QED BY <1>1, <2>2, <3>1, <3>2 DEF ServiceInv, LlmServes, LatestSupplies
  <2> QED BY <2>1, <2>2
<1>6. LlmTypeOK'
  <2>1. withdrawn' \subseteq DOMAIN calls'
    BY <1>1, <1>2
  <2>2. ASSUME NEW m \in Models, entries'[m] # 0
        PROVE  m \in Supplies[calls'[entries'[m]]]
    <3>1. CASE m \in Supplies[a]
      BY <3>1, <1>1, <1>2
    <3>2. CASE m \notin Supplies[a]
      <4>1. /\ entries'[m] = entries[m] /\ entries[m] \in 1..Len(calls)
            /\ m \in Supplies[calls[entries[m]]]
        BY <3>2, <1>1, <2>2 DEF ServiceInv, LlmServes, LlmTypeOK, Shape
      <4> QED BY <4>1, <1>2
    <3> QED BY <3>1, <3>2
  <2> QED BY <1>1, <1>2, <2>1, <2>2 DEF ServiceInv, LlmServes, LlmTypeOK
<1> QED BY <1>3, <1>5, <1>6 DEF ServiceInv, LlmServes

\* A handle takes away an entry only if it is the one it made.
LEMMA WithdrawKeeps ==
  ASSUME ServiceInv, NEW r \in DOMAIN calls, Withdraw(r)
  PROVE  ServiceInv'
<1>1. /\ withdrawn' = withdrawn \cup {r} /\ UNCHANGED <<calls, streams>>
      /\ entries' = [m \in Models |->
            IF m \in Supplies[calls[r]] /\ entries[m] = r THEN 0 ELSE entries[m]]
      /\ r \in 1..Len(calls)
  BY DEF Withdraw, ServiceInv, Shape
<1>2. Shape' /\ PartialInv' /\ StreamSettled'
  BY <1>1 DEF ServiceInv, LlmServes, Shape, PartialInv, StreamSettled
<1>3. \A m \in Models : entries'[m] = IF entries[m] = r THEN 0 ELSE entries[m]
  BY <1>1 DEF ServiceInv, LlmServes, LlmTypeOK
<1>4. LatestSupplies'
  <2> SUFFICES ASSUME NEW m \in Models
               PROVE  (entries[m] = IF Suppliers(m) = {} \/ Latest(m) \in withdrawn
                                    THEN 0 ELSE Latest(m))'
    BY DEF LatestSupplies
  <2>1. Suppliers(m)' = Suppliers(m)
    BY <1>1 DEF Suppliers
  <2>2. Latest(m)' = Latest(m)
    BY <2>1 DEF Latest
  <2> QED BY <1>1, <1>3, <2>1, <2>2 DEF ServiceInv, LlmServes, LatestSupplies
<1>5. LlmTypeOK'
  BY <1>1, <1>3 DEF ServiceInv, LlmServes, LlmTypeOK
<1> QED BY <1>2, <1>4, <1>5 DEF ServiceInv, LlmServes

\* A request that moves to a settled record keeps the invariant.
LEMMA StreamKeeps ==
  ASSUME ServiceInv, NEW q \in Requests, NEW s \in StreamRecord, Settled(s),
         streams' = [streams EXCEPT ![q] = s], UNCHANGED <<entries, calls, withdrawn>>
  PROVE  ServiceInv'
<1>1. \A p \in Requests : Settled(streams[p])
  BY PerRequest DEF ServiceInv, LlmServes
<1>2. streams \in [Requests -> StreamRecord]
  BY DEF ServiceInv, Shape
<1>3. streams' \in [Requests -> StreamRecord]
  BY <1>2
<1>4. \A p \in Requests : Settled(streams'[p])
  BY <1>1, <1>2
<1>5. Shape'
  BY <1>3 DEF ServiceInv, Shape
<1>6. LatestSupplies'
  BY DEF ServiceInv, LlmServes, LatestSupplies, Latest, Suppliers
<1>7. LlmTypeOK'
  <2>1. ASSUME NEW p \in Requests
        PROVE  /\ streams'[p].at \in {"idle", "open", "raised", "closed", "ended"}
               /\ streams'[p].partial \in 0..MaxChunks
               /\ \A i \in DOMAIN streams'[p].out : streams'[p].out[i].length \in 0..MaxChunks
    <3>1. streams'[p] \in StreamRecord
      BY <1>3
    <3>2. streams'[p].out \in Seq(Chunks)
      BY <3>1 DEF StreamRecord
    <3>3. \A i \in DOMAIN streams'[p].out : streams'[p].out[i] \in Chunks
      BY <3>2
    <3> QED BY <3>1, <3>3 DEF StreamRecord, Chunks
  <2> QED BY <2>1 DEF ServiceInv, LlmServes, LlmTypeOK
<1>8. PartialInv' /\ StreamSettled'
  <2>1. \A p \in Requests : DOMAIN streams'[p].out = 1..Len(streams'[p].out)
    BY <1>3 DEF StreamRecord
  <2> QED BY <1>4, <2>1 DEF PartialInv, StreamSettled, Settled
<1> QED BY <1>5, <1>6, <1>7, <1>8 DEF ServiceInv, LlmServes

\* What is known of a stream whose consumer iterates.
LEMMA OpenStream ==
  ASSUME ServiceInv, NEW q \in Requests, Open(q)
  PROVE  /\ streams[q] \in StreamRecord
         /\ streams[q].out = streams[q].source
         /\ \A i \in 1..Len(streams[q].out) : ~Terminal(streams[q].out[i])
         /\ streams[q].partial =
               IF streams[q].source = <<>> THEN 0 ELSE Last(streams[q].source).length
<1>1. streams[q] \in StreamRecord /\ Settled(streams[q])
  BY PerRequest DEF ServiceInv, LlmServes, Shape
<1> QED BY <1>1 DEF Settled, Open

\* A record with one chunk more on both sides is settled.
LEMMA ChunkSettled ==
  ASSUME ServiceInv, NEW q \in Requests, Open(q), NEW c \in Chunks,
         NEW at \in {"open", "ended"}, Terminal(c) <=> at = "ended"
  PROVE  LET s == [streams[q] EXCEPT !.source = Append(@, c), !.partial = c.length,
                                     !.out = Append(@, c), !.at = at]
         IN  s \in StreamRecord /\ Settled(s)
<1> DEFINE r == streams[q]
           s == [r EXCEPT !.source = Append(@, c), !.partial = c.length,
                          !.out = Append(@, c), !.at = at]
<1>1. /\ r \in StreamRecord /\ r.out = r.source
      /\ \A i \in 1..Len(r.out) : ~Terminal(r.out[i])
  BY OpenStream
<1>2. r.source \in Seq(Chunks) /\ r.out \in Seq(Chunks)
  BY <1>1 DEF StreamRecord
<1>3. /\ s.source = Append(r.source, c) /\ s.out = Append(r.source, c)
      /\ s.partial = c.length /\ s.at = at /\ s.via = r.via
  BY <1>1 DEF StreamRecord
<1>4. /\ Append(r.source, c) \in Seq(Chunks) /\ Append(r.source, c) # <<>>
      /\ Len(Append(r.source, c)) = Len(r.source) + 1
      /\ \A i \in 1..Len(r.source) : Append(r.source, c)[i] = r.source[i]
      /\ Append(r.source, c)[Len(r.source) + 1] = c
      /\ Last(Append(r.source, c)) = c
  BY <1>2, Appended
<1>5. s \in StreamRecord
  BY <1>1, <1>4 DEF StreamRecord, Chunks
<1>6. \A i \in 1..(Len(r.source) + 1) :
         Terminal(Append(r.source, c)[i]) <=> at = "ended" /\ i = Len(r.source) + 1
  <2>1. Len(r.source) \in Nat
    BY <1>2
  <2> QED BY <1>1, <1>4, <2>1
<1> HIDE DEF s
<1>7. Settled(s)
  BY <1>3, <1>4, <1>6 DEF Settled
<1> QED BY <1>5, <1>7 DEF s

\* A chunk of the adapter is passed on.
LEMMA ChunkKeeps ==
  ASSUME ServiceInv, NEW q \in Requests, SendChunk(q)
  PROVE  ServiceInv'
<1>1. PICK n \in 1..MaxChunks :
         Become(q, [streams[q] EXCEPT !.source = Append(@, Chunk(n)), !.partial = n,
                                      !.out = Append(@, Chunk(n))])
  BY Zenon DEF SendChunk
<1> DEFINE s == [streams[q] EXCEPT !.source = Append(@, Chunk(n)), !.partial = Chunk(n).length,
                                   !.out = Append(@, Chunk(n)), !.at = "open"]
<1>2. Open(q) /\ streams[q] \in StreamRecord /\ streams[q].at = "open"
  BY OpenStream DEF SendChunk, Open
<1>3. Chunk(n) \in Chunks /\ ~Terminal(Chunk(n)) /\ Chunk(n).length = n
  BY DEF Chunk, Chunks, Terminal
<1>4. s \in StreamRecord /\ Settled(s)
  BY <1>2, <1>3, ChunkSettled
<1>5. s = [streams[q] EXCEPT !.source = Append(@, Chunk(n)), !.partial = n,
                             !.out = Append(@, Chunk(n))]
  BY <1>2, <1>3 DEF StreamRecord
<1> HIDE DEF s
<1>6. streams' = [streams EXCEPT ![q] = s] /\ UNCHANGED <<entries, calls, withdrawn>>
  BY <1>1, <1>5 DEF Become
<1> QED BY <1>4, <1>6, StreamKeeps

\* The same for the terminal chunk, which ends the stream.
LEMMA TerminalKeeps ==
  ASSUME ServiceInv, NEW q \in Requests, SendTerminal(q)
  PROVE  ServiceInv'
<1>1. PICK n \in 0..MaxChunks : \E c \in {Done(n), Failed(n)} :
         Become(q, [streams[q] EXCEPT !.source = Append(@, c), !.partial = n,
                                      !.out = Append(@, c), !.at = "ended"])
  BY Zenon DEF SendTerminal
<1>2. PICK c \in {Done(n), Failed(n)} :
         Become(q, [streams[q] EXCEPT !.source = Append(@, c), !.partial = n,
                                      !.out = Append(@, c), !.at = "ended"])
  BY <1>1
<1> DEFINE s == [streams[q] EXCEPT !.source = Append(@, c), !.partial = c.length,
                                   !.out = Append(@, c), !.at = "ended"]
<1>3. Open(q)
  BY Zenon DEF SendTerminal
<1>4. c \in Chunks /\ Terminal(c) /\ c.length = n
  BY DEF Done, Failed, Chunks, Terminal
<1>5. s \in StreamRecord /\ Settled(s)
  BY <1>3, <1>4, ChunkSettled
<1>6. streams' = [streams EXCEPT ![q] = s] /\ UNCHANGED <<entries, calls, withdrawn>>
  BY <1>2, <1>4 DEF Become
<1> HIDE DEF s
<1> QED BY <1>5, <1>6, StreamKeeps

\* The terminal chunk that the service makes carries what it has seen.
LEMMA SettleKeeps ==
  ASSUME ServiceInv, NEW q \in Requests, SettleStream(q)
  PROVE  ServiceInv'
<1> DEFINE r == streams[q]
           c == Failed(r.partial)
           s == [r EXCEPT !.out = Append(@, c), !.at = "ended"]
<1>1. /\ r \in StreamRecord /\ r.out = r.source
      /\ \A i \in 1..Len(r.out) : ~Terminal(r.out[i])
      /\ r.partial = IF r.source = <<>> THEN 0 ELSE Last(r.source).length
  BY OpenStream DEF SettleStream
<1>2. r.source \in Seq(Chunks) /\ r.partial \in 0..MaxChunks /\ Len(r.source) \in Nat
  BY <1>1 DEF StreamRecord
<1>3. c \in Chunks /\ Terminal(c)
  BY <1>2 DEF Failed, Chunks, Terminal
<1>4. /\ s.source = r.source /\ s.out = Append(r.source, c)
      /\ s.partial = r.partial /\ s.at = "ended" /\ s.via = r.via
  BY <1>1 DEF StreamRecord
<1>5. /\ Append(r.source, c) \in Seq(Chunks) /\ Len(Append(r.source, c)) = Len(r.source) + 1
      /\ \A i \in 1..Len(r.source) : Append(r.source, c)[i] = r.source[i]
      /\ Append(r.source, c)[Len(r.source) + 1] = c
      /\ Front(Append(r.source, c)) = r.source /\ Last(Append(r.source, c)) = c
  BY <1>2, <1>3, Appended
<1>6. s \in StreamRecord
  BY <1>1, <1>5 DEF StreamRecord
<1>7. \A i \in 1..(Len(r.source) + 1) :
         Terminal(Append(r.source, c)[i]) <=> i = Len(r.source) + 1
  BY <1>1, <1>2, <1>3, <1>5
<1>8. streams' = [streams EXCEPT ![q] = s] /\ UNCHANGED <<entries, calls, withdrawn>>
  BY DEF SettleStream, Become
<1>9. c = Failed(IF r.source = <<>> THEN 0 ELSE Last(r.source).length)
  BY <1>1
<1> HIDE DEF s, c
<1>10. Settled(s)
  BY <1>1, <1>4, <1>5, <1>7, <1>9 DEF Settled
<1> QED BY <1>6, <1>8, <1>10, StreamKeeps

\* Routing a request: nothing has been sent yet.
LEMMA RouteKeeps ==
  ASSUME ServiceInv, NEW q \in Requests, NEW m \in Models, Stream(q, m)
  PROVE  ServiceInv'
<1> DEFINE r == streams[q]
           s == [r EXCEPT !.at = IF entries[m] = 0 THEN "raised" ELSE "open", !.via = entries[m]]
<1>1. /\ r \in StreamRecord /\ Settled(r) /\ streams \in [Requests -> StreamRecord]
      /\ entries[m] \in Nat
  BY PerRequest DEF ServiceInv, LlmServes, Shape
<1>2. streams' = [streams EXCEPT ![q] = s] /\ UNCHANGED <<entries, calls, withdrawn>>
  BY <1>1 DEF Stream
<1>3. s \in StreamRecord /\ Settled(s)
  BY <1>1 DEF Stream, StreamRecord, Settled
<1> HIDE DEF s
<1> QED BY <1>2, <1>3, StreamKeeps

\* Leaving the iteration: what the consumer got stays.
LEMMA CloseKeeps ==
  ASSUME ServiceInv, NEW q \in Requests, Close(q)
  PROVE  ServiceInv'
<1> DEFINE r == streams[q]
           s == [r EXCEPT !.at = "closed"]
<1>1. r \in StreamRecord /\ Settled(r)
  BY PerRequest DEF ServiceInv, LlmServes, Shape
<1>2. streams' = [streams EXCEPT ![q] = s] /\ UNCHANGED <<entries, calls, withdrawn>>
  BY DEF Close, Become
<1>3. s \in StreamRecord /\ Settled(s)
  BY <1>1 DEF Close, Open, StreamRecord, Settled
<1> HIDE DEF s
<1> QED BY <1>2, <1>3, StreamKeeps

\* The service keeps its promises in every state, for every set of models,
\* adapters and requests: a model is supplied by its latest registration until
\* the handle of that registration is called (LlmService.register), and what
\* _settled() yields ends once and carries everything the adapter sent.
THEOREM ServesForEver ==
  LlmSpec => []LlmServes
<1>1. LlmInit => ServiceInv
  BY InitInv
<1>2. ServiceInv /\ [LlmNext]_llmVars => ServiceInv'
  <2> SUFFICES ASSUME ServiceInv, [LlmNext]_llmVars PROVE ServiceInv'
    OBVIOUS
  <2>1. CASE UNCHANGED llmVars
    <3>1. UNCHANGED <<entries, calls, withdrawn, streams>>
      BY <2>1 DEF llmVars
    <3>2. Shape' /\ PartialInv' /\ StreamSettled' /\ LlmTypeOK'
      BY <3>1 DEF ServiceInv, LlmServes, Shape, PartialInv, StreamSettled, LlmTypeOK
    <3>3. LatestSupplies'
      <4>1. ASSUME NEW m \in Models PROVE Suppliers(m)' = Suppliers(m)
        BY <3>1 DEF Suppliers
      <4>2. ASSUME NEW m \in Models PROVE Latest(m)' = Latest(m)
        BY <4>1 DEF Latest
      <4> QED BY <3>1, <4>1, <4>2 DEF ServiceInv, LlmServes, LatestSupplies
    <3> QED BY <3>2, <3>3 DEF ServiceInv, LlmServes
  <2>2. ASSUME NEW a \in Adapters, Register(a) PROVE ServiceInv'
    BY <2>2, RegisterKeeps
  <2>3. ASSUME NEW r \in DOMAIN calls, Withdraw(r) PROVE ServiceInv'
    BY <2>3, WithdrawKeeps
  <2>4. ASSUME NEW q \in Requests,
               \/ \E m \in Models : Stream(q, m)
               \/ SendChunk(q) \/ SendTerminal(q) \/ SettleStream(q) \/ Close(q)
        PROVE  ServiceInv'
    BY <2>4, RouteKeeps, CloseKeeps, ChunkKeeps, TerminalKeeps, SettleKeeps
  <2> QED BY <2>1, <2>2, <2>3, <2>4 DEF LlmNext
<1>3. ServiceInv => LlmServes
  BY DEF ServiceInv
<1> QED BY <1>1, <1>2, <1>3, PTL DEF LlmSpec

=============================================================================
