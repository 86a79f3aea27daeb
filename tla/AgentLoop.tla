----------------------------- MODULE AgentLoop -----------------------------
(***************************************************************************)
(* The driver of one agent instance (agent_loop/driver.py) over the state  *)
(* of that instance (agent/instance.py) and its inbox.  Several tasks, the *)
(* Callers, call prompt(), continue_() and run_until_idle() on the same    *)
(* driver while anybody may steer, follow up, inject, clear, abort and     *)
(* reset.  pc[c] names the await at which caller c is suspended: one       *)
(* action is the code from one await to the next, which asyncio runs       *)
(* without interruption.                                                   *)
(*                                                                         *)
(* Of the session log the model keeps what the driver or a property reads: *)
(* the user messages that came from the inbox (admitted), the role of the  *)
(* last message (role), whether the latest AGENT_START and TURN_START are  *)
(* matched by an AGENT_END and a TURN_END (bracket, turn) and the reason   *)
(* of the latest AGENT_END (endReason).                                    *)
(***************************************************************************)
EXTENDS Inbox, FiniteSets, SequencesExt, TLC

CONSTANTS
    Callers,          \* the tasks that call the driver's entry points
    Calls,            \* identifiers of tool calls
    PumpWhileActive,  \* may run_until_idle() be called while a run is active?
    HonoursAbort      \* does the provider end a stream whose signal is aborted?

ASSUME AgentLoopAssumption ==
    /\ PumpWhileActive \in BOOLEAN
    /\ HonoursAbort \in BOOLEAN

VARIABLES
    status,     \* AgentInstance._status
    signal,     \* the run's signal: "none" while idle, else "live" or "aborted"
    streaming,  \* is AgentInstance.streaming_message set?
    pending,    \* AgentInstance.pending_tool_calls
    detached,   \* tools of a failed parallel batch that still run
    admitted, role, bracket, turn, endReason,   \* the log, as described above
    pc,         \* where each caller is suspended
    run,        \* the locals of each caller's run
    hand,       \* the input a caller has claimed and not yet admitted
    resv,       \* the target of the caller's unsettled reservation, or "none"
    dropped     \* input discarded on purpose: cleared, rejected, left out by a
                \* pre-step listener, or held by a run that failed or was cancelled

instanceVars == <<status, signal, streaming, pending, detached>>
logVars      == <<admitted, role, bracket, turn, endReason>>
callerVars   == <<pc, run, hand, resv>>
vars == <<inboxVars, instanceVars, logVars, callerVars, dropped>>

\* A message that never was in the inbox: what a caller passes to prompt(), or a
\* pre-step listener puts in the place of what was claimed.
Own == 0

\* The stop reasons the driver tells apart; "stop" stands for all the others.
Stops == {"stop", "length", "error", "aborted"}

NoRun == [op |-> "none", skip |-> FALSE, stage |-> "initial", opened |-> FALSE,
          stop |-> "stop", calls |-> {}, todo |-> {}, more |-> FALSE,
          term |-> FALSE, exc |-> FALSE]

\* Awaits of the run proper, where a listener's exception reaches
\* _execute_run's "except Exception".
ListenerPCs ==
    {"agent_start", "turn_start0", "pre_step", "user_start", "user_end",
     "turn_start", "transform", "msg_start", "msg_update", "msg_start_late",
     "msg_end", "err_turn_end", "result_start", "result_end", "turn_end",
     "prepare_next", "stopping", "agent_end"}

\* Awaits of _settle_run_failure, which nothing catches.
FailurePCs == {"f_start", "f_end", "f_turn_end", "f_agent_end"}

AwaitPCs == ListenerPCs \cup FailurePCs \cup {"stream", "tools"}

\* Inside the synchronous status notification: no other task can run.
NotifyPCs == {"run_notify", "idle_notify"}

PCs == {"out"} \cup AwaitPCs \cup NotifyPCs

Quiet == \A c \in Callers : pc[c] \notin NotifyPCs

At(c, where) == pc[c] = where /\ Quiet

Goto(c, where) == pc' = [pc EXCEPT ![c] = where]

Init ==
    /\ InboxInit
    /\ status = "idle" /\ signal = "none" /\ streaming = FALSE
    /\ pending = {} /\ detached = {}
    /\ admitted = <<>> /\ role = "none"
    /\ bracket = "closed" /\ turn = "closed" /\ endReason = "none"
    /\ pc = [c \in Callers |-> "out"]
    /\ run = [c \in Callers |-> NoRun]
    /\ hand = [c \in Callers |-> <<>>]
    /\ resv = [c \in Callers |-> "none"]
    /\ dropped = {}

-----------------------------------------------------------------------------
(* What any task, and any observer of a status change, may call.           *)

SendInput ==
    /\ Followup \/ Steer \/ Inject
    /\ UNCHANGED <<instanceVars, logVars, callerVars, dropped>>

ClearQueues ==
    /\ \E ts \in SUBSET Targets :
         /\ Clear(ts)
         /\ dropped' = dropped \cup UNION {Range(queue[t]) : t \in ts}
    /\ UNCHANGED <<wake, sent, instanceVars, logVars, callerVars>>

Abort ==
    /\ signal = "live"
    /\ signal' = "aborted"
    /\ UNCHANGED <<inboxVars, status, streaming, pending, detached, logVars,
                   callerVars, dropped>>

Reset ==
    /\ status = "idle"
    /\ streaming' = FALSE /\ pending' = {}
    /\ Clear(Targets)
    /\ dropped' = dropped \cup UNION {Range(queue[t]) : t \in Targets}
    /\ role' = "none"
    /\ UNCHANGED <<wake, sent, status, signal, detached, admitted, bracket,
                   turn, endReason, callerVars>>

-----------------------------------------------------------------------------
(* Entering a run: prompt(), continue_(), run_until_idle() up to the       *)
(* RUNNING notification of _run_wrapped.                                   *)

\* Mutant: the active-run guard is dropped.
EnterUnguarded(c, operation, batch, target, skipPoll) ==
    /\ signal' = "live" /\ status' = "running"
    /\ hand' = [hand EXCEPT ![c] = batch]
    /\ resv' = [resv EXCEPT ![c] = target]
    /\ run' = [run EXCEPT ![c] = [NoRun EXCEPT !.op = operation, !.skip = skipPoll]]
    /\ Goto(c, "run_notify")

Enter(c, operation, batch, target, skipPoll) ==
    /\ status = "idle"
    /\ signal' = "live" /\ status' = "running"
    /\ hand' = [hand EXCEPT ![c] = batch]
    /\ resv' = [resv EXCEPT ![c] = target]
    /\ run' = [run EXCEPT ![c] = [NoRun EXCEPT !.op = operation, !.skip = skipPoll]]
    /\ Goto(c, "run_notify")

Prompt(c) ==
    /\ At(c, "out")
    /\ Enter(c, "prompt", <<Own>>, "none", FALSE)
    /\ UNCHANGED <<inboxVars, streaming, pending, detached, logVars, dropped>>

Continue(c) ==
    /\ At(c, "out")
    /\ role # "none"
    /\ \/ /\ role = "assistant" /\ queue["next_step"] # <<>>
          /\ Claim("next_step")
          /\ Enter(c, "continue", Batch("next_step"), "next_step", TRUE)
       \/ /\ role = "assistant" /\ queue["next_step"] = <<>>
          /\ queue["next_turn"] # <<>>
          /\ Claim("next_turn")
          /\ Enter(c, "continue", Batch("next_turn"), "next_turn", FALSE)
       \/ /\ role # "assistant"
          /\ Enter(c, "continue", <<>>, "none", FALSE)
          /\ UNCHANGED queue
    /\ UNCHANGED <<wake, sent, streaming, pending, detached, logVars, dropped>>

PumpClaims(c) ==
    /\ queue["next_turn"] # <<>>
    /\ Claim("next_turn")
    /\ Enter(c, "pump", Batch("next_turn"), "next_turn", FALSE)
    /\ UNCHANGED wake

PumpSettles(c) ==
    /\ queue["next_turn"] = <<>>
    /\ TakeWake
    /\ Goto(c, "out")
    /\ run' = [run EXCEPT ![c] = NoRun]
    /\ UNCHANGED <<queue, hand, resv, status, signal>>

RunUntilIdle(c) ==
    /\ At(c, "out")
    /\ PumpClaims(c) \/ PumpSettles(c)
    /\ UNCHANGED <<sent, streaming, pending, detached, logVars, dropped>>

\* run_until_idle() while another caller's run is active: it reserves a batch
\* first and then _run_wrapped raises at its guard, before the try statement
\* that would have rolled the reservation back.
RunUntilIdleRefused(c) ==
    /\ PumpWhileActive
    /\ At(c, "out")
    /\ status = "running"
    /\ queue["next_turn"] # <<>>
    /\ Claim("next_turn")
    /\ UNCHANGED <<wake, sent, instanceVars, logVars, callerVars, dropped>>

\* The RUNNING observers returned: the reservation is committed, the run
\* executor appends AGENT_START and dispatches it.
RunNotified(c) ==
    /\ pc[c] = "run_notify"
    /\ resv' = [resv EXCEPT ![c] = "none"]
    /\ streaming' = FALSE
    /\ bracket' = "open" /\ turn' = "closed" /\ endReason' = "none"
    /\ Goto(c, "agent_start")
    /\ UNCHANGED <<inboxVars, status, signal, pending, detached, admitted, role,
                   run, hand, dropped>>

\* Mutant: whatever entered is put back, the prompt's own message too.
RollbackAnything(c) ==
    /\ pc[c] = "run_notify"
    /\ signal' = "none" /\ status' = "idle"
    /\ Rollback("next_turn", hand[c])
    /\ resv' = [resv EXCEPT ![c] = "none"]
    /\ hand' = [hand EXCEPT ![c] = <<>>]
    /\ run' = [run EXCEPT ![c] = NoRun]
    /\ Goto(c, "out")
    /\ UNCHANGED <<wake, sent, streaming, pending, detached, logVars, dropped>>

\* Mutant: the reservation is not rolled back.
RollbackForgotten(c) ==
    /\ pc[c] = "run_notify"
    /\ signal' = "none" /\ status' = "idle"
    /\ resv' = [resv EXCEPT ![c] = "none"]
    /\ hand' = [hand EXCEPT ![c] = <<>>]
    /\ run' = [run EXCEPT ![c] = NoRun]
    /\ Goto(c, "out")
    /\ UNCHANGED <<inboxVars, streaming, pending, detached, logVars, dropped>>

\* A RUNNING observer raised: no run began, the batch goes back in front.
RunNotifyRaised(c) ==
    /\ pc[c] = "run_notify"
    /\ signal' = "none" /\ status' = "idle"
    /\ IF resv[c] # "none" THEN Rollback(resv[c], hand[c]) ELSE UNCHANGED queue
    /\ resv' = [resv EXCEPT ![c] = "none"]
    /\ hand' = [hand EXCEPT ![c] = <<>>]
    /\ run' = [run EXCEPT ![c] = NoRun]
    /\ Goto(c, "out")
    /\ UNCHANGED <<wake, sent, streaming, pending, detached, logVars, dropped>>

-----------------------------------------------------------------------------
(* Leaving a run: the success and the failure end of _execute_run, and     *)
(* the finally of _run_wrapped with its IDLE notification.                 *)

DropHand(c) ==
    /\ dropped' = dropped \cup (Range(hand[c]) \ {Own})
    /\ hand' = [hand EXCEPT ![c] = <<>>]

\* AGENT_END of a run that ended by itself, then its dispatch.
EndRun(c, reason) ==
    /\ streaming' = FALSE
    /\ bracket' = "closed" /\ endReason' = reason
    /\ Goto(c, "agent_end")

\* Mutant: the finally forgets pending_tool_calls.
FinishKeepsPending(c, exception) ==
    /\ DropHand(c)
    /\ signal' = "none" /\ streaming' = FALSE /\ UNCHANGED pending
    /\ status' = "idle"
    /\ run' = [run EXCEPT ![c] = [NoRun EXCEPT !.op = run[c].op, !.exc = exception]]
    /\ Goto(c, "idle_notify")

\* The finally of _run_wrapped, up to the IDLE observers.
Finish(c, exception) ==
    /\ DropHand(c)
    /\ signal' = "none" /\ streaming' = FALSE /\ pending' = {}
    /\ status' = "idle"
    /\ run' = [run EXCEPT ![c] = [NoRun EXCEPT !.op = run[c].op, !.exc = exception]]
    /\ Goto(c, "idle_notify")

AgentEnded(c) ==
    /\ At(c, "agent_end")
    /\ Finish(c, FALSE)
    /\ UNCHANGED <<inboxVars, detached, logVars, resv>>

\* run_until_idle() loops after a run; prompt() and continue_() return.
IdleNotified(c) ==
    /\ pc[c] = "idle_notify"
    /\ IF run[c].op = "pump" /\ ~run[c].exc
       THEN PumpClaims(c) \/ PumpSettles(c)
       ELSE /\ Goto(c, "out")
            /\ run' = [run EXCEPT ![c] = NoRun]
            /\ UNCHANGED <<queue, wake, hand, resv, status, signal>>
    /\ UNCHANGED <<sent, streaming, pending, detached, logVars, dropped>>

IdleNotifyRaised(c) ==
    /\ pc[c] = "idle_notify"
    /\ Goto(c, "out")
    /\ run' = [run EXCEPT ![c] = NoRun]
    /\ UNCHANGED <<inboxVars, instanceVars, logVars, hand, resv, dropped>>

\* An exception reaches _execute_run: _settle_run_failure opens the failure
\* message.  Parallel siblings of a raising tool keep running (asyncio.gather
\* does not cancel them).
Fail(c) ==
    /\ DropHand(c)
    /\ streaming' = TRUE
    /\ run' = [run EXCEPT ![c] = [NoRun EXCEPT !.op = run[c].op]]
    /\ Goto(c, "f_start")
    /\ UNCHANGED <<inboxVars, status, signal, pending, logVars, resv>>

ListenerRaises(c) ==
    /\ \E where \in ListenerPCs : At(c, where)
    /\ Fail(c)
    /\ UNCHANGED detached

BatchRaises(c) ==
    /\ At(c, "tools")
    /\ detached' \in {detached, detached \cup pending}
    /\ Fail(c)

FailureStarted(c) ==
    /\ At(c, "f_start")
    /\ streaming' = FALSE
    /\ role' = "assistant"
    /\ Goto(c, "f_end")
    /\ UNCHANGED <<inboxVars, status, signal, pending, detached, admitted, bracket,
                   turn, endReason, run, hand, resv, dropped>>

\* Mutant: the failure path appends no TURN_END.
FailureLeavesTurn(c) ==
    /\ At(c, "f_end")
    /\ Goto(c, "f_turn_end")
    /\ UNCHANGED <<inboxVars, instanceVars, logVars, run, hand, resv, dropped>>

FailureEnded(c) ==
    /\ At(c, "f_end")
    /\ turn' = "closed"
    /\ Goto(c, "f_turn_end")
    /\ UNCHANGED <<inboxVars, instanceVars, admitted, role, bracket, endReason,
                   run, hand, resv, dropped>>

FailureTurnEnded(c) ==
    /\ At(c, "f_turn_end")
    /\ bracket' = "closed" /\ endReason' = "failed"
    /\ Goto(c, "f_agent_end")
    /\ UNCHANGED <<inboxVars, instanceVars, admitted, role, turn, run, hand, resv,
                   dropped>>

FailureAgentEnded(c) ==
    /\ At(c, "f_agent_end")
    /\ Finish(c, FALSE)
    /\ UNCHANGED <<inboxVars, detached, logVars, resv>>

\* A listener raises during the recovery itself, or the caller's task is
\* cancelled at any await, or the model cannot be resolved: the exception
\* leaves through the finally with no (further) AGENT_END.
RunEscapes(c) ==
    /\ Quiet
    /\ pc[c] \in AwaitPCs
    /\ Finish(c, TRUE)
    /\ UNCHANGED <<inboxVars, detached, logVars, resv>>

-----------------------------------------------------------------------------
(* The turns of a run: _run_inner, _admit_messages and _run_step.          *)

AgentStarted(c) ==
    /\ At(c, "agent_start")
    /\ turn' = "open"
    /\ Goto(c, "turn_start0")
    /\ UNCHANGED <<inboxVars, instanceVars, admitted, role, bracket, endReason,
                   run, hand, resv, dropped>>

InitialTurnStarted(c) ==
    /\ At(c, "turn_start0")
    /\ Goto(c, "pre_step")
    /\ UNCHANGED <<inboxVars, instanceVars, logVars, run, hand, resv, dropped>>

\* _run_step opens every turn but the first, which _run_inner opened.
StartStep(c) ==
    IF run[c].stage = "next"
    THEN turn' = "open" /\ Goto(c, "turn_start")
    ELSE UNCHANGED turn /\ Goto(c, "transform")

\* What follows the admission of a batch: the initial steering poll after the
\* entering messages, the model request otherwise.
Admitted(c) ==
    IF run[c].stage = "initial" /\ ~run[c].skip /\ queue["next_step"] # <<>>
    THEN /\ Claim("next_step")
         /\ hand' = [hand EXCEPT ![c] = Batch("next_step")]
         /\ run' = [run EXCEPT ![c].stage = "steering"]
         /\ Goto(c, "pre_step")
         /\ UNCHANGED turn
    ELSE /\ StartStep(c)
         /\ UNCHANGED <<queue, hand, run>>

AdmitNext(c) ==
    IF hand[c] # <<>>
    THEN /\ streaming' = TRUE
         /\ Goto(c, "user_start")
         /\ UNCHANGED <<queue, hand, run, turn>>
    ELSE /\ Admitted(c)
         /\ UNCHANGED streaming

\* A pre-step listener decides on other messages than were claimed: it leaves
\* one out (several, one after the other), or has a message of its own instead.
PreStepSubstitutes(c) ==
    /\ At(c, "pre_step")
    /\ \E kept \in {<<Own>>} \cup {RemoveAt(hand[c], i) : i \in DOMAIN hand[c]} :
         /\ hand' = [hand EXCEPT ![c] = kept]
         /\ dropped' = dropped \cup (Range(hand[c]) \ (Range(kept) \cup {Own}))
    /\ UNCHANGED <<inboxVars, instanceVars, logVars, pc, run, resv>>

\* Enter(): what the listeners left of the batch is admitted.
PreStepEnters(c) ==
    /\ At(c, "pre_step")
    /\ AdmitNext(c)
    /\ UNCHANGED <<wake, sent, status, signal, pending, detached, admitted, role,
                   bracket, endReason, resv, dropped>>

PreStepRejects(c) ==
    /\ At(c, "pre_step")
    /\ DropHand(c)
    /\ EndRun(c, "rejected")
    /\ UNCHANGED <<inboxVars, status, signal, pending, detached, admitted, role,
                   turn, run, resv>>

\* USER_MESSAGE is appended, whatever the role of the message.
UserMessageStarted(c) ==
    /\ At(c, "user_start")
    /\ streaming' = FALSE
    /\ LET m == Head(hand[c])
       IN  admitted' = IF m = Own THEN admitted ELSE Append(admitted, m)
    /\ hand' = [hand EXCEPT ![c] = Tail(@)]
    /\ role' \in {"user", "assistant", "tool_result"}
    /\ Goto(c, "user_end")
    /\ UNCHANGED <<inboxVars, status, signal, pending, detached, bracket, turn,
                   endReason, run, resv, dropped>>

UserMessageEnded(c) ==
    /\ At(c, "user_end")
    /\ AdmitNext(c)
    /\ UNCHANGED <<wake, sent, status, signal, pending, detached, admitted, role,
                   bracket, endReason, resv, dropped>>

TurnStarted(c) ==
    /\ At(c, "turn_start")
    /\ Goto(c, "transform")
    /\ UNCHANGED <<inboxVars, instanceVars, logVars, run, hand, resv, dropped>>

ContextTransformed(c) ==
    /\ At(c, "transform")
    /\ run' = [run EXCEPT ![c] = [NoRun EXCEPT !.op = run[c].op]]
    /\ Goto(c, "stream")
    /\ UNCHANGED <<inboxVars, instanceVars, logVars, hand, resv, dropped>>

\* A chunk of the reply: the opening one or any later one.
StreamChunk(c) ==
    /\ At(c, "stream")
    /\ streaming' = TRUE
    /\ \/ run' = [run EXCEPT ![c].opened = TRUE] /\ Goto(c, "msg_start")
       \/ UNCHANGED run /\ Goto(c, "msg_update")
    /\ UNCHANGED <<inboxVars, status, signal, pending, detached, logVars, hand,
                   resv, dropped>>

ChunkDispatched(c) ==
    /\ At(c, "msg_start") \/ At(c, "msg_update")
    /\ Goto(c, "stream")
    /\ UNCHANGED <<inboxVars, instanceVars, logVars, run, hand, resv, dropped>>

\* ASSISTANT_MESSAGE is appended and MessageEnd dispatched.
AppendReply(c) ==
    /\ streaming' = FALSE
    /\ role' = "assistant"
    /\ Goto(c, "msg_end")

StreamEnds(c) ==
    /\ At(c, "stream")
    /\ \E stop \in Stops, calls \in SUBSET (Calls \ detached) :
         /\ HonoursAbort /\ signal = "aborted" => stop = "aborted"
         /\ run' = [run EXCEPT ![c] = [@ EXCEPT !.stop = stop, !.calls = calls,
                                                !.todo = calls, !.opened = FALSE]]
    /\ IF run[c].opened
       THEN AppendReply(c)
       ELSE streaming' = TRUE /\ UNCHANGED role /\ Goto(c, "msg_start_late")
    /\ UNCHANGED <<inboxVars, status, signal, pending, detached, admitted, bracket,
                   turn, endReason, hand, resv, dropped>>

LateStartDispatched(c) ==
    /\ At(c, "msg_start_late")
    /\ AppendReply(c)
    /\ UNCHANGED <<inboxVars, status, signal, pending, detached, admitted, bracket,
                   turn, endReason, run, hand, resv, dropped>>

EndTurn(c, where, hasMore, terminated) ==
    /\ turn' = "closed"
    /\ run' = [run EXCEPT ![c] = [@ EXCEPT !.more = hasMore, !.term = terminated,
                                           !.calls = {}, !.todo = {}]]
    /\ Goto(c, where)

MessageEnded(c) ==
    /\ At(c, "msg_end")
    /\ \/ /\ run[c].stop \in {"error", "aborted"}
          /\ EndTurn(c, "err_turn_end", FALSE, FALSE)
       \/ /\ run[c].stop \notin {"error", "aborted"} /\ run[c].calls = {}
          /\ EndTurn(c, "turn_end", FALSE, FALSE)
       \/ /\ run[c].stop \notin {"error", "aborted"} /\ run[c].calls # {}
          /\ Goto(c, "tools") /\ UNCHANGED <<run, turn>>
    /\ UNCHANGED <<inboxVars, instanceVars, admitted, role, bracket, endReason,
                   hand, resv, dropped>>

ErrorTurnEnded(c) ==
    /\ At(c, "err_turn_end")
    /\ EndRun(c, run[c].stop)
    /\ UNCHANGED <<inboxVars, status, signal, pending, detached, admitted, role,
                   turn, run, hand, resv, dropped>>

\* on_execution_start and on_execution_end of one call of the batch.  The
\* order of the calls and the stages of each call are in ToolBatch.
ToolStarts(c) ==
    /\ At(c, "tools")
    /\ run[c].todo = run[c].calls \/ signal # "aborted" \/ run[c].stop = "length"
    /\ \E t \in run[c].todo :
         /\ pending' = pending \cup {t}
         /\ run' = [run EXCEPT ![c].todo = @ \ {t}]
    /\ UNCHANGED <<inboxVars, status, signal, streaming, detached, logVars, pc,
                   hand, resv, dropped>>

ToolEnds(c) ==
    /\ At(c, "tools")
    /\ \E t \in pending : pending' = pending \ {t}
    /\ UNCHANGED <<inboxVars, status, signal, streaming, detached, logVars,
                   callerVars, dropped>>

DetachedToolEnds ==
    /\ Quiet
    /\ \E t \in detached :
         /\ pending' = pending \ {t}
         /\ detached' = detached \ {t}
    /\ UNCHANGED <<inboxVars, status, signal, streaming, logVars, callerVars, dropped>>

\* Mutant: an aborted batch still waits for the calls it will not start.
BatchWaitsForAll(c) ==
    /\ At(c, "tools")
    /\ pending = {}
    /\ run[c].todo = {}
    /\ run' = [run EXCEPT ![c].term = FALSE]
    /\ streaming' = TRUE
    /\ Goto(c, "result_start")
    /\ UNCHANGED <<inboxVars, status, signal, pending, detached, logVars, hand,
                   resv, dropped>>

\* Every started call has ended; an aborted batch may have skipped the rest.
\* The first tool result's MessageStart is dispatched.
BatchEnds(c) ==
    /\ At(c, "tools")
    /\ pending = {}
    /\ run[c].todo # run[c].calls
    /\ run[c].todo = {} \/ (signal = "aborted" /\ run[c].stop # "length")
    /\ \E terminate \in BOOLEAN :
         /\ run[c].stop = "length" => ~terminate
         /\ run' = [run EXCEPT ![c] = [@ EXCEPT !.term = terminate, !.todo = {},
                                                !.calls = run[c].calls \ run[c].todo]]
    /\ streaming' = TRUE
    /\ Goto(c, "result_start")
    /\ UNCHANGED <<inboxVars, status, signal, pending, detached, logVars, hand,
                   resv, dropped>>

ResultStarted(c) ==
    /\ At(c, "result_start")
    /\ streaming' = FALSE
    /\ role' = "tool_result"
    /\ \E t \in run[c].calls : run' = [run EXCEPT ![c].calls = @ \ {t}]
    /\ Goto(c, "result_end")
    /\ UNCHANGED <<inboxVars, status, signal, pending, detached, admitted, bracket,
                   turn, endReason, hand, resv, dropped>>

ResultEnded(c) ==
    /\ At(c, "result_end")
    /\ \/ /\ run[c].calls # {}
          /\ streaming' = TRUE
          /\ Goto(c, "result_start")
          /\ UNCHANGED <<run, turn>>
       \/ /\ run[c].calls = {}
          /\ EndTurn(c, "turn_end", ~run[c].term, run[c].term)
          /\ UNCHANGED streaming
    /\ UNCHANGED <<inboxVars, status, signal, pending, detached, admitted, role,
                   bracket, endReason, hand, resv, dropped>>

TurnEnded(c) ==
    /\ At(c, "turn_end")
    /\ Goto(c, "prepare_next")
    /\ UNCHANGED <<inboxVars, instanceVars, logVars, run, hand, resv, dropped>>

NextTurnPrepared(c) ==
    /\ At(c, "prepare_next")
    /\ Goto(c, "stopping")
    /\ UNCHANGED <<inboxVars, instanceVars, logVars, run, hand, resv, dropped>>

TurnStops(c) ==
    /\ At(c, "stopping")
    /\ EndRun(c, "stopped")
    /\ UNCHANGED <<inboxVars, status, signal, pending, detached, admitted, role,
                   turn, run, hand, resv, dropped>>

\* The step input is claimed; with neither tool calls nor input the follow-up
\* queue is claimed; with no follow-up either the run is over.
ClaimsNext(c, t) ==
    /\ Claim(t)
    /\ hand' = [hand EXCEPT ![c] = Batch(t)]
    /\ run' = [run EXCEPT ![c] = [NoRun EXCEPT !.op = run[c].op, !.stage = "next"]]
    /\ Goto(c, "pre_step")
    /\ UNCHANGED <<streaming, bracket, endReason>>

TurnContinues(c) ==
    /\ At(c, "stopping")
    /\ \/ /\ run[c].more \/ queue["next_step"] # <<>>
          /\ ClaimsNext(c, "next_step")
       \/ /\ ~run[c].more /\ queue["next_step"] = <<>> /\ queue["next_turn"] # <<>>
          /\ ClaimsNext(c, "next_turn")
       \/ /\ ~run[c].more /\ queue["next_step"] = <<>> /\ queue["next_turn"] = <<>>
          /\ EndRun(c, IF run[c].term THEN "terminated" ELSE "completed")
          /\ UNCHANGED <<queue, hand, run>>
    /\ UNCHANGED <<wake, sent, status, signal, pending, detached, admitted, role,
                   turn, resv, dropped>>

-----------------------------------------------------------------------------

\* The steps a run takes when the listeners, the provider and the tools return.
RunStep(c) ==
    \/ RunNotified(c) \/ AgentStarted(c) \/ InitialTurnStarted(c)
    \/ PreStepEnters(c) \/ PreStepRejects(c)
    \/ UserMessageStarted(c) \/ UserMessageEnded(c)
    \/ TurnStarted(c) \/ ContextTransformed(c)
    \/ StreamChunk(c) \/ ChunkDispatched(c) \/ StreamEnds(c)
    \/ LateStartDispatched(c) \/ MessageEnded(c) \/ ErrorTurnEnded(c)
    \/ ToolStarts(c) \/ ToolEnds(c) \/ BatchEnds(c)
    \/ ResultStarted(c) \/ ResultEnded(c) \/ TurnEnded(c)
    \/ NextTurnPrepared(c) \/ TurnStops(c) \/ TurnContinues(c)
    \/ AgentEnded(c) \/ IdleNotified(c)
    \/ FailureStarted(c) \/ FailureEnded(c) \/ FailureTurnEnded(c)
    \/ FailureAgentEnded(c)

\* What listeners, observers, tools and cancellation do besides.
Intervenes(c) ==
    \/ PreStepSubstitutes(c) \/ RunNotifyRaised(c) \/ IdleNotifyRaised(c)
    \/ ListenerRaises(c) \/ BatchRaises(c) \/ RunEscapes(c)

EntryPoint(c) ==
    \/ Prompt(c) \/ Continue(c) \/ RunUntilIdle(c) \/ RunUntilIdleRefused(c)

Anyone == SendInput \/ ClearQueues \/ Abort \/ Reset \/ DetachedToolEnds

Next == Anyone \/ \E c \in Callers : EntryPoint(c) \/ RunStep(c) \/ Intervenes(c)

Spec == Init /\ [][Next]_vars

\* asyncio runs every ready task, listeners and tools return, and a provider
\* stream does not consist of chunks forever.
Fairness ==
    \A c \in Callers : /\ WF_vars(RunStep(c))
                       /\ SF_vars(StreamEnds(c))

FairSpec == Spec /\ Fairness

-----------------------------------------------------------------------------

RunRecords ==
    [op : {"none", "prompt", "continue", "pump"}, skip : BOOLEAN,
     stage : {"initial", "steering", "next"}, opened : BOOLEAN, stop : Stops,
     calls : SUBSET Calls, todo : SUBSET Calls, more : BOOLEAN,
     term : BOOLEAN, exc : BOOLEAN]

TypeOK ==
    /\ InboxTypeOK
    /\ status \in {"idle", "running"}
    /\ signal \in {"none", "live", "aborted"}
    /\ streaming \in BOOLEAN
    /\ pending \in SUBSET Calls
    /\ detached \in SUBSET Calls
    /\ admitted \in Seq(1..MaxSent)
    /\ role \in {"none", "user", "assistant", "tool_result"}
    /\ bracket \in {"open", "closed"}
    /\ turn \in {"open", "closed"}
    /\ endReason \in {"none", "rejected", "stopped", "terminated", "completed",
                      "failed", "error", "aborted"}
    /\ pc \in [Callers -> PCs]
    /\ run \in [Callers -> RunRecords]
    /\ hand \in [Callers -> Seq(0..MaxSent)]
    /\ resv \in [Callers -> Targets \cup {"none"}]
    /\ dropped \in SUBSET (1..MaxSent)

InRun(c) == pc[c] \in AwaitPCs \cup {"run_notify"}

\* At most one of the concurrent callers of prompt(), continue_() and
\* run_until_idle() is inside a run; the status is RUNNING exactly while one
\* is, and the run signal exists exactly then (L09-R007).
RunExclusive ==
    /\ \A c, d \in Callers : InRun(c) /\ InRun(d) => c = d
    /\ status = "running" <=> \E c \in Callers : InRun(c)
    /\ signal = "none" <=> status = "idle"

\* streaming_message and pending_tool_calls never outlive the awaits they
\* describe: whatever raised, was cancelled, or still runs detached, an idle
\* instance shows neither (the write-order argument of _run_wrapped's finally).
VisibleStateOwned ==
    /\ streaming => \E c \in Callers :
          pc[c] \in {"user_start", "stream", "msg_start", "msg_update",
                     "msg_start_late", "result_start", "f_start"}
    /\ pending # {} => \E c \in Callers : pc[c] \in FailurePCs \cup {"tools"}

\* A call that returns without raising leaves a finished run in the log:
\* its AGENT_START is matched by an AGENT_END and, unless the entering input
\* was rejected, its last turn by a TURN_END.
ReturnedRunClosed ==
    \A c \in Callers :
        pc[c] = "idle_notify" /\ ~run[c].exc =>
            /\ bracket = "closed"
            /\ endReason # "rejected" => turn = "closed"

\* Where an envelope is: queued, in a caller's hand, or in the log.
Places(m) ==
    {<<"queue", p[1], p[2]>> : p \in {q \in Targets \X (1..MaxSent) :
        q[2] <= Len(queue[q[1]]) /\ queue[q[1]][q[2]] = m}}
    \cup {<<"hand", p[1], p[2]>> : p \in {q \in Callers \X (1..MaxSent) :
        q[2] <= Len(hand[q[1]]) /\ hand[q[1]][q[2]] = m}}
    \cup {<<"log", "log", i>> : i \in {j \in DOMAIN admitted : admitted[j] = m}}

Accounted(m) == Cardinality(Places(m)) = IF m \in dropped THEN 0 ELSE 1

\* Every envelope the inbox accepted is in exactly one place, or was
\* discarded on purpose (what _Reservation is for, L09-R012).
InputConserved == \A m \in DOMAIN sent : Accounted(m)

\* No run entry, rollback, steering poll, admission, failure or cancellation
\* loses an envelope or enters it twice; input that is cleared, rejected, left out
\* by a pre-step listener, or in the hands of a run that fails counts as discarded
\* (dropped), not as lost.
\* The one step that does lose some is a refused run_until_idle().
InputKept ==
    [][\/ \E c \in Callers : RunUntilIdleRefused(c)
       \/ \A m \in DOMAIN sent : Accounted(m) => Accounted(m)']_vars

\* Envelopes of one queue enter the transcript in the order they were sent,
\* rollbacks and interleaved sends included; none is overtaken while it waits.
\* Listeners that admit what was claimed in another order are not modelled.
InputInOrder ==
    \A i \in DOMAIN admitted : \A m \in 1..(admitted[i] - 1) :
        TargetOf(sent[m]) = TargetOf(sent[admitted[i]]) =>
            \A p \in Places(m) : p[1] = "log" /\ p[3] < i

\* An aborted run always comes to rest, if the provider honours the signal.
AbortSettles == (signal = "aborted") ~> (signal # "aborted")

\* A run that failed always gives the instance back.
FailureSettles ==
    \A c \in Callers : (pc[c] \in FailurePCs) ~> (pc[c] = "out")

\* A run that is asked to stop stops, and a run that failed is closed: neither
\* stays under way for ever.
RunSettles == AbortSettles /\ FailureSettles

\* The callers, and the tool calls, are interchangeable.
Symmetry == Permutations(Callers) \cup Permutations(Calls)

=============================================================================
