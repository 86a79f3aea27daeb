----------------------------- MODULE Projection -----------------------------
(***************************************************************************)
(* The lifecycle events of a run, twice: dispatched live by the driver     *)
(* (agent_loop/driver.py), and rebuilt from the session log by project()   *)
(* (agent/projection.py).  The driver is modelled by what it appends to    *)
(* the log and what it dispatches, in order; AgentLoop models its control. *)
(* `live` is what a listener registered first observes, but for the ends   *)
(* of the calls of a batch, which are dispatched concurrently: each stands *)
(* where its dispatch is over, as a listener registered last observes it.  *)
(* Other code of the run may raise at every await.  ToolExecutionUpdate is *)
(* not logged and never projected, and the calls that outlive a batch that *)
(* raised (`detached` in AgentLoop) end unseen: both are left out.         *)
(***************************************************************************)
EXTENDS Naturals, FiniteSets, SequencesExt, TLC

CONSTANTS
    MaxRuns,     \* bound on the runs
    MaxTurns,    \* bound on the turns of a run
    MaxMessages, \* bound on the messages made by all runs
    MaxCalls,    \* bound on the tool calls of a reply
    MaxChunks,   \* bound on the chunks of a reply, starts included
    MaxCauses,   \* bound on the causes of a run
    Raises       \* may the code of a run raise?

VARIABLES
    log,         \* SessionLog.events, without what project() never reads
    live,        \* the events dispatched so far
    causes,      \* the list of causes of each run: its entries of the log hold
                 \* that list itself, which the driver extends
    pc,          \* where the driver is
    made,        \* messages made so far; each gets the next number
    newMessages, \* AgentLoop's new_messages of the run
    reply,       \* the assistant message of the turn
    results,     \* the calls of the turn, then their results, delivered or not
    begun,       \* how many of the calls started, while a batch starts them
    sent,        \* how many of them were delivered
    turns,       \* turns begun in the run
    opened,      \* was the TURN_START of this turn appended?
    streaming,   \* stream_opened: did the reply begin with a start chunk?
    chunks,      \* chunks of the reply so far
    runs         \* runs begun

run == <<newMessages, reply, results, begun, sent, turns, opened, streaming, chunks, runs>>
vars == <<log, live, causes, pc, made, run>>

None == <<"none", 0>>

\* A log entry, and an event: its kind, the message and the messages it carries.
\* Those of a run also have its reason to end and its causes: an event as they
\* are when it is dispatched, an entry the list, named by the run.
Entry(kind, m, ms) == [kind |-> kind, m |-> m, ms |-> ms, index |-> 0, run |-> 0, reason |-> ""]
Event(kind, m, ms) == [kind |-> kind, m |-> m, ms |-> ms, causes |-> <<>>, reason |-> ""]
RunEntry(kind, r, reason, ms) == [Entry(kind, None, ms) EXCEPT !.run = r, !.reason = reason]
RunEvent(kind, reason, cs, ms) == [Event(kind, None, ms) EXCEPT !.causes = cs, !.reason = reason]

Init ==
    /\ log = <<>> /\ live = <<>> /\ causes = <<>> /\ pc = "idle" /\ made = 0
    /\ newMessages = <<>> /\ reply = None /\ results = <<>> /\ begun = 0 /\ sent = 0
    /\ turns = 0 /\ opened = FALSE /\ streaming = FALSE /\ chunks = 0 /\ runs = 0

-----------------------------------------------------------------------------
\* project()

\* emit_message(): with its start unless that was projected already.
Emit(a, m, suppress) ==
    [a EXCEPT !.out = @ \o (IF suppress THEN <<>> ELSE <<Event("MessageStart", m, <<>>)>>)
                        \o <<Event("MessageEnd", m, <<>>)>>,
              !.runMsgs = Append(@, m),
              !.turnMsg = IF m[1] = "assistant" THEN m ELSE @]

\* Mutant: the ends keep the order of the log.
FlushUnsorted(a) ==
    LET ends == [i \in DOMAIN a.pending |-> Event("ToolExecutionEnd", a.pending[i].m, <<>>)]
        Deliver(b, e) == [Emit(b, e.m, FALSE) EXCEPT !.turnResults = Append(@, e.m)]
    IN  FoldLeft(Deliver, [a EXCEPT !.out = @ \o ends, !.pending = <<>>], a.pending)

\* flush_results(): the ends in completion order, the messages in log order.
Flush(a) ==
    LET sorted == SortSeq(a.pending, LAMBDA e, f : e.index < f.index)
        ends == [i \in DOMAIN sorted |-> Event("ToolExecutionEnd", sorted[i].m, <<>>)]
        started == [a EXCEPT !.out = @ \o ends, !.pending = <<>>]
        Deliver(b, e) == [Emit(b, e.m, FALSE) EXCEPT !.turnResults = Append(@, e.m)]
    IN  FoldLeft(Deliver, started, a.pending)

\* One entry of the log; a holds the variables of project().  The causes of a
\* run are read from its list now.
ProjectEntry(a0, e) ==
    LET a == IF e.kind # "TOOL_RESULT" THEN Flush(a0) ELSE a0
        Out(b, event) == [b EXCEPT !.out = Append(@, event)]
    IN  CASE e.kind = "AGENT_START" ->
                 Out([a EXCEPT !.runMsgs = <<>>], RunEvent("AgentStart", "", causes[e.run], <<>>))
          [] e.kind = "AGENT_END" ->
                 Out(a, RunEvent("AgentEnd", e.reason, causes[e.run],
                                 IF e.ms # <<>> THEN e.ms ELSE a.runMsgs))
          [] e.kind = "TURN_START" ->
                 Out([a EXCEPT !.turnMsg = None, !.turnResults = <<>>],
                     Event("TurnStart", None, <<>>))
          [] e.kind = "TURN_END" ->
                 Out(a, IF e.m # None THEN Event("TurnEnd", e.m, <<>>)
                                      ELSE Event("TurnEnd", a.turnMsg, a.turnResults))
          [] e.kind = "STREAM_START" ->
                 Out([a EXCEPT !.streamOpen = TRUE], Event("MessageStart", e.m, <<>>))
          [] e.kind = "CHUNK" -> Out(a, Event("MessageUpdate", e.m, <<>>))
          [] e.kind = "ASSISTANT_MESSAGE" ->
                 [Emit(a, e.m, a.streamOpen) EXCEPT !.streamOpen = FALSE]
          [] e.kind = "TOOL_CALL" -> Out(a, Event("ToolExecutionStart", e.m, <<>>))
          [] e.kind = "TOOL_RESULT" -> [a EXCEPT !.pending = Append(@, e)]
          [] e.kind = "USER_MESSAGE" -> Emit(a, e.m, FALSE)

\* The whole log; results at its end are flushed too.
Project(l) ==
    Flush(FoldLeft(ProjectEntry,
                   [out |-> <<>>, pending |-> <<>>, runMsgs |-> <<>>, turnMsg |-> None,
                    turnResults |-> <<>>, streamOpen |-> FALSE], l)).out

-----------------------------------------------------------------------------
\* The driver

\* Append to the log, dispatch, go on.
Log(e) == log' = Append(log, e)
Dispatch(e) == live' = Append(live, e)
Goto(at) == pc' = at
Make(role) == <<role, made + 1>>

\* The next n causes of run r: one for each envelope it claims.
Fresh(r, old, n) == [i \in 1..n |-> <<r, Len(old) + i>>]

\* A run by prompt(), which has no cause, or of claimed envelopes.
StartRun ==
    /\ pc = "idle" /\ runs < MaxRuns
    /\ runs' = runs + 1
    /\ newMessages' = <<>> /\ turns' = 1 /\ opened' = FALSE
    /\ \E n \in 0..MaxCauses : causes' = Append(causes, Fresh(runs', <<>>, n))
    /\ Log(RunEntry("AGENT_START", runs', "", <<>>))
    /\ Dispatch(RunEvent("AgentStart", "", causes'[runs'], <<>>))
    /\ Goto("first")
    /\ UNCHANGED <<made, reply, results, begun, sent, streaming, chunks>>

\* The TURN_START of the first turn precedes what the turn admits, that of a
\* later turn follows it.
OpenTurn ==
    /\ pc = "first" \/ (pc = "admit" /\ ~opened)
    /\ Log(Entry("TURN_START", None, <<>>)) /\ Dispatch(Event("TurnStart", None, <<>>))
    /\ opened' = TRUE
    /\ Goto(IF pc = "first" THEN "admit" ELSE "request")
    /\ UNCHANGED <<causes, made, newMessages, reply, results, begun, sent, turns, streaming, chunks, runs>>

\* _admit_messages(), one message: the log entry between the two dispatches.
AdmitStart ==
    /\ pc = "admit" /\ made < MaxMessages
    /\ made' = made + 1
    /\ Dispatch(Event("MessageStart", Make("user"), <<>>))
    /\ Goto("admitted")
    /\ UNCHANGED <<log, causes, run>>

AdmitEnd ==
    /\ pc = "admitted"
    /\ Log(Entry("USER_MESSAGE", <<"user", made>>, <<>>))
    /\ Dispatch(Event("MessageEnd", <<"user", made>>, <<>>))
    /\ newMessages' = Append(newMessages, <<"user", made>>)
    /\ Goto("admit")
    /\ UNCHANGED <<causes, made, reply, results, begun, sent, turns, opened, streaming, chunks, runs>>

\* A listener of agent/pre-step rejects the input.
Reject ==
    /\ pc = "admit"
    /\ Goto("rejected")
    /\ UNCHANGED <<log, live, causes, made, run>>

\* The request goes out; its reply is the next message.
SendRequest ==
    /\ pc = "request" \/ (pc = "admit" /\ opened)
    /\ made < MaxMessages
    /\ made' = made + 1 /\ reply' = Make("assistant")
    /\ results' = <<>> /\ begun' = 0 /\ sent' = 0 /\ streaming' = FALSE /\ chunks' = 0
    /\ Goto("stream")
    /\ UNCHANGED <<log, live, causes, newMessages, turns, opened, runs>>

Partial == <<"partial", reply[2]>>

\* A start chunk: the first of the reply, or wherever else an adapter sends one.
StreamStart ==
    /\ pc = "stream" /\ chunks < MaxChunks
    /\ chunks' = chunks + 1
    /\ streaming' = TRUE
    /\ Log(Entry("STREAM_START", Partial, <<>>)) /\ Dispatch(Event("MessageStart", Partial, <<>>))
    /\ UNCHANGED <<causes, pc, made, newMessages, reply, results, begun, sent, turns, opened, runs>>

StreamChunk ==
    /\ pc = "stream" /\ chunks < MaxChunks
    /\ chunks' = chunks + 1
    /\ Log(Entry("CHUNK", Partial, <<>>)) /\ Dispatch(Event("MessageUpdate", Partial, <<>>))
    /\ UNCHANGED <<causes, pc, made, newMessages, reply, results, begun, sent, turns, opened, streaming, runs>>

\* The terminal chunk; a reply that had no start gets its MessageStart now.
StreamDone ==
    /\ pc = "stream"
    /\ live' = live \o (IF streaming THEN <<>> ELSE <<Event("MessageStart", reply, <<>>)>>)
    /\ Goto("reply")
    /\ UNCHANGED <<log, causes, made, run>>

\* A represented error ends the run after this turn; calls go to the tools.
ReplyEnd ==
    /\ pc = "reply"
    /\ Log(Entry("ASSISTANT_MESSAGE", reply, <<>>)) /\ Dispatch(Event("MessageEnd", reply, <<>>))
    /\ newMessages' = Append(newMessages, reply)
    /\ \E at \in {"turnEnd", "failedTurn", "calls"} : Goto(at)
    /\ UNCHANGED <<causes, made, reply, results, begun, sent, turns, opened, streaming, chunks, runs>>

\* Every TOOL_CALL of the reply is appended before the batch runs.
LogCalls ==
    /\ pc = "calls" /\ made < MaxMessages
    /\ \E n \in 1..MaxCalls :
          /\ made + n <= MaxMessages
          /\ made' = made + n
          /\ results' = [i \in 1..n |-> Entry("TOOL_RESULT", <<"result", made + i>>, <<>>)]
          /\ log' = log \o [i \in 1..n |-> Entry("TOOL_CALL", <<"result", made + i>>, <<>>)]
    /\ Goto("batch")
    /\ UNCHANGED <<live, causes, newMessages, reply, begun, sent, turns, opened, streaming, chunks, runs>>

\* execute_batch() starts the calls one after another.  A call of a sequential
\* or truncated batch, or one refused before it executes, ends at once; the
\* others of a parallel batch end when all have started, in any order.
CallStart ==
    /\ pc = "batch" /\ begun < Len(results)
    /\ begun' = begun + 1
    /\ Dispatch(Event("ToolExecutionStart", results[begun'].m, <<>>))
    /\ UNCHANGED <<log, causes, pc, made, newMessages, reply, results, sent, turns, opened,
                   streaming, chunks, runs>>

\* The index of a result is its place in the order of completion.
Ended == {i \in DOMAIN results : results[i].index # 0}

CallEnd ==
    /\ \E i \in DOMAIN results \ Ended :
          /\ pc = "results" \/ (pc = "batch" /\ i = begun)
          /\ Dispatch(Event("ToolExecutionEnd", results[i].m, <<>>))
          /\ results' = [results EXCEPT ![i].index = Cardinality(Ended) + 1]
    /\ UNCHANGED <<log, causes, pc, made, newMessages, reply, begun, sent, turns, opened,
                   streaming, chunks, runs>>

\* No other call starts: there is none, or the signal is aborted.  A call that
\* did not start has no result, although its TOOL_CALL is in the log.
CallsStarted ==
    /\ pc = "batch" /\ begun > 0
    /\ results' = SubSeq(results, 1, begun)
    /\ begun' = 0
    /\ Goto("results")
    /\ UNCHANGED <<log, live, causes, made, newMessages, reply, sent, turns, opened, streaming,
                   chunks, runs>>

Settled == pc = "results" /\ Ended = DOMAIN results

ResultStart ==
    /\ Settled /\ sent < Len(results)
    /\ Dispatch(Event("MessageStart", results[sent + 1].m, <<>>))
    /\ Goto("resultEnd")
    /\ UNCHANGED <<log, causes, made, run>>

ResultEnd ==
    /\ pc = "resultEnd"
    /\ LET entry == results[sent + 1] IN
       /\ Log(entry)
       /\ Dispatch(Event("MessageEnd", entry.m, <<>>))
       /\ newMessages' = Append(newMessages, entry.m)
    /\ sent' = sent + 1
    /\ Goto("results")
    /\ UNCHANGED <<causes, made, reply, results, begun, turns, opened, streaming, chunks, runs>>

TurnEnd ==
    /\ pc \in {"turnEnd", "failedTurn"} \/ (Settled /\ sent = Len(results))
    /\ Log(Entry("TURN_END", None, <<>>))
    /\ Dispatch(Event("TurnEnd", reply, [i \in DOMAIN results |-> results[i].m]))
    /\ Goto(IF pc = "failedTurn" THEN "error" ELSE "decide")
    /\ UNCHANGED <<causes, made, run>>

\* The run goes on with another turn, for tool results or steering, or for the
\* follow-ups it claims; or it ends.
Decide ==
    /\ pc = "decide"
    /\ \/ /\ turns < MaxTurns
          /\ turns' = turns + 1 /\ opened' = FALSE
          /\ \E n \in 0..(MaxCauses - Len(causes[runs])) :
                causes' = [causes EXCEPT ![runs] = @ \o Fresh(runs, @, n)]
          /\ Goto("admit")
       \/ /\ Goto("completed")
          /\ UNCHANGED <<causes, turns, opened>>
    /\ UNCHANGED <<log, live, made, newMessages, reply, results, begun, sent, streaming, chunks, runs>>

\* Where a run ends, for the reason of that name ("aborted" goes the way of
\* "error", "stopped" and "terminated" go that of "completed").
EndReasons == {"rejected", "error", "completed"}

EndRun ==
    /\ pc \in EndReasons
    /\ Log(RunEntry("AGENT_END", runs, pc, <<>>))
    /\ Dispatch(RunEvent("AgentEnd", pc, causes[runs], newMessages))
    /\ Goto("ended")
    /\ UNCHANGED <<causes, made, run>>

Return ==
    /\ pc = "ended"
    /\ Goto("idle")
    /\ UNCHANGED <<log, live, causes, made, run>>

-----------------------------------------------------------------------------
\* An exception of the run and _settle_run_failure().

Recovering == pc \in {"fail1", "fail2", "fail3", "fail4"}

\* An exception goes to the recovery.  It leaves the run at once if it is a
\* cancellation, if stream() raised it for a model it does not know, or if the
\* recovery itself raised it.
Raise ==
    /\ Raises /\ pc \notin {"idle", "fail0"}
    /\ \E at \in {"idle"} \cup (IF Recovering THEN {} ELSE {"fail0"}) : Goto(at)
    /\ UNCHANGED <<log, live, causes, made, run>>

Failure == <<"assistant", made>>

FailStart ==
    /\ pc = "fail0" /\ made < MaxMessages
    /\ made' = made + 1
    /\ Dispatch(Event("MessageStart", Make("assistant"), <<>>))
    /\ Goto("fail1")
    /\ UNCHANGED <<log, causes, run>>

FailEnd ==
    /\ pc = "fail1"
    /\ Log(Entry("ASSISTANT_MESSAGE", Failure, <<>>)) /\ Dispatch(Event("MessageEnd", Failure, <<>>))
    /\ Goto("fail2")
    /\ UNCHANGED <<causes, made, run>>

FailTurn ==
    /\ pc = "fail2"
    /\ Log(Entry("TURN_END", Failure, <<>>)) /\ Dispatch(Event("TurnEnd", Failure, <<>>))
    /\ Goto("fail3")
    /\ UNCHANGED <<causes, made, run>>

FailRun ==
    /\ pc = "fail3"
    /\ Log(RunEntry("AGENT_END", runs, "failed", <<Failure>>))
    /\ Dispatch(RunEvent("AgentEnd", "failed", causes[runs], <<Failure>>))
    /\ Goto("fail4")
    /\ UNCHANGED <<causes, made, run>>

FailReturn ==
    /\ pc = "fail4"
    /\ Goto("idle")
    /\ UNCHANGED <<log, live, causes, made, run>>

Next ==
    \/ StartRun \/ OpenTurn \/ AdmitStart \/ AdmitEnd \/ Reject \/ SendRequest
    \/ StreamStart \/ StreamChunk \/ StreamDone \/ ReplyEnd
    \/ LogCalls \/ CallStart \/ CallEnd \/ CallsStarted \/ ResultStart \/ ResultEnd
    \/ TurnEnd \/ Decide \/ EndRun \/ Return
    \/ Raise \/ FailStart \/ FailEnd \/ FailTurn \/ FailRun \/ FailReturn

Spec == Init /\ [][Next]_vars

-----------------------------------------------------------------------------

Roles == {"none", "user", "assistant", "partial", "result"}
Brackets == {"AgentStart", "AgentEnd", "TurnStart", "TurnEnd"}
Messages == {"MessageStart", "MessageUpdate", "MessageEnd"}

\* The messages are numbered in the order they were made, the events and the
\* entries carry messages that were made, every run has its list of causes, and
\* no bound was passed.
TypeOK ==
    /\ made \in 0..MaxMessages /\ turns \in 0..MaxTurns /\ runs \in 0..MaxRuns
    /\ DOMAIN causes = 1..runs
    /\ \A r \in 1..runs : causes[r] = Fresh(r, <<>>, Len(causes[r])) /\ Len(causes[r]) <= MaxCauses
    /\ \A i \in DOMAIN live : live[i].m \in Roles \X (0..made)
    /\ \A i \in DOMAIN log : log[i].m \in Roles \X (0..made) /\ log[i].index <= MaxCalls
    /\ {begun, sent} \subseteq 0..Len(results) /\ chunks \in 0..MaxChunks
    /\ {opened, streaming} \subseteq BOOLEAN

Only(events, kinds) == SelectSeq(events, LAMBDA e : e.kind \in kinds)

\* The same but for the causes of AgentStart.
CausesAside(events) ==
    [i \in DOMAIN events |->
        IF events[i].kind = "AgentStart" THEN [events[i] EXCEPT !.causes = <<>>] ELSE events[i]]

SameBut(projected, dispatched, kinds) ==
    Only(CausesAside(projected), kinds) = Only(CausesAside(dispatched), kinds)

\* The causes of an AgentStart that was dispatched are those the run had when it
\* began; the projected one has those the run came to have, follow-ups included.
CausesGrown(projected, dispatched) ==
    LET was == Only(dispatched, {"AgentStart"})
        is == Only(projected, {"AgentStart"})
    IN  \A i \in DOMAIN is : is[i].causes = causes[i] /\ IsPrefix(was[i].causes, is[i].causes)

\* The starts of the calls that ended, and all other events.
Executed(events) ==
    LET ended == {e.m : e \in ToSet(Only(live, {"ToolExecutionEnd"}))}
    IN  SelectSeq(events, LAMBDA e : e.kind = "ToolExecutionStart" => e.m \in ended)

\* As long as nothing raised, project() rebuilds from the log of finished runs
\* the events that were dispatched, with the messages, results, causes and
\* reasons they carried: run and turn brackets, streamed and admitted messages,
\* tool results in source order, tool ends in the order of completion; and, for
\* the calls that were executed, the tool starts, in their order among all but
\* the tool ends.  Three things differ.  An AgentStart is projected with the
\* causes the run had in the end; the starts of a batch all precede its ends;
\* and a call an abort kept from starting is projected as started.
ProjectsOrdinaryRuns ==
    pc = "idle" =>
        LET projected == Project(log) IN
        /\ SameBut(projected, live, Brackets \cup Messages \cup {"ToolExecutionEnd"})
        /\ SameBut(Executed(projected), live, Brackets \cup Messages \cup {"ToolExecutionStart"})
        /\ CausesGrown(projected, live)

\* At every moment, and whatever raised or cancelled the run, the run and turn
\* brackets project() rebuilds are the ones that were dispatched, with the same
\* messages, reasons and causes; an AgentStart with the causes so far.
ProjectsBrackets ==
    LET projected == Project(log) IN
    /\ SameBut(projected, live, Brackets)
    /\ CausesGrown(projected, live)

\* _settle_run_failure() produces one message, TurnEnd and AgentEnd, and
\* project() shows the MessageStart of that message like the live dispatch did.
ProjectsFailure ==
    pc = "fail4" => LET p == Project(log) IN SubSeq(p, Len(p) - 3, Len(p)) = SubSeq(live, Len(live) - 3, Len(live))
=============================================================================
