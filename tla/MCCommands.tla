----------------------------- MODULE MCCommands -----------------------------
(* Commands: one exec() of the local shell, one call of the bash tool, one *)
(* call of a search tool, and the provisioning of its engines.  They share *)
(* no state, so a behaviour exercises the one `part` names; the others are *)
(* at rest.                                                                *)
EXTENDS ShellExec

CONSTANTS MaxChunks, Limit, FileFails, MaxFound, MaxMatches, Installers

ASSUME CommandsAssumption ==
    MaxChunks \in Nat /\ Limit \in Nat /\ MaxFound \in Nat /\ MaxMatches \in Nat

VARIABLES
    part,
    at, outcome, toolSignal, lateAbort, toolProc, heir, written, toolWatcher, accepted, pumps, toolClosed, queue,
    writer, backlog, writing, file, content, fileError, decoderTail, toolTimer, kill, toolTimedOut, verdict,
    tool, retry, work, answer, abort, when, window, engine, code, wrote, unread, lines, matches, limited,
    readers, stop, watch,
    binary, temporary, step, turn, reported

toolVars ==
    <<at, outcome, toolSignal, lateAbort, toolProc, heir, written, toolWatcher, accepted, pumps, toolClosed, queue,
      writer, backlog, writing, file, content, fileError, decoderTail, toolTimer, kill, toolTimedOut, verdict>>
searchVars ==
    <<tool, retry, work, answer, abort, when, window, engine, code, wrote, unread, lines, matches, limited,
      readers, stop, watch>>
provisionVars == <<binary, temporary, step, turn, reported>>

Tool == INSTANCE BashTool WITH
    signal <- toolSignal, proc <- toolProc, watcher <- toolWatcher, closed <- toolClosed, timer <- toolTimer,
    timedOut <- toolTimedOut, tail <- decoderTail

Search == INSTANCE SearchTool WITH MaxLines <- MaxFound

Provision == INSTANCE EngineStore

MCInit ==
    /\ part \in {"shell", "tool", "search", "provision"}
    /\ IF part = "shell" THEN Init ELSE InitAt("off") /\ ~signal
    /\ IF part = "tool" THEN Tool!Init ELSE Tool!InitAt("off") /\ ~toolSignal
    /\ IF part = "search" THEN Search!Init ELSE Search!InitAt("off")
    /\ Provision!Init /\ (part # "provision" => \A e \in DOMAIN binary : binary[e] = "absent")

MCNext ==
    /\ UNCHANGED part
    /\ \/ part = "shell" /\ Next /\ UNCHANGED <<toolVars, searchVars, provisionVars>>
       \/ part = "tool" /\ Tool!Next /\ UNCHANGED <<vars, searchVars, provisionVars>>
       \/ part = "search" /\ Search!Next /\ UNCHANGED <<vars, toolVars, provisionVars>>
       \/ part = "provision" /\ Provision!Next /\ UNCHANGED <<vars, toolVars, searchVars>>

MCSpec ==
    /\ MCInit /\ [][MCNext]_<<part, vars, toolVars, searchVars, provisionVars>>
    /\ Fairness /\ Tool!Fairness /\ Search!Fairness

\* How a command is reported is decided once, by the first claim: exec() never
\* reports success for a command the signal got killed first, and an abort only
\* if it did; and an abort that reaches the bash tool while only its full-output
\* file is being finished does not change its report; nor does one that reaches
\* a search once its engine has completed, while one before always counts.
ReportedOnce == FirstClaimWins /\ ClassifiedOnce /\ Tool!LateAbortIgnored /\ Search!AbortCounted

\* No output is lost, repeated or miscounted: exec() reports a command that left
\* nobody behind with all it wrote; the full-output file of a bash call holds
\* what was accepted, unbroken and in order, all of it when the call reports;
\* and a search shows the results of an engine that was not cut short, or its
\* limit.
OutputKept ==
    /\ TypeOK /\ OutputComplete
    /\ Tool!TypeOK /\ Tool!FileComplete
    /\ Search!TypeOK /\ Search!ResultsWhole

\* Every way out of a bash call whose process was started leaves no pump, no
\* writer, no timer, no kill task of its own and no open read end behind; nor does a search
\* whose work has ended, and provisioning leaves no part of an engine in place.
NothingLeftBehind == Tool!NothingLeftBehind /\ Search!SearchLeavesNothing /\ Provision!InstalledWhole

\* With a timeout exec() and the bash tool always come back, although the
\* command need not end, unless a descendant has left exec()'s process group; and
\* an aborted search ends, also when its call has already been answered.
TimeoutEnds == TimeoutSettles /\ Tool!TimeoutEnds /\ Search!SearchEnds

=============================================================================
