----------------------------- MODULE SearchTool -----------------------------
(***************************************************************************)
(* One call of find or grep (tools/builtin/find.py, grep.py) over one      *)
(* engine process at a time (_search.py).  The call, its work (find's is a *)
(* task of its own, which an aborted call leaves behind), the two pumps,   *)
(* the abort watcher and a stop request are tasks of one event loop; the   *)
(* engine and the signal are the environment.  Output is counted in lines, *)
(* of which for grep some are matches.  An engine starts no processes.     *)
(***************************************************************************)
EXTENDS Naturals

CONSTANTS
    MaxLines,     \* bound on the lines an engine writes
    MaxMatches    \* grep's effective limit

VARIABLES
    tool,         \* "find" or "grep"
    retry,        \* find: does the pattern differ from the one Pi would use?
    work,         \* where the call's work is
    answer,       \* what the caller was told, "none" before
    abort,        \* the signal: "none" (not given), "live" or "aborted"
    when,         \* when it was aborted: "never", "early", "inside" the window, "late"
    window,       \* AbortWindow: is it open, and has it observed an abort?
    engine,       \* the engine process: "none", "running" or "exited"
    code,         \* its exit code: "zero", "one", "other", or "null" if it was killed
    wrote, unread, lines,   \* lines the engine wrote, those not read yet, those taken in
    matches,      \* grep: how many matches were counted
    limited,      \* grep: killed_for_limit
    readers,      \* the pumps of stdout and stderr: "off", "reading" or "ended"
    stop,         \* EngineRun._stopping: "off", "pending", "sent" or "done"
    watch         \* watch_abort(): "off", "polling", "killing" or "done"

vars == <<tool, retry, work, answer, abort, when, window, engine, code, wrote, unread, lines, matches,
          limited, readers, stop, watch>>
engineVars == <<engine, code, wrote, unread, lines, matches, limited, readers, stop, watch>>

Pipes == {"stdout", "stderr"}

InitAt(where) ==
    /\ tool \in IF where = "off" THEN {"grep"} ELSE {"find", "grep"}
    /\ retry \in IF tool = "find" THEN BOOLEAN ELSE {FALSE}
    /\ work = where /\ answer = "none"
    /\ abort \in IF where = "off" THEN {"none"} ELSE {"none", "live", "aborted"}
    /\ when = IF abort = "aborted" THEN "early" ELSE "never"
    /\ window = [open |-> FALSE, observed |-> FALSE]
    /\ engine = "none" /\ code = "null" /\ wrote = 0 /\ unread = 0 /\ lines = 0 /\ matches = 0
    /\ limited = FALSE /\ readers = [p \in Pipes |-> "off"] /\ stop = "off" /\ watch = "off"

Init == InitAt("start")

-----------------------------------------------------------------------------

\* AbortWindow.fired()
Fired == window.open /\ abort = "aborted"

\* AbortWindow(signal): open if there is a signal that has not fired.
OpenWindow == window' = [open |-> abort = "live", observed |-> FALSE]

\* The work ends; what it says is the answer unless the call has left it behind.
Finish(outcome) ==
    /\ work' = "ended"
    /\ answer' = IF answer = "none" THEN outcome ELSE answer

\* execute(): an aborted signal is not searched for; find listens from here on.
Begin ==
    /\ work = "start"
    /\ IF abort = "aborted" THEN Finish("aborted") /\ UNCHANGED window
       ELSE /\ work' = "resolving" /\ UNCHANGED answer
            /\ IF tool = "find" THEN OpenWindow ELSE UNCHANGED window
    /\ UNCHANGED <<tool, retry, abort, when, engineVars>>

\* resolve_engine(): the engine is missing or fails verification, or find sees
\* that it was aborted meanwhile.
Resolve ==
    /\ work = "resolving"
    /\ \/ Finish("unavailable")
       \/ tool = "find" /\ Fired /\ Finish("aborted")
       \/ ~(tool = "find" /\ Fired) /\ work' = "probing" /\ UNCHANGED answer
    /\ UNCHANGED <<tool, retry, abort, when, window, engineVars>>

\* find looks for a repository above the path and puts its arguments together.
FindRepository ==
    /\ tool = "find" /\ work = "probing"
    /\ work' = "spawning"
    /\ UNCHANGED <<tool, retry, answer, abort, when, window, engineVars>>

\* grep asks whether the path is there.
ProbePath ==
    /\ tool = "grep" /\ work = "probing"
    /\ \/ work' = "spawning" /\ UNCHANGED answer
       \/ Finish("error")
    /\ UNCHANGED <<tool, retry, abort, when, window, engineVars>>

\* spawn_engine() fails.
SpawnFails ==
    /\ work = "spawning"
    /\ Finish("error")
    /\ UNCHANGED <<tool, retry, abort, when, window, engineVars>>

\* The engine runs; grep listens from here on.
Spawn ==
    /\ work = "spawning"
    /\ work' = "running"
    /\ engine' = "running" /\ code' = "null"
    /\ wrote' = 0 /\ unread' = 0 /\ lines' = 0
    /\ readers' = [p \in Pipes |-> "reading"] /\ watch' = "polling"
    /\ IF tool = "grep" THEN OpenWindow ELSE UNCHANGED window
    /\ UNCHANGED <<tool, retry, answer, abort, when, matches, limited, stop>>

\* Both pipes at their end and the exit known: engine completion.  Whether the
\* call was aborted is decided here, unless find is to try Pi's pattern.
Complete ==
    /\ work = "running" /\ engine = "exited" /\ \A p \in Pipes : readers[p] = "ended"
    /\ IF retry /\ code # "zero" /\ lines = 0
       THEN work' = "releasing again" /\ UNCHANGED window
       ELSE work' = "releasing" /\ window' = [open |-> FALSE, observed |-> window.observed \/ Fired]
    /\ UNCHANGED <<tool, retry, answer, abort, when, engineVars>>

\* The cleanup of run() and of the watcher; a stop request is waited for.
Release ==
    /\ work \in {"releasing", "releasing again"} /\ stop \in {"off", "done"}
    /\ work' = IF work = "releasing" THEN "deciding" ELSE "rejected"
    /\ readers' = [p \in Pipes |-> "off"] /\ watch' = "done"
    /\ UNCHANGED <<tool, retry, answer, abort, when, window, engine, code, wrote, unread, lines, matches,
                   limited, stop>>

\* find: the pattern was rejected; unless aborted the engine is verified again
\* and run with Pi's own pattern.
Rejected ==
    /\ work = "rejected"
    /\ IF Fired THEN Finish("aborted") ELSE work' = "reverifying" /\ UNCHANGED answer
    /\ retry' = FALSE
    /\ UNCHANGED <<tool, abort, when, window, engineVars>>

Reverify ==
    /\ work = "reverifying"
    /\ \/ Finish("unavailable")
       \/ work' = "spawning" /\ UNCHANGED answer
    /\ UNCHANGED <<tool, retry, abort, when, window, engineVars>>

\* What the run shows: an abort inside the window, a failure of the engine, or
\* the results.  find takes a failure with some output for a success.
FindReports ==
    /\ tool = "find" /\ work = "deciding"
    /\ Finish(IF window.observed THEN "aborted"
              ELSE IF code # "zero" /\ lines = 0 THEN "error" ELSE "results")
    /\ UNCHANGED <<tool, retry, abort, when, window, engineVars>>

\* grep's engine exits with one if it found nothing, and with anything if it was
\* stopped at the limit.
GrepReports ==
    /\ tool = "grep" /\ work = "deciding"
    /\ Finish(IF window.observed THEN "aborted"
              ELSE IF ~limited /\ code \notin {"zero", "one"} THEN "error" ELSE "results")
    /\ UNCHANGED <<tool, retry, abort, when, window, engineVars>>

\* _race_window(): find answers at once and leaves its work running.
Abandon ==
    /\ tool = "find" /\ Fired
    /\ work \notin {"start", "ended"} /\ answer = "none"
    /\ answer' = "aborted"
    /\ UNCHANGED <<tool, retry, work, abort, when, window, engineVars>>

-----------------------------------------------------------------------------
(* EngineRun *)

\* grep's on_line(): a match below the limit is counted, and the one that
\* reaches it asks to stop the engine.
CountMatch ==
    /\ tool = "grep" /\ matches < MaxMatches
    /\ matches' = matches + 1
    /\ IF matches' = MaxMatches THEN limited' = TRUE /\ stop' = "pending"
       ELSE UNCHANGED <<limited, stop>>

\* _pump_stdout() takes a line.
TakeLine ==
    /\ readers["stdout"] = "reading" /\ unread > 0
    /\ unread' = unread - 1 /\ lines' = lines + 1
    /\ CountMatch \/ UNCHANGED <<matches, limited, stop>>
    /\ UNCHANGED <<tool, retry, work, answer, abort, when, window, engine, code, wrote, readers, watch>>

PipeEnds(p) ==
    /\ readers[p] = "reading" /\ engine = "exited" /\ (p = "stdout" => unread = 0)
    /\ readers' = [readers EXCEPT ![p] = "ended"]
    /\ UNCHANGED <<tool, retry, work, answer, abort, when, window, engine, code, wrote, unread, lines,
                   matches, limited, stop, watch>>

\* terminate(): an engine that runs is killed.
Terminate ==
    /\ engine' = "exited"
    /\ UNCHANGED code

\* terminate_quietly() of a stop request, and its acknowledgement.
SendStop ==
    /\ stop = "pending"
    /\ Terminate /\ stop' = "sent"
    /\ UNCHANGED <<tool, retry, work, answer, abort, when, window, wrote, unread, lines, matches, limited,
                   readers, watch>>

StopDone ==
    /\ stop = "sent"
    /\ stop' = "done"
    /\ UNCHANGED <<tool, retry, work, answer, abort, when, window, engine, code, wrote, unread, lines,
                   matches, limited, readers, watch>>

\* watch_abort() sees an abort in the window, or that the window is closed.
WatchFires ==
    /\ watch = "polling" /\ (Fired \/ ~window.open)
    /\ watch' = IF Fired THEN "killing" ELSE "done"
    /\ UNCHANGED <<tool, retry, work, answer, abort, when, window, engine, code, wrote, unread, lines,
                   matches, limited, readers, stop>>

WatchKills ==
    /\ watch = "killing"
    /\ Terminate /\ watch' = "done"
    /\ UNCHANGED <<tool, retry, work, answer, abort, when, window, wrote, unread, lines, matches, limited,
                   readers, stop>>

-----------------------------------------------------------------------------
(* The environment *)

EngineWrites ==
    /\ engine = "running" /\ wrote < MaxLines
    /\ wrote' = wrote + 1 /\ unread' = unread + 1
    /\ UNCHANGED <<tool, retry, work, answer, abort, when, window, engine, code, lines, matches, limited,
                   readers, stop, watch>>

EngineExits ==
    /\ engine = "running"
    /\ engine' = "exited" /\ code' \in {"zero", "one", "other"}
    /\ UNCHANGED <<tool, retry, work, answer, abort, when, window, wrote, unread, lines, matches, limited,
                   readers, stop, watch>>

Abort ==
    /\ abort = "live" /\ work # "off"
    /\ abort' = "aborted"
    /\ when' = IF window.open THEN "inside"
               ELSE IF work \in {"start", "resolving", "probing", "spawning"} THEN "early" ELSE "late"
    /\ UNCHANGED <<tool, retry, work, answer, window, engineVars>>

WorkStep ==
    \/ Begin \/ Resolve \/ FindRepository \/ ProbePath \/ SpawnFails \/ Spawn \/ Complete \/ Release
    \/ Rejected \/ Reverify \/ FindReports \/ GrepReports

Next ==
    \/ WorkStep \/ Abandon
    \/ TakeLine \/ (\E p \in Pipes : PipeEnds(p)) \/ SendStop \/ StopDone \/ WatchFires \/ WatchKills
    \/ EngineWrites \/ EngineExits \/ Abort

\* The event loop runs every task that can go on; an engine need not exit.
Fairness ==
    /\ WF_vars(WorkStep) /\ WF_vars(Abandon)
    /\ WF_vars(TakeLine) /\ \A p \in Pipes : WF_vars(PipeEnds(p))
    /\ WF_vars(SendStop) /\ WF_vars(StopDone) /\ WF_vars(WatchFires) /\ WF_vars(WatchKills)

-----------------------------------------------------------------------------

TypeOK ==
    /\ tool \in {"find", "grep"} /\ retry \in BOOLEAN
    /\ answer \in {"none", "aborted", "unavailable", "error", "results"}
    /\ window \in [open : BOOLEAN, observed : BOOLEAN]
    /\ wrote \in 0..MaxLines /\ unread + lines = wrote /\ matches \in 0..MaxMatches
    /\ readers \in [Pipes -> {"off", "reading", "ended"}]

\* "an abort counts only while the window is open": a call is answered "aborted"
\* only for an abort inside its window (or before it began), and never answered
\* with results for one inside it.
AbortCounted ==
    answer # "none" =>
        /\ answer = "aborted" => when = "inside" \/ (when = "early" /\ engine = "none")
        /\ answer = "results" => when # "inside"

\* Results are the whole output of an engine that ended by itself, or as many
\* matches as grep was asked for.
ResultsWhole ==
    answer = "results" =>
        /\ unread = 0
        /\ code = "null" => limited /\ matches = MaxMatches

\* Once the work of a call has ended, left behind or not, its engine has exited,
\* its pipes are released, nobody polls the signal and no stop is under way.
SearchLeavesNothing ==
    work = "ended" =>
        /\ engine # "running" /\ \A p \in Pipes : readers[p] = "off"
        /\ watch \in {"off", "done"} /\ stop \in {"off", "done"}

\* An abort inside the window ends the work, although the engine need not exit,
\* and a call has an answer.
SearchEnds == when = "inside" ~> work = "ended" /\ answer # "none"
=============================================================================
