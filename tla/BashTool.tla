------------------------------ MODULE BashTool ------------------------------
(***************************************************************************)
(* One call of the bash tool (tools/builtin/bash.py): run_command() and    *)
(* the tasks of its _Run.  The pumps accept output, one writer persists    *)
(* it in order through the file system once it is too long to show,        *)
(* settle() ends the command, and only then finish_output() joins the      *)
(* writer.  Chunks are numbered as they are accepted; the two pipes are    *)
(* one stream here, their order among each other is nobody's promise.      *)
(***************************************************************************)
EXTENDS Naturals, SequencesExt

CONSTANTS
    MaxChunks,  \* bound on the output of the command, in chunks
    Limit,      \* chunks that can be shown without the full-output file
    HasTimeout, \* was a timeout given?
    FileFails,  \* may the file system fail?
    Cancels     \* may the call be cancelled?

VARIABLES
    at,         \* where run_command() is; "off" when there is no call
    outcome,    \* how the call ended
    signal,     \* RunSignal.aborted
    lateAbort,  \* auxiliary: was the abort requested after settlement?
    proc,       \* the process: "none", "running" or "exited"
    heir,       \* a descendant with the pipes open: "none", "alive" or "gone"
    written,    \* chunks written into the pipes
    watcher,    \* Process._watch_signal(): "off", "polling", "killing" or "over"
    accepted,   \* chunks accept() took
    pumps,      \* "off", "reading", "ended" or "cancelled"
    closed,     \* are the read ends closed?
    queue,      \* _Run._accepted, with 0 for the end marker
    writer,     \* write_accepted(): "off", "idle", "create", "append", "ended" or "cancelled"
    backlog,    \* _Run.backlog
    writing,    \* what the writer is appending
    file,       \* is there a full-output file?
    content,    \* what it holds
    fileError,  \* _Run.file_error
    tail,       \* did the flush of the decoder make the output too long?
    timer,      \* the timeout: "off", "armed" or "fired"
    kill,       \* the task fire() makes for terminate(): "none", "scheduled" or "over"
    timedOut,   \* _Run.timed_out
    verdict     \* what is decided at settlement: [aborted, timedOut]

osVars == <<proc, heir, written, watcher>>
intakeVars == <<accepted, pumps, closed>>
fileVars == <<writer, backlog, writing, file, content, fileError>>
timerVars == <<timer, kill, timedOut>>
vars == <<at, outcome, signal, lateAbort, osVars, intakeVars, queue, fileVars, tail, timerVars, verdict>>

InitAt(where) ==
    /\ at = where /\ outcome = "none"
    /\ signal \in BOOLEAN /\ lateAbort = FALSE
    /\ proc = "none" /\ heir = "none" /\ written = 0 /\ watcher = "off"
    /\ accepted = 0 /\ pumps = "off" /\ closed = FALSE
    /\ queue = <<>> /\ writer = "off" /\ backlog = <<>> /\ writing = <<>>
    /\ file = FALSE /\ content = <<>> /\ fileError = FALSE /\ tail = FALSE
    /\ timer = "off" /\ kill = "none" /\ timedOut = FALSE
    /\ verdict = [aborted |-> FALSE, timedOut |-> FALSE]

Init == InitAt("start")

\* OutputAccumulator.should_use_temp_file
NeedsFile == accepted > Limit \/ tail

\* Nobody holds the pipes any more and everything was read.
EndOfFile == proc = "exited" /\ heir # "alive" /\ written = accepted

\* terminate() and a kill for the signal watcher of the process: the group dies.
Kill ==
    /\ proc' = IF proc = "running" THEN "exited" ELSE proc
    /\ heir' = IF heir = "alive" THEN "gone" ELSE heir

-----------------------------------------------------------------------------
\* run_command()

\* The timeout is validated and the signal looked at before the first await.
Start ==
    /\ at = "start"
    /\ \/ at' = "done" /\ outcome' = "error"
       \/ signal /\ at' = "done" /\ outcome' = "aborted"
       \/ ~signal /\ at' = "selecting" /\ UNCHANGED outcome
    /\ UNCHANGED <<signal, lateAbort, osVars, intakeVars, queue, fileVars, tail, timerVars, verdict>>

\* No shell, no directory, or a spawn that failed or saw the signal.
SpawnFails ==
    /\ at = "selecting"
    /\ at' = "done"
    /\ outcome' \in {"error"} \cup (IF signal THEN {"aborted"} ELSE {})
    /\ UNCHANGED <<signal, lateAbort, osVars, intakeVars, queue, fileVars, tail, timerVars, verdict>>

\* The process runs, the timer is armed and settle() starts the writer and the
\* pumps.
Spawn ==
    /\ at = "selecting" /\ ~signal
    /\ at' = "running" /\ proc' = "running" /\ watcher' = "polling"
    /\ timer' = IF HasTimeout THEN "armed" ELSE "off"
    /\ writer' = "idle" /\ pumps' = "reading"
    /\ UNCHANGED <<outcome, signal, lateAbort, heir, written, accepted, closed, queue, backlog,
                   writing, file, content, fileError, tail, kill, timedOut, verdict>>

\* settle(): the exit is seen.
ExitSeen ==
    /\ at = "running" /\ proc = "exited"
    /\ at' = "grace"
    /\ UNCHANGED <<outcome, signal, lateAbort, osVars, intakeVars, queue, fileVars, tail, timerVars, verdict>>

\* Both streams ended, or nothing came for the grace period, in which the event
\* loop reads what there is to read: the finally clause cancels the pumps,
\* closes the read ends and marks the end of the queue.
Settle ==
    /\ at = "grace"
    /\ pumps = "ended" \/ (written = accepted /\ ~EndOfFile)
    /\ at' = "settled"
    /\ pumps' = IF pumps = "reading" THEN "cancelled" ELSE pumps
    /\ closed' = TRUE
    /\ queue' = Append(queue, 0)
    /\ UNCHANGED <<outcome, signal, lateAbort, osVars, accepted, fileVars, tail, timerVars, verdict>>

\* The timer and the kill task are disposed of, then the verdict is taken.
Decide ==
    /\ at = "settled"
    /\ at' = "finishing"
    /\ timer' = IF timer = "armed" THEN "off" ELSE timer
    /\ kill' = IF kill = "scheduled" THEN "over" ELSE kill
    /\ verdict' = [aborted |-> signal, timedOut |-> timedOut]
    /\ UNCHANGED <<outcome, signal, lateAbort, osVars, intakeVars, queue, fileVars, tail, timedOut>>

\* finish_output(): the writer is joined, the decoder flushed.
Joined ==
    /\ at = "finishing" /\ writer = "ended"
    /\ at' = "flushing"
    /\ tail' \in (IF accepted = 0 THEN {FALSE} ELSE BOOLEAN)
    /\ UNCHANGED <<outcome, signal, lateAbort, osVars, intakeVars, queue, fileVars, timerVars, verdict>>

\* The last _persist(): a file that is needed only now is written at once.
Flush ==
    /\ at = "flushing"
    /\ at' = "flushed"
    /\ IF fileError \/ file \/ ~NeedsFile
       THEN UNCHANGED fileVars
       ELSE \/ /\ file' = TRUE /\ content' = backlog /\ backlog' = <<>>
               /\ UNCHANGED <<writer, writing, fileError>>
            \/ /\ FileFails /\ fileError' = TRUE /\ file' \in BOOLEAN
               /\ backlog' = IF file' THEN <<>> ELSE backlog
               /\ UNCHANGED <<writer, writing, content>>
    /\ UNCHANGED <<outcome, signal, lateAbort, osVars, intakeVars, queue, tail, timerVars, verdict>>

Return ==
    /\ at = "flushed"
    /\ at' = "done"
    /\ outcome' = IF fileError THEN "file_error"
                  ELSE IF verdict.aborted THEN "aborted"
                  ELSE IF verdict.timedOut THEN "timeout" ELSE "exit"
    /\ UNCHANGED <<signal, lateAbort, osVars, intakeVars, queue, fileVars, tail, timerVars, verdict>>

\* Mutant: an abandoned run does not end its writer.
CancelKeepsWriter ==
    /\ Cancels
    /\ at \in {"running", "grace"}
    /\ at' = "done" /\ outcome' = "cancelled"
    /\ pumps' = IF pumps = "reading" THEN "cancelled" ELSE pumps
    /\ closed' = (closed \/ pumps # "off")
    /\ timer' = IF timer = "armed" THEN "off" ELSE timer
    /\ kill' = IF kill = "scheduled" THEN "over" ELSE kill
    /\ UNCHANGED <<signal, lateAbort, osVars, accepted, queue, fileVars, tail, timedOut, verdict>>

\* The call is cancelled at an await.  The finally clauses release the read
\* ends, the timer and the kill task and end the writer; the process lives on.
\* At "settled" the awaits swallow a cancellation.
Cancel ==
    /\ Cancels
    /\ at \in {"selecting", "running", "grace", "finishing", "flushing"}
    /\ at' = "done" /\ outcome' = "cancelled"
    /\ pumps' = IF pumps = "reading" THEN "cancelled" ELSE pumps
    /\ closed' = (closed \/ pumps # "off")
    /\ timer' = IF timer = "armed" THEN "off" ELSE timer
    /\ kill' = IF kill = "scheduled" THEN "over" ELSE kill
    /\ writer' = IF writer \in {"off", "ended"} THEN writer ELSE "cancelled"
    /\ UNCHANGED <<signal, lateAbort, osVars, accepted, queue, backlog, writing, file, content,
                   fileError, tail, timedOut, verdict>>

-----------------------------------------------------------------------------
\* The pumps and the writer

\* A read completes: accumulated and queued without a further await.
Accept ==
    /\ pumps = "reading" /\ written > accepted
    /\ accepted' = accepted + 1
    /\ queue' = Append(queue, accepted + 1)
    /\ UNCHANGED <<at, outcome, signal, lateAbort, osVars, pumps, closed, fileVars, tail, timerVars, verdict>>

PumpsEnd ==
    /\ pumps = "reading" /\ EndOfFile
    /\ pumps' = "ended"
    /\ UNCHANGED <<at, outcome, signal, lateAbort, osVars, accepted, closed, queue, fileVars, tail, timerVars, verdict>>

\* Mutant: the chunk that makes the file necessary is not kept with the others.
TakeDropping ==
    /\ writer = "idle" /\ queue # <<>>
    /\ queue' = Tail(queue)
    /\ LET c == Head(queue) IN
       \/ c = 0 /\ writer' = "ended" /\ UNCHANGED <<backlog, writing>>
       \/ c # 0 /\ fileError /\ UNCHANGED <<writer, backlog, writing>>
       \/ /\ c # 0 /\ ~fileError /\ ~file
          /\ backlog' = IF NeedsFile THEN backlog ELSE Append(backlog, c)
          /\ writer' = IF NeedsFile THEN "create" ELSE "idle"
          /\ UNCHANGED writing
       \/ /\ c # 0 /\ ~fileError /\ file
          /\ writing' = <<c>> /\ writer' = "append"
          /\ UNCHANGED backlog
    /\ UNCHANGED <<at, outcome, signal, lateAbort, osVars, intakeVars, file, content, fileError, tail, timerVars, verdict>>

\* write_accepted() takes the next chunk into _persist(): kept back while the
\* output can be shown, else the file is created, or the chunk appended to it.
Take ==
    /\ writer = "idle" /\ queue # <<>>
    /\ queue' = Tail(queue)
    /\ LET c == Head(queue) IN
       \/ c = 0 /\ writer' = "ended" /\ UNCHANGED <<backlog, writing>>
       \/ c # 0 /\ fileError /\ UNCHANGED <<writer, backlog, writing>>
       \/ /\ c # 0 /\ ~fileError /\ ~file
          /\ backlog' = Append(backlog, c)
          /\ writer' = IF NeedsFile THEN "create" ELSE "idle"
          /\ UNCHANGED writing
       \/ /\ c # 0 /\ ~fileError /\ file
          /\ writing' = <<c>> /\ writer' = "append"
          /\ UNCHANGED backlog
    /\ UNCHANGED <<at, outcome, signal, lateAbort, osVars, intakeVars, file, content, fileError, tail, timerVars, verdict>>

Create ==
    /\ writer = "create"
    /\ file' = TRUE /\ writing' = backlog /\ backlog' = <<>>
    /\ writer' = "append"
    /\ UNCHANGED <<at, outcome, signal, lateAbort, osVars, intakeVars, queue, content, fileError,
                   tail, timerVars, verdict>>

Appended ==
    /\ writer = "append"
    /\ content' = content \o writing /\ writing' = <<>>
    /\ writer' = "idle"
    /\ UNCHANGED <<at, outcome, signal, lateAbort, osVars, intakeVars, queue, backlog, file,
                   fileError, tail, timerVars, verdict>>

\* The file cannot be created or written: the run is ended, the writer goes on
\* and drops what is left.
WriteFails ==
    /\ FileFails /\ writer \in {"create", "append"}
    /\ fileError' = TRUE /\ writing' = <<>>
    /\ writer' = "idle"
    /\ Kill
    /\ UNCHANGED <<at, outcome, signal, lateAbort, written, watcher, intakeVars, queue, backlog, file,
                   content, tail, timerVars, verdict>>

\* Mutant: the timeout is recorded and nobody ends the command.
TimerOnlyRecords ==
    /\ timer = "armed"
    /\ timer' = "fired" /\ timedOut' = TRUE
    /\ UNCHANGED <<at, outcome, signal, lateAbort, osVars, intakeVars, queue, fileVars, tail, kill, verdict>>

\* fire(): recorded at once, the kill is left to a task.
TimerFires ==
    /\ timer = "armed"
    /\ timer' = "fired" /\ timedOut' = TRUE /\ kill' = "scheduled"
    /\ UNCHANGED <<at, outcome, signal, lateAbort, osVars, intakeVars, queue, fileVars, tail, verdict>>

KillRuns ==
    /\ kill = "scheduled"
    /\ kill' = "over"
    /\ Kill
    /\ UNCHANGED <<at, outcome, signal, lateAbort, written, watcher, intakeVars, queue, fileVars, tail, timer,
                   timedOut, verdict>>

-----------------------------------------------------------------------------
\* The environment

\* The process or its descendant writes; after close() the writer is refused.
Write ==
    /\ proc = "running" \/ heir = "alive"
    /\ ~closed /\ written < MaxChunks
    /\ written' = written + 1
    /\ UNCHANGED <<at, outcome, signal, lateAbort, proc, heir, watcher, intakeVars, queue, fileVars, tail, timerVars, verdict>>

Fork ==
    /\ proc = "running" /\ heir = "none"
    /\ heir' = "alive"
    /\ UNCHANGED <<at, outcome, signal, lateAbort, proc, written, watcher, intakeVars, queue, fileVars, tail, timerVars, verdict>>

Exit ==
    /\ \/ proc = "running" /\ proc' = "exited" /\ UNCHANGED heir
       \/ heir = "alive" /\ heir' = "gone" /\ UNCHANGED proc
    /\ UNCHANGED <<at, outcome, signal, lateAbort, written, watcher, intakeVars, queue, fileVars, tail, timerVars, verdict>>

Abort ==
    /\ ~signal
    /\ signal' = TRUE
    /\ lateAbort' = (at \in {"finishing", "flushing", "flushed"})
    /\ UNCHANGED <<at, outcome, osVars, intakeVars, queue, fileVars, tail, timerVars, verdict>>

\* The signal watcher of the process polls as long as that runs, and leaves the
\* kill to a task nobody waits for: the process may have ended by then.
WatcherSees ==
    /\ watcher = "polling" /\ signal /\ proc = "running"
    /\ watcher' = "killing"
    /\ UNCHANGED <<at, outcome, signal, lateAbort, proc, heir, written, intakeVars, queue, fileVars, tail,
                   timerVars, verdict>>

WatcherKills ==
    /\ watcher = "killing"
    /\ watcher' = "over"
    /\ Kill
    /\ UNCHANGED <<at, outcome, signal, lateAbort, written, intakeVars, queue, fileVars, tail, timerVars, verdict>>

Loop ==
    \/ Start \/ SpawnFails \/ Spawn \/ ExitSeen \/ Settle \/ Decide \/ Joined \/ Flush \/ Return
    \/ Accept \/ PumpsEnd \/ Take \/ Create \/ Appended \/ WriteFails \/ TimerFires \/ KillRuns
    \/ WatcherSees \/ WatcherKills

Next == Loop \/ Cancel \/ Write \/ Fork \/ Exit \/ Abort

Spec == Init /\ [][Next]_vars

\* The event loop runs every task that can go on and the file system answers.
\* Programs need not exit.
Fairness ==
    /\ WF_vars(Start \/ SpawnFails \/ Spawn) /\ WF_vars(ExitSeen) /\ WF_vars(Settle)
    /\ WF_vars(Decide) /\ WF_vars(Joined) /\ WF_vars(Flush) /\ WF_vars(Return)
    /\ WF_vars(Accept) /\ WF_vars(PumpsEnd) /\ WF_vars(Take)
    /\ WF_vars(Create \/ Appended \/ WriteFails)
    /\ WF_vars(TimerFires) /\ WF_vars(KillRuns) /\ WF_vars(WatcherSees) /\ WF_vars(WatcherKills)

-----------------------------------------------------------------------------

All == [i \in 1..accepted |-> i]
Done == at = "done"

TypeOK ==
    /\ at \in {"off", "start", "selecting", "running", "grace", "settled", "finishing", "flushing", "flushed", "done"}
    /\ outcome \in {"none", "error", "aborted", "timeout", "exit", "file_error", "cancelled"}
    /\ {signal, lateAbort, closed, file, fileError, tail, timedOut} \subseteq BOOLEAN
    /\ proc \in {"none", "running", "exited"} /\ heir \in {"none", "alive", "gone"}
    /\ watcher \in {"off", "polling", "killing", "over"}
    /\ accepted <= written /\ written <= MaxChunks
    /\ pumps \in {"off", "reading", "ended", "cancelled"}
    /\ writer \in {"off", "idle", "create", "append", "ended", "cancelled"}
    /\ timer \in {"off", "armed", "fired"} /\ kill \in {"none", "scheduled", "over"}
    /\ \A i \in DOMAIN queue : queue[i] \in 0..accepted
    /\ writer = "ended" => queue = <<>>

\* The full-output file holds, at every moment, an unbroken beginning of the
\* accepted output, and of a call that reports its output either everything
\* that was accepted, or there is no file and nothing is missing from what is
\* shown: the writer never loses or reorders a chunk, however intake, creation,
\* appends and settlement interleave.
FileComplete ==
    /\ IsPrefix(content, All)
    /\ Done /\ outcome \in {"exit", "aborted", "timeout"} /\ pumps # "off" =>
          IF NeedsFile THEN file /\ content = All ELSE ~file

\* Every way out of a call whose process was started leaves nothing behind in
\* the event loop: pumps and writer are over, the read ends are closed, no
\* timer is armed and no kill of its own is under way.  The process's own watcher
\* lives on with it, and so does the kill that leaves to a task.
NothingLeftBehind ==
    Done /\ proc # "none" =>
        /\ closed /\ pumps # "reading"
        /\ writer \in {"ended", "cancelled"}
        /\ timer # "armed" /\ kill # "scheduled"

\* An abort that arrives while only the full-output file is being finished does
\* not change how the command is reported.
LateAbortIgnored == lateAbort => outcome # "aborted"

\* Once the timer is armed the call ends, although the command need not: the
\* timeout, an abort or a failing file end it, the descendants in its group too.
TimeoutEnds == timer = "armed" ~> Done
=============================================================================
