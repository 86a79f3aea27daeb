----------------------------- MODULE ShellExec -----------------------------
(***************************************************************************)
(* One exec() of the local shell (execution/shell.py) over one process of  *)
(* the subprocess seam (execution/subprocess.py), on POSIX.  The pump of   *)
(* each stream, the exit and timeout watchers, the signal watcher and      *)
(* exec() itself are tasks of one event loop; the process, a descendant    *)
(* that may outlive it with the pipes open, the signal, cleanup() and      *)
(* cancellation are the environment.  Output is counted in unread chunks.  *)
(***************************************************************************)
EXTENDS Naturals, FiniteSets

CONSTANTS
    MaxPending,  \* bound on the unread chunks of a stream
    HasTimeout,  \* was exec() given a timeout?
    Detaches,    \* may the descendant leave the process group?
    Cancels      \* may the caller of exec() be cancelled?

ASSUME ExecAssumption ==
    /\ MaxPending \in Nat \ {0}
    /\ HasTimeout \in BOOLEAN /\ Detaches \in BOOLEAN /\ Cancels \in BOOLEAN

Streams == {"stdout", "stderr"}

VARIABLES
    main,        \* exec(): "off" (there is no call), "start", "preparing", "waiting", "returned" or "cancelled"
    result,      \* what it returned
    active,      \* is the process in LocalShell._active?
    proc,        \* the process: "none", "running", "dead" or "reaped" (returncode set)
    child,       \* its descendant: "none", "group", "detached" or "gone"
    pending,     \* unread chunks of each stream
    closed,      \* the read transports terminate() closed
    signal,      \* RunSignal.aborted
    watcher,     \* _watch_signal(): "off", "polling", "killing" or "done"
    killCause,   \* Process._kill_cause
    terminated,  \* Process._terminate_called
    waitResult,  \* Process._wait_result: "none", "aborted" or "exited"
    pump,        \* each pump(): "off", "reading", "ended" or "cancelled"
    exitTask,    \* watch_exit(), likewise
    timeoutTask, \* watch_timeout(), likewise
    exited,      \* _Completion._exited
    timer,       \* is the idle timer armed?
    settled,     \* _Completion._settled
    timedOut,    \* exec()'s timed_out
    callbackError \* has an output callback raised?

osVars == <<proc, child, pending, closed>>
processVars == <<killCause, terminated, waitResult, watcher>>
taskVars == <<pump, exitTask, timeoutTask>>
completionVars == <<exited, timer, settled, timedOut, callbackError>>
vars == <<main, result, active, signal, osVars, processVars, taskVars, completionVars>>

InitAt(where) ==
    /\ main = where /\ result = "none" /\ active = FALSE
    /\ proc = "none" /\ child = "none"
    /\ pending = [s \in Streams |-> 0] /\ closed = FALSE
    /\ signal \in BOOLEAN /\ watcher = "off"
    /\ killCause = "none" /\ terminated = FALSE /\ waitResult = "none"
    /\ pump = [s \in Streams |-> "off"] /\ exitTask = "off" /\ timeoutTask = "off"
    /\ exited = FALSE /\ timer = FALSE /\ settled = FALSE
    /\ timedOut = FALSE /\ callbackError = FALSE

Init == InitAt("start")

-----------------------------------------------------------------------------
(* exec() *)

\* The checks before the first await: the signal, the timeout, the directory.
Begin ==
    /\ main = "start"
    /\ \/ main' = "returned" /\ result' = IF signal THEN "aborted" ELSE "invalid"
       \/ ~signal /\ main' = "preparing" /\ UNCHANGED result
    /\ UNCHANGED <<active, signal, osVars, processVars, taskVars, completionVars>>

\* Shell discovery, the directory check and spawn(), which looks at the signal
\* again: no process was started.
SpawnFails ==
    /\ main = "preparing"
    /\ main' = "returned"
    /\ \/ result' = "spawn_error"
       \/ signal /\ result' = "aborted"
    /\ UNCHANGED <<active, signal, osVars, processVars, taskVars, completionVars>>

Spawn ==
    /\ main = "preparing" /\ ~signal
    /\ main' = "waiting" /\ active' = TRUE
    /\ proc' = "running" /\ watcher' = "polling"
    /\ pump' = [s \in Streams |-> "reading"]
    /\ exitTask' = "reading"
    /\ timeoutTask' = IF HasTimeout THEN "reading" ELSE "ended"
    /\ UNCHANGED <<result, signal, child, pending, closed, killCause, terminated, waitResult,
                   completionVars>>

\* Settled: the remaining tasks are cancelled and the outcome is classified.
Return ==
    /\ main = "waiting" /\ settled
    /\ main' = "returned" /\ active' = FALSE
    /\ pump' = [s \in Streams |-> IF pump[s] = "reading" THEN "cancelled" ELSE pump[s]]
    /\ exitTask' = IF exitTask = "reading" THEN "cancelled" ELSE exitTask
    /\ timeoutTask' = IF timeoutTask = "reading" THEN "cancelled" ELSE timeoutTask
    /\ result' = IF callbackError THEN "callback_error"
                 ELSE IF timedOut THEN "timeout"
                 ELSE IF waitResult = "aborted" THEN "aborted" ELSE "ok"
    /\ UNCHANGED <<signal, osVars, processVars, completionVars>>

\* The caller is cancelled at an await: exec() leaves, through its finally clause
\* once there is a process; the process and the tasks go on.
CancelExec ==
    /\ Cancels
    /\ main \in {"preparing", "waiting"}
    /\ main' = "cancelled" /\ active' = FALSE
    /\ UNCHANGED <<result, signal, osVars, processVars, taskVars, completionVars>>

-----------------------------------------------------------------------------
(* Process *)

\* SIGKILL to the process group.
Kill ==
    /\ proc' = IF proc = "running" THEN "dead" ELSE proc
    /\ child' = IF child = "group" THEN "gone" ELSE child

\* terminate(): the first cause wins; after the process has exited it also
\* closes the transports a descendant still holds open.
Terminate ==
    IF terminated
    THEN UNCHANGED <<terminated, killCause, proc, child, closed>>
    ELSE /\ terminated' = TRUE
         /\ killCause' = IF killCause = "none" THEN "explicit" ELSE killCause
         /\ Kill
         /\ closed' = (closed \/ proc = "reaped")

\* _watch_signal() sees the signal while the process counts as running: it
\* claims the cause and leaves the kill to a task of its own.
WatcherClaims ==
    /\ watcher = "polling" /\ proc # "reaped" /\ signal
    /\ killCause' = IF killCause = "none" THEN "signal" ELSE killCause
    /\ watcher' = "killing"
    /\ UNCHANGED <<main, result, active, signal, osVars, terminated, waitResult, taskVars, completionVars>>

WatcherKills ==
    /\ watcher = "killing"
    /\ Kill
    /\ watcher' = "done"
    /\ UNCHANGED <<main, result, active, signal, pending, closed, killCause, terminated, waitResult,
                   taskVars, completionVars>>

\* Mutant: the watcher also claims the cause when the process is gone.
WatcherClaimsLate ==
    /\ watcher = "polling" /\ proc = "reaped"
    /\ killCause' = IF signal THEN "signal" ELSE killCause
    /\ watcher' = "done"
    /\ UNCHANGED <<main, result, active, signal, osVars, terminated, waitResult, taskVars, completionVars>>

\* The process has exited: there is nothing left to watch.
WatcherEnds ==
    /\ watcher = "polling" /\ proc = "reaped"
    /\ watcher' = "done"
    /\ UNCHANGED <<main, result, active, signal, osVars, killCause, terminated, waitResult,
                   taskVars, completionVars>>

-----------------------------------------------------------------------------
(* _run_to_completion() *)

\* A chunk is read; after the exit it restarts the idle timer.  A callback that
\* raises terminates the process.
PumpReads(s) ==
    /\ pump[s] = "reading" /\ pending[s] > 0
    /\ pending' = [pending EXCEPT ![s] = @ - 1]
    /\ timer' = (timer \/ exited)
    /\ \/ callbackError' = TRUE /\ Terminate
       \/ UNCHANGED <<callbackError, killCause, terminated, proc, child, closed>>
    /\ UNCHANGED <<main, result, active, signal, waitResult, watcher, taskVars, exited, settled, timedOut>>

\* Nobody can write to the stream any more, or its transport was closed.
EndOfFile == closed \/ (proc # "running" /\ child \in {"none", "gone"})

\* The stream has ended; a last incomplete character is still handed over.  What
\* the loop had not received when the transport was closed is lost.
PumpEnds(s) ==
    /\ pump[s] = "reading" /\ EndOfFile /\ (pending[s] = 0 \/ closed)
    /\ pump' = [pump EXCEPT ![s] = "ended"]
    /\ settled' = (settled \/ (exited /\ \A r \in Streams \ {s} : pump[r] = "ended"))
    /\ \/ callbackError' = TRUE /\ Terminate
       \/ UNCHANGED <<callbackError, killCause, terminated, proc, child, closed>>
    /\ UNCHANGED <<main, result, active, signal, pending, waitResult, watcher,
                   exitTask, timeoutTask, exited, timer, timedOut>>

\* watch_exit(): wait() settles on the exit alone and fixes its classification.
ExitSeen ==
    /\ exitTask = "reading" /\ proc = "reaped"
    /\ exitTask' = "ended"
    /\ waitResult' = IF killCause = "signal" THEN "aborted" ELSE "exited"
    /\ exited' = TRUE
    /\ settled' = (settled \/ \A s \in Streams : pump[s] = "ended")
    /\ timer' = (timer \/ ~settled')
    /\ UNCHANGED <<main, result, active, signal, osVars, killCause, terminated, watcher, pump, timeoutTask,
                   timedOut, callbackError>>

\* The idle timer: nothing was read for the grace period, in which the event
\* loop reads whatever there is to read, the end of a stream included.
TimerFires ==
    /\ timer /\ ~settled
    /\ \A s \in Streams : pump[s] = "ended" \/ (pending[s] = 0 /\ ~EndOfFile)
    /\ settled' = TRUE
    /\ UNCHANGED <<main, result, active, signal, osVars, processVars, taskVars, exited, timer,
                   timedOut, callbackError>>

\* watch_timeout()
TimeoutFires ==
    /\ timeoutTask = "reading"
    /\ timeoutTask' = "ended"
    /\ timedOut' = TRUE
    /\ Terminate
    /\ UNCHANGED <<main, result, active, signal, pending, waitResult, watcher, pump, exitTask,
                   exited, timer, settled, callbackError>>

-----------------------------------------------------------------------------
(* The environment *)

Write(s) ==
    /\ proc = "running" \/ child \in {"group", "detached"}
    /\ ~closed /\ pending[s] < MaxPending
    /\ pending' = [pending EXCEPT ![s] = @ + 1]
    /\ UNCHANGED <<main, result, active, signal, proc, child, closed, processVars, taskVars, completionVars>>

ForkChild ==
    /\ proc = "running" /\ child = "none"
    /\ child' \in {"group"} \cup (IF Detaches THEN {"detached"} ELSE {})
    /\ UNCHANGED <<main, result, active, signal, proc, pending, closed, processVars, taskVars, completionVars>>

Exit ==
    /\ \/ proc = "running" /\ proc' = "dead" /\ UNCHANGED child
       \/ child \in {"group", "detached"} /\ child' = "gone" /\ UNCHANGED proc
    /\ UNCHANGED <<main, result, active, signal, pending, closed, processVars, taskVars, completionVars>>

\* asyncio records the return code and completes the exit notification.
Reap ==
    /\ proc = "dead"
    /\ proc' = "reaped"
    /\ UNCHANGED <<main, result, active, signal, child, pending, closed, processVars, taskVars, completionVars>>

Abort ==
    /\ ~signal
    /\ signal' = TRUE
    /\ UNCHANGED <<main, result, active, osVars, processVars, taskVars, completionVars>>

\* LocalShell.cleanup()
Cleanup ==
    /\ active
    /\ active' = FALSE
    /\ Terminate
    /\ UNCHANGED <<main, result, signal, pending, waitResult, watcher, taskVars, completionVars>>

LoopStep ==
    \/ Begin \/ SpawnFails \/ Spawn \/ Return
    \/ WatcherClaims \/ WatcherKills \/ WatcherEnds
    \/ \E s \in Streams : PumpReads(s) \/ PumpEnds(s)
    \/ ExitSeen \/ TimerFires \/ TimeoutFires

Next ==
    \/ LoopStep \/ CancelExec
    \/ (\E s \in Streams : Write(s)) \/ ForkChild \/ Exit \/ Reap \/ Abort \/ Cleanup

Spec == Init /\ [][Next]_vars

\* The event loop runs each task that can go on, timers expire and the operating
\* system reports exits; programs need not exit and need not stop writing.
Fairness ==
    /\ WF_vars(Begin \/ SpawnFails \/ Spawn) /\ WF_vars(Return) /\ WF_vars(Reap)
    /\ WF_vars(WatcherClaims) /\ WF_vars(WatcherKills) /\ WF_vars(WatcherEnds)
    /\ \A s \in Streams : WF_vars(PumpReads(s)) /\ WF_vars(PumpEnds(s))
    /\ WF_vars(ExitSeen) /\ WF_vars(TimerFires) /\ WF_vars(TimeoutFires)

-----------------------------------------------------------------------------

TypeOK ==
    LET tasks == {"off", "reading", "ended", "cancelled"} IN
    /\ main \in {"off", "start", "preparing", "waiting", "returned", "cancelled"}
    /\ result \in {"none", "ok", "aborted", "timeout", "callback_error", "spawn_error", "invalid"}
    /\ proc \in {"none", "running", "dead", "reaped"}
    /\ child \in {"none", "group", "detached", "gone"}
    /\ pending \in [Streams -> 0..MaxPending]
    /\ {active, closed, signal, terminated, exited, timer, settled, timedOut, callbackError} \subseteq BOOLEAN
    /\ watcher \in {"off", "polling", "killing", "done"}
    /\ killCause \in {"none", "signal", "explicit"}
    /\ waitResult \in {"none", "aborted", "exited"}
    /\ pump \in [Streams -> tasks] /\ exitTask \in tasks /\ timeoutTask \in tasks

\* exec() never reports success for a command the signal got killed first, and
\* reports an abort only if the signal did: "Whichever is recorded FIRST wins".
FirstClaimWins ==
    main = "returned" /\ proc # "none" =>
        /\ killCause = "signal" => result # "ok"
        /\ result = "aborted" => killCause = "signal"

\* "wait() settles on the process's own exit": the classification made when the
\* exit was observed is still the process's when exec() returns.
ClassifiedOnce ==
    waitResult # "none" => (waitResult = "aborted" <=> killCause = "signal")

\* A command is reported only after its process was reaped, and a successful one
\* that left no descendant with all it ever wrote, unless cleanup() or a late
\* timeout closed its streams.
OutputComplete ==
    main = "returned" /\ proc # "none" =>
        /\ proc = "reaped"
        /\ result = "ok" /\ child = "none" /\ ~closed => \A s \in Streams : pending[s] = 0

\* With a timeout exec() always comes back, whatever the command and its
\* descendants do, unless one of them has left the process group.
TimeoutSettles == main = "waiting" ~> main # "waiting" \/ child = "detached"

=============================================================================
