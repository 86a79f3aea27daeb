--------------------------- MODULE CommandsProofs ---------------------------
(***************************************************************************)
(* What MCCommands claims of commands, searches and the provisioning of    *)
(* engines, for any length of output, any limit and any set of installers. *)
(* Each part has an inductive invariant of its own; a step of one leaves   *)
(* the others as they are.                                                 *)
(***************************************************************************)
EXTENDS MCCommands, SequenceTheorems, TLAPS

\* exec() of the local shell

\* Nobody is left to write to the streams once EndOfFile holds, and an ended
\* pump has read all of its stream unless that was closed under it; exec()
\* settles only after the exit was seen, and with no descendant only after both
\* pumps have ended.
ShellInv ==
    /\ main \in {"off", "start", "preparing"} => proc = "none"
    /\ \A s \in Streams : pump[s] = "ended" => EndOfFile /\ (pending[s] = 0 \/ closed)
    /\ watcher = "polling" => proc # "none"
    /\ timer => exited
    /\ settled => exited
    /\ exited => waitResult # "none"
    /\ waitResult # "none" => proc = "reaped"
    /\ settled /\ child = "none" => \A s \in Streams : pump[s] = "ended"
    /\ main = "returned" /\ proc # "none" =>
           /\ settled
           /\ result = "ok" => waitResult = "exited"
           /\ result = "aborted" => waitResult = "aborted"

\* TypeOK, each flag by itself.
ShellTypes ==
    /\ main \in {"off", "start", "preparing", "waiting", "returned", "cancelled"}
    /\ result \in {"none", "ok", "aborted", "timeout", "callback_error", "spawn_error", "invalid"}
    /\ proc \in {"none", "running", "dead", "reaped"}
    /\ child \in {"none", "group", "detached", "gone"}
    /\ pending \in [Streams -> 0..MaxPending]
    /\ active \in BOOLEAN /\ closed \in BOOLEAN /\ signal \in BOOLEAN
    /\ terminated \in BOOLEAN /\ exited \in BOOLEAN /\ timer \in BOOLEAN
    /\ settled \in BOOLEAN /\ timedOut \in BOOLEAN /\ callbackError \in BOOLEAN
    /\ watcher \in {"off", "polling", "killing", "done"}
    /\ killCause \in {"none", "signal", "explicit"}
    /\ waitResult \in {"none", "aborted", "exited"}
    /\ pump \in [Streams -> {"off", "reading", "ended", "cancelled"}]
    /\ exitTask \in {"off", "reading", "ended", "cancelled"}
    /\ timeoutTask \in {"off", "reading", "ended", "cancelled"}

\* The inductive invariant of exec().
ShellSafe == ShellTypes /\ FirstClaimWins /\ ClassifiedOnce /\ OutputComplete /\ ShellInv

\* TypeOK, with its set of flags read flag by flag.
LEMMA ShellTyped == TypeOK <=> ShellTypes
<1>1. {active, closed, signal, terminated, exited, timer, settled, timedOut, callbackError} \subseteq BOOLEAN
        <=> /\ active \in BOOLEAN /\ closed \in BOOLEAN /\ signal \in BOOLEAN
            /\ terminated \in BOOLEAN /\ exited \in BOOLEAN /\ timer \in BOOLEAN
            /\ settled \in BOOLEAN /\ timedOut \in BOOLEAN /\ callbackError \in BOOLEAN
  OBVIOUS
<1> QED BY <1>1 DEF TypeOK, ShellTypes

\* exec() before its first step, or no exec() at all, has the invariant.
LEMMA ShellBegins ==
  ASSUME NEW where \in {"start", "off"}, InitAt(where)
  PROVE  ShellSafe
<1> USE ExecAssumption DEF InitAt, ShellSafe, ShellTypes, FirstClaimWins, ClassifiedOnce, OutputComplete, ShellInv
<1>0. /\ active \in BOOLEAN /\ closed \in BOOLEAN /\ terminated \in BOOLEAN /\ exited \in BOOLEAN
      /\ timer \in BOOLEAN /\ settled \in BOOLEAN /\ timedOut \in BOOLEAN /\ callbackError \in BOOLEAN
  BY Zenon
<1>1. ShellTypes
  BY <1>0
<1>2. FirstClaimWins /\ ClassifiedOnce /\ OutputComplete
  OBVIOUS
<1>3. ShellInv
  OBVIOUS
<1> QED BY <1>1, <1>2, <1>3

\* What exec() does not touch cannot disturb it.
LEMMA ShellRests ==
  ASSUME ShellSafe, UNCHANGED vars
  PROVE  ShellSafe'
BY DEF vars, osVars, processVars, taskVars, completionVars, ShellSafe, ShellTypes, FirstClaimWins,
       ClassifiedOnce, OutputComplete, ShellInv, EndOfFile

\* Every step of exec(), its tasks and the operating system keeps the first
\* claim, the classification and the output.
LEMMA ShellSteps ==
  ASSUME ShellSafe, Next
  PROVE  ShellSafe'
<1> USE ExecAssumption DEF ShellSafe, ShellTypes, FirstClaimWins, ClassifiedOnce, OutputComplete, ShellInv, EndOfFile,
        osVars, processVars, taskVars, completionVars
<1>1. CASE Begin
  BY <1>1 DEF Begin
<1>2. CASE SpawnFails
  BY <1>2 DEF SpawnFails
<1>3. CASE Spawn
  BY <1>3 DEF Spawn
<1>4. CASE Return
  <2> USE <1>4 DEF Return
  <2>0. active' \in BOOLEAN
    BY Zenon
  <2>1. ShellTypes'
    BY <2>0
  <2>2. FirstClaimWins' /\ ClassifiedOnce' /\ OutputComplete'
    OBVIOUS
  <2>3. ShellInv'
    OBVIOUS
  <2> QED BY <2>1, <2>2, <2>3
<1>5. CASE WatcherClaims
  BY <1>5 DEF WatcherClaims
<1>6. CASE WatcherKills
  BY <1>6 DEF WatcherKills, Kill
<1>7. CASE WatcherEnds
  BY <1>7 DEF WatcherEnds
<1>8. ASSUME NEW s \in Streams, PumpReads(s) PROVE ShellSafe'
  <2> USE <1>8 DEF PumpReads
  <2>1. CASE UNCHANGED <<callbackError, killCause, terminated, proc, child, closed>>
    BY <2>1
  <2>2. CASE callbackError' = TRUE /\ terminated /\ Terminate
    BY <2>2 DEF Terminate
  <2>3. CASE callbackError' = TRUE /\ ~terminated /\ Terminate
    BY <2>3 DEF Terminate, Kill
  <2> QED BY <2>1, <2>2, <2>3
<1>9. ASSUME NEW s \in Streams, PumpEnds(s) PROVE ShellSafe'
  <2> USE <1>9 DEF PumpEnds, Streams
  <2>1. CASE UNCHANGED <<callbackError, killCause, terminated, proc, child, closed>>
    BY <2>1
  <2>2. CASE callbackError' = TRUE /\ terminated /\ Terminate
    BY <2>2 DEF Terminate
  <2>3. CASE callbackError' = TRUE /\ ~terminated /\ Terminate
    BY <2>3 DEF Terminate, Kill
  <2> QED BY <2>1, <2>2, <2>3
<1>10. CASE ExitSeen
  BY <1>10 DEF ExitSeen
<1>11. CASE TimerFires
  BY <1>11 DEF TimerFires
<1>12. CASE TimeoutFires
  <2> USE <1>12 DEF TimeoutFires
  <2>1. CASE terminated
    BY <2>1 DEF Terminate
  <2>2. CASE ~terminated
    BY <2>2 DEF Terminate, Kill
  <2> QED BY <2>1, <2>2
<1>13. CASE CancelExec
  <2> USE <1>13 DEF CancelExec
  <2>0. active' \in BOOLEAN
    BY Zenon
  <2>1. ShellTypes'
    BY <2>0
  <2>2. FirstClaimWins' /\ ClassifiedOnce' /\ OutputComplete'
    OBVIOUS
  <2>3. ShellInv'
    OBVIOUS
  <2> QED BY <2>1, <2>2, <2>3
<1>14. ASSUME NEW s \in Streams, Write(s) PROVE ShellSafe'
  BY <1>14 DEF Write
<1>15. CASE ForkChild
  BY <1>15 DEF ForkChild
<1>16. CASE Exit
  BY <1>16 DEF Exit
<1>17. CASE Reap
  BY <1>17 DEF Reap
<1>18. CASE Abort
  BY <1>18 DEF Abort
<1>19. CASE Cleanup
  <2> USE <1>19 DEF Cleanup
  <2>0. active' \in BOOLEAN
    BY Zenon
  <2>1. CASE terminated
    BY <2>0, <2>1 DEF Terminate
  <2>2. CASE ~terminated
    BY <2>0, <2>2 DEF Terminate, Kill
  <2> QED BY <2>1, <2>2
<1> QED
  BY <1>1, <1>2, <1>3, <1>4, <1>5, <1>6, <1>7, <1>8, <1>9, <1>10, <1>11, <1>12, <1>13, <1>14, <1>15,
     <1>16, <1>17, <1>18, <1>19 DEF Next, LoopStep

-----------------------------------------------------------------------------
\* One call of the bash tool

\* Chunks in order, from the one after `before` on.
Numbered(chunks, before) ==
    chunks \in Seq(Nat) /\ \A i \in 1..Len(chunks) : chunks[i] = before + i

\* The queue: the last chunks of n, with the end marker behind them or not.
Marked(q) == q # <<>> /\ q[Len(q)] = 0

\* How many of n chunks were taken from the queue q.
Taken(q, n) == n - Len(q) + (IF Marked(q) THEN 1 ELSE 0)

\* q holds the chunks up to n that were not taken yet, in order.
Waits(q, n) ==
    /\ q \in Seq(Nat) /\ Taken(q, n) \in 0..n
    /\ \A i \in 1..Len(q) : (q[i] = 0 /\ i = Len(q)) \/ q[i] = Taken(q, n) + i

\* What each variable of the call holds: its places, its tasks, its file, its
\* counts.
CallParts ==
    /\ at \in {"off", "start", "selecting", "running", "grace", "settled", "finishing", "flushing", "flushed", "done"}
    /\ outcome \in {"none", "error", "aborted", "timeout", "exit", "file_error", "cancelled"}
    /\ toolSignal \in BOOLEAN /\ lateAbort \in BOOLEAN /\ toolTimedOut \in BOOLEAN
    /\ verdict.aborted \in BOOLEAN
TaskParts ==
    /\ toolClosed \in BOOLEAN
    /\ toolProc \in {"none", "running", "exited"} /\ heir \in {"none", "alive", "gone"}
    /\ pumps \in {"off", "reading", "ended", "cancelled"}
    /\ writer \in {"off", "idle", "create", "append", "ended", "cancelled"}
    /\ toolTimer \in {"off", "armed", "fired"} /\ kill \in {"none", "scheduled", "over"}
    /\ toolWatcher \in {"off", "polling", "killing", "over"}
FileParts ==
    /\ file \in BOOLEAN /\ fileError \in BOOLEAN /\ decoderTail \in BOOLEAN
CountParts ==
    accepted \in Nat /\ written \in Nat /\ accepted <= written /\ written <= MaxChunks

\* What the call holds, at each place where it can be.
CallHolds ==
    /\ at \in {"off", "start", "selecting"} =>
           /\ toolProc = "none" /\ pumps = "off" /\ writer = "off" /\ ~toolClosed
           /\ toolTimer = "off" /\ kill = "none" /\ accepted = 0 /\ queue = <<>>
    /\ at \in {"running", "grace"} =>
           pumps # "off" /\ writer \notin {"off", "cancelled"} /\ ~toolClosed /\ toolProc # "none"
    /\ at \in {"settled", "finishing", "flushing", "flushed"} =>
           toolClosed /\ toolProc # "none" /\ writer # "off" /\ pumps # "off"
    /\ at \in {"finishing", "flushing", "flushed"} => toolTimer # "armed" /\ kill # "scheduled"
    /\ at \in {"flushing", "flushed"} => writer = "ended"
    /\ writer = "ended" => toolClosed /\ queue = <<>>
    /\ toolClosed => pumps \notin {"off", "reading"}
    /\ toolProc = "none" <=> pumps = "off"
    /\ toolProc = "none" => writer = "off"
    /\ at = "done" /\ toolProc # "none" =>
           /\ toolClosed /\ pumps # "reading" /\ writer \in {"ended", "cancelled"}
           /\ toolTimer # "armed" /\ kill # "scheduled"

\* The verdict is taken before an abort can be late.
CallReports ==
    /\ at # "done" => outcome = "none"
    /\ verdict.aborted => toolSignal
    /\ lateAbort => /\ toolSignal /\ ~verdict.aborted /\ outcome # "aborted"
                    /\ at \in {"finishing", "flushing", "flushed", "done"}

\* Every accepted chunk is in the file, on its way there, kept back or queued,
\* in this order, until the file fails.
FileHolds ==
    /\ Waits(queue, accepted) /\ (Marked(queue) => toolClosed)
    /\ Numbered(content, 0) /\ Len(content) <= accepted
    /\ writing \in Seq(Nat) /\ backlog \in Seq(Nat)
    /\ ~fileError =>
           /\ Numbered(writing, Len(content)) /\ Numbered(backlog, Len(content) + Len(writing))
           /\ Taken(queue, accepted) = Len(content) + Len(writing) + Len(backlog)

\* The call reports its output.
ReportsFile == at = "done" /\ outcome \in {"exit", "aborted", "timeout"} /\ pumps # "off"

\* There is a file exactly when one is needed, once the output is flushed.
FileStands ==
    /\ writer \in {"off", "idle", "ended", "create"} => writing = <<>>
    /\ writer = "create" => ~file /\ Tool!NeedsFile
    /\ fileError => writer \notin {"create", "append"}
    /\ ~file => content = <<>> /\ writing = <<>>
    /\ file /\ ~fileError => backlog = <<>>
    /\ file => Tool!NeedsFile
    /\ decoderTail => at \in {"flushing", "flushed", "done"}
    /\ ReportsFile => ~fileError
    /\ at = "flushed" \/ ReportsFile =>
           fileError \/ IF Tool!NeedsFile THEN file /\ Len(content) = accepted ELSE ~file

\* The inductive invariant of a bash call.
ToolSafe == CallParts /\ TaskParts /\ FileParts /\ CountParts /\ CallHolds /\ CallReports /\ FileHolds /\ FileStands

\* The next chunk behind a numbered sequence: it stays numbered.
LEMMA NumberedAppended ==
  ASSUME NEW s, NEW n \in Nat, Numbered(s, n)
  PROVE  Numbered(Append(s, n + Len(s) + 1), n) /\ Len(Append(s, n + Len(s) + 1)) = Len(s) + 1
BY DEF Numbered

\* An append to the file continues what the file holds.
LEMMA NumberedJoined ==
  ASSUME NEW s, NEW t, Numbered(s, 0), Numbered(t, Len(s))
  PROVE  Numbered(s \o t, 0) /\ Len(s \o t) = Len(s) + Len(t)
<1> USE DEF Numbered
<1>1. s \o t \in Seq(Nat) /\ Len(s \o t) = Len(s) + Len(t)
  OBVIOUS
<1>2. ASSUME NEW i \in 1..Len(s \o t) PROVE (s \o t)[i] = 0 + i
  <2>1. CASE i <= Len(s)
    BY <1>1, <2>1
  <2>2. CASE i > Len(s)
    <3>1. i - Len(s) \in 1..Len(t) /\ (s \o t)[i] = t[i - Len(s)]
      BY <1>1, <2>2
    <3>2. t[i - Len(s)] = Len(s) + (i - Len(s))
      BY <3>1
    <3> QED BY <3>1, <3>2
  <2> QED BY <2>1, <2>2
<1> QED BY <1>1, <1>2

\* accept() queues the next chunk: what was taken before is not changed.
LEMMA ChunkQueued ==
  ASSUME NEW q, NEW n \in Nat, Waits(q, n), ~Marked(q)
  PROVE  /\ Waits(Append(q, n + 1), n + 1) /\ ~Marked(Append(q, n + 1))
         /\ Taken(Append(q, n + 1), n + 1) = Taken(q, n)
<1>1. q \in Seq(Nat) /\ Len(Append(q, n + 1)) = Len(q) + 1 /\ Append(q, n + 1)[Len(q) + 1] = n + 1
      /\ \A i \in 1..Len(q) : Append(q, n + 1)[i] = q[i]
  BY DEF Waits
<1>2. ~Marked(Append(q, n + 1))
  BY <1>1 DEF Marked
<1>3. Taken(q, n) = n - Len(q) /\ Taken(Append(q, n + 1), n + 1) = Taken(q, n)
  BY <1>1, <1>2 DEF Taken
<1>4. \A i \in 1..Len(q) : q[i] = Taken(q, n) + i
  <2> SUFFICES ASSUME NEW i \in 1..Len(q) PROVE q[i] = Taken(q, n) + i
    OBVIOUS
  <2>1. ~(q[i] = 0 /\ i = Len(q))
    BY <1>1 DEF Marked
  <2> QED BY <2>1 DEF Waits
<1>5. \A i \in 1..Len(Append(q, n + 1)) : Append(q, n + 1)[i] = Taken(q, n) + i
  <2> TAKE i \in 1..Len(Append(q, n + 1))
  <2>1. Len(q) \in Nat
    BY <1>1
  <2>2. i \in 1..Len(q) \/ i = Len(q) + 1
    BY <1>1, <2>1
  <2>3. CASE i \in 1..Len(q)
    BY <1>1, <1>4, <2>3, Zenon
  <2>4. CASE i = Len(q) + 1
    <3>1. Append(q, n + 1)[i] = n + 1
      BY <1>1, <2>4, Zenon
    <3> QED BY <3>1, <1>3, <2>1, <2>4
  <2> QED BY <2>2, <2>3, <2>4
<1>6. Append(q, n + 1) \in Seq(Nat) /\ Taken(q, n) \in 0..(n + 1)
  BY <1>1 DEF Waits
<1>7. Waits(Append(q, n + 1), n + 1)
  BY <1>3, <1>5, <1>6, Zenon DEF Waits
<1> QED BY <1>2, <1>3, <1>7

\* The end marker behind the queue of a settled command.
LEMMA EndQueued ==
  ASSUME NEW q, NEW n \in Nat, Waits(q, n), ~Marked(q)
  PROVE  Waits(Append(q, 0), n) /\ Marked(Append(q, 0)) /\ Taken(Append(q, 0), n) = Taken(q, n)
<1>1. q \in Seq(Nat) /\ Len(Append(q, 0)) = Len(q) + 1 /\ Append(q, 0)[Len(q) + 1] = 0
      /\ \A i \in 1..Len(q) : Append(q, 0)[i] = q[i]
  BY DEF Waits
<1>2. Marked(Append(q, 0))
  BY <1>1 DEF Marked
<1>3. Taken(q, n) = n - Len(q) /\ Taken(Append(q, 0), n) = Taken(q, n)
  BY <1>1, <1>2 DEF Taken
<1>4. \A i \in 1..Len(q) : q[i] = Taken(q, n) + i
  <2> SUFFICES ASSUME NEW i \in 1..Len(q) PROVE q[i] = Taken(q, n) + i
    OBVIOUS
  <2>1. ~(q[i] = 0 /\ i = Len(q))
    BY <1>1 DEF Marked
  <2> QED BY <2>1 DEF Waits
<1>5. \A i \in 1..Len(Append(q, 0)) :
        (Append(q, 0)[i] = 0 /\ i = Len(Append(q, 0))) \/ Append(q, 0)[i] = Taken(q, n) + i
  <2> TAKE i \in 1..Len(Append(q, 0))
  <2>1. Len(q) \in Nat
    BY <1>1
  <2>2. i \in 1..Len(q) \/ i = Len(q) + 1
    BY <1>1, <2>1
  <2>3. CASE i \in 1..Len(q)
    BY <1>1, <1>4, <2>3, Zenon
  <2>4. CASE i = Len(q) + 1
    BY <1>1, <2>4, Zenon
  <2> QED BY <2>2, <2>3, <2>4
<1>6. Append(q, 0) \in Seq(Nat) /\ Taken(q, n) \in 0..n
  BY <1>1 DEF Waits
<1> QED BY <1>2, <1>3, <1>5, <1>6 DEF Waits

\* When the end marker is taken everything accepted was taken before.
LEMMA EndTaken ==
  ASSUME NEW q, NEW n \in Nat, Waits(q, n), q # <<>>, Head(q) = 0
  PROVE  Tail(q) = <<>> /\ Taken(q, n) = n
<1>1. q \in Seq(Nat) /\ Len(q) \in Nat /\ Len(q) >= 1 /\ q[1] = 0 /\ Taken(q, n) \in Nat
  BY DEF Waits
<1>2. Len(q) = 1
  <2>1. q[1] # Taken(q, n) + 1
    BY <1>1
  <2>2. (q[1] = 0 /\ 1 = Len(q)) \/ q[1] = Taken(q, n) + 1
    <3>1. 1 \in 1..Len(q)
      BY <1>1
    <3> QED BY <3>1, Zenon DEF Waits
  <2> QED BY <2>1, <2>2
<1>3. Marked(q)
  BY <1>1, <1>2 DEF Marked
<1>4. Taken(q, n) = n
  BY <1>2, <1>3 DEF Taken
<1>5. Len(Tail(q)) = 0 /\ Tail(q) \in Seq(Nat)
  BY <1>1, <1>2, SMTT(30)
<1> QED BY <1>4, <1>5, EmptySeq

\* A chunk is taken in its turn.
LEMMA ChunkTaken ==
  ASSUME NEW q, NEW n \in Nat, Waits(q, n), q # <<>>, Head(q) # 0
  PROVE  /\ Head(q) = Taken(q, n) + 1 /\ Waits(Tail(q), n) /\ (Marked(Tail(q)) <=> Marked(q))
         /\ Taken(Tail(q), n) = Taken(q, n) + 1
<1>1. q \in Seq(Nat) /\ Len(q) \in Nat /\ Len(q) >= 1 /\ q[1] # 0 /\ Head(q) = q[1] /\ Taken(q, n) \in 0..n
  BY DEF Waits
<1>0. Len(q) \in Nat /\ Len(q) >= 1 /\ Taken(q, n) \in Nat
  BY <1>1
<1>2. Head(q) = Taken(q, n) + 1
  BY <1>1 DEF Waits
<1>3. Tail(q) \in Seq(Nat) /\ Len(Tail(q)) = Len(q) - 1 /\ \A i \in 1..(Len(q) - 1) : Tail(q)[i] = q[i + 1]
  BY <1>1
<1>4. Marked(Tail(q)) <=> Marked(q)
  <2>1. CASE Len(q) = 1
    <3>2. Len(Tail(q)) = 0
      BY <1>3, <2>1
    <3>1. Tail(q) = <<>>
      BY <1>3, <3>2, EmptySeq
    <3> QED BY <1>1, <2>1, <3>1 DEF Marked
  <2>2. CASE Len(q) > 1
    <3>1. Tail(q) # <<>> /\ Tail(q)[Len(Tail(q))] = q[Len(q)]
      BY <1>1, <1>3, <2>2, SMTT(30)
    <3> QED BY <1>1, <3>1 DEF Marked
  <2>3. Len(q) = 1 \/ Len(q) > 1
    BY <1>0, SMTT(30)
  <2> QED BY <2>1, <2>2, <2>3
<1>5. Taken(Tail(q), n) = Taken(q, n) + 1
  BY <1>1, <1>3, <1>4 DEF Taken
<1>6. ASSUME NEW i \in 1..Len(Tail(q))
      PROVE  (Tail(q)[i] = 0 /\ i = Len(Tail(q))) \/ Tail(q)[i] = Taken(Tail(q), n) + i
  <2>1. i + 1 \in 1..Len(q) /\ Tail(q)[i] = q[i + 1]
    BY <1>1, <1>3
  <2>2. (q[i + 1] = 0 /\ i + 1 = Len(q)) \/ q[i + 1] = Taken(q, n) + (i + 1)
    BY <2>1 DEF Waits
  <2>3. CASE q[i + 1] = 0 /\ i + 1 = Len(q)
    <3>1. i \in Nat /\ i = Len(Tail(q))
      <4>1. Len(Tail(q)) = Len(q) - 1 /\ i + 1 = Len(q)
        BY <1>3, <2>3, Zenon
      <4>2. i \in Nat
        BY <1>3
      <4>3. \A x, l \in Nat : x + 1 = l => x = l - 1
        OBVIOUS
      <4> QED BY <1>0, <4>1, <4>2, <4>3, Zenon
    <3>2. Tail(q)[i] = 0
      BY <2>1, <2>3, Zenon
    <3> QED BY <3>1, <3>2
  <2>4. CASE q[i + 1] = Taken(q, n) + (i + 1)
    <3>1. i \in Nat /\ Taken(q, n) \in Nat
      BY <1>1, <1>3
    <3> QED BY <1>5, <2>1, <2>4, <3>1
  <2> QED BY <2>2, <2>3, <2>4
<1>7. Taken(Tail(q), n) \in 0..n
  <2>1. CASE Marked(q)
    <3>1. Len(q) # 1
      BY <1>1, <2>1 DEF Marked
    <3>2. Taken(q, n) = n - Len(q) + 1
      BY <2>1 DEF Taken
    <3>3. \A t, l \in Nat : t = n - l + 1 /\ l >= 1 /\ l # 1 => t + 1 \in 0..n
      OBVIOUS
    <3> QED BY <1>0, <1>5, <3>1, <3>2, <3>3
  <2>2. CASE ~Marked(q)
    BY <1>1, <1>5, <2>2 DEF Taken
  <2> QED BY <2>1, <2>2
<1> QED BY <1>2, <1>3, <1>4, <1>5, <1>6, <1>7 DEF Waits

\* The whole of the accepted output, from its beginning.
LEMMA NumberedWhole ==
  ASSUME NEW s, NEW n \in Nat, Numbered(s, 0), Len(s) = n
  PROVE  s = [i \in 1..n |-> i]
<1>1. s = [i \in 1..n |-> s[i]]
  BY DEF Numbered
<1> QED BY <1>1 DEF Numbered

\* A step away from queue and file leaves what they hold.
LEMMA FileRests ==
  ASSUME FileHolds, UNCHANGED <<queue, accepted, content, writing, backlog, fileError>>, toolClosed => toolClosed'
  PROVE  FileHolds'
BY DEF FileHolds, Waits, Marked, Taken, Numbered

\* A call before its first step, or no call, has the invariant.
LEMMA ToolBegins ==
  ASSUME NEW where \in {"start", "off"}, Tool!InitAt(where)
  PROVE  ToolSafe
<1> USE CommandsAssumption DEF Tool!InitAt
<1>1. CallParts
  <2>1. lateAbort \in BOOLEAN /\ toolTimedOut \in BOOLEAN /\ verdict.aborted \in BOOLEAN
    BY Zenon
  <2> QED BY <2>1 DEF CallParts
<1>2. TaskParts
  <2>1. toolClosed \in BOOLEAN
    BY Zenon
  <2> QED BY <2>1 DEF TaskParts
<1>3. FileParts
  BY Zenon DEF FileParts
<1>4. CountParts
  BY DEF CountParts
<1>5. CallHolds /\ CallReports
  BY DEF CallHolds, CallReports
<1>6. FileHolds
  <2>3. ~Marked(<<>>) /\ Len(<<>>) = 0
    BY DEF Marked
  <2>1. ~Marked(<<>>) /\ Taken(<<>>, 0) = 0
    BY <2>3 DEF Taken
  <2>2. Waits(<<>>, 0) /\ Numbered(<<>>, 0)
    BY <2>1 DEF Waits, Numbered
  <2> QED BY <2>1, <2>2 DEF FileHolds, Numbered
<1>7. FileStands
  BY DEF FileStands, ReportsFile
<1> QED BY <1>1, <1>2, <1>3, <1>4, <1>5, <1>6, <1>7 DEF ToolSafe

\* What the call does not touch cannot disturb it.
LEMMA ToolRests ==
  ASSUME ToolSafe, UNCHANGED toolVars
  PROVE  ToolSafe'
<1> USE DEF ToolSafe, toolVars
<1>1. CallParts' /\ TaskParts' /\ FileParts'
  BY DEF CallParts, TaskParts, FileParts
<1>2. CountParts' /\ CallHolds' /\ CallReports'
  BY DEF CountParts, CallHolds, CallReports
<1>3. FileHolds'
  BY FileRests
<1>4. FileStands'
  BY DEF FileStands, ReportsFile, Tool!NeedsFile
<1> QED BY <1>1, <1>2, <1>3, <1>4

\* Every step of run_command(), of its pumps, its writer, its timer, of the
\* command and of an abort keeps the invariant.
LEMMA ToolSteps ==
  ASSUME ToolSafe, Tool!Next
  PROVE  ToolSafe'
<1> USE CommandsAssumption DEF ToolSafe, Tool!osVars, Tool!intakeVars, Tool!fileVars, Tool!timerVars
<1>1. CASE Tool!Start
  <2> USE <1>1 DEF Tool!Start
  <2>1. CallParts' /\ TaskParts' /\ FileParts' /\ CountParts'
    BY DEF CallParts, TaskParts, FileParts, CountParts
  <2>2. CallHolds' /\ CallReports'
    BY DEF CallParts, TaskParts, CallHolds, CallReports, FileHolds
  <2>3. FileHolds'
    BY FileRests
  <2>4. FileStands'
    BY DEF CallParts, CountParts, CallHolds, CallReports, FileStands, ReportsFile, Tool!NeedsFile
  <2> QED BY <2>1, <2>2, <2>3, <2>4
<1>2. CASE Tool!SpawnFails
  <2> USE <1>2 DEF Tool!SpawnFails
  <2>1. CallParts' /\ TaskParts' /\ FileParts' /\ CountParts'
    BY DEF CallParts, TaskParts, FileParts, CountParts
  <2>2. CallHolds' /\ CallReports'
    BY DEF CallParts, TaskParts, CallHolds, CallReports, FileHolds
  <2>3. FileHolds'
    BY FileRests
  <2>4. FileStands'
    BY DEF CallParts, CountParts, CallHolds, CallReports, FileStands, ReportsFile, Tool!NeedsFile
  <2> QED BY <2>1, <2>2, <2>3, <2>4
<1>3. CASE Tool!Spawn
  <2> USE <1>3 DEF Tool!Spawn
  <2>1. CallParts' /\ TaskParts' /\ FileParts' /\ CountParts'
    BY DEF CallParts, TaskParts, FileParts, CountParts
  <2>2. CallHolds' /\ CallReports'
    BY DEF CallParts, TaskParts, CallHolds, CallReports, FileHolds
  <2>3. FileHolds'
    BY FileRests
  <2>4. FileStands'
    BY DEF CallParts, CountParts, CallHolds, CallReports, FileStands, ReportsFile, Tool!NeedsFile
  <2> QED BY <2>1, <2>2, <2>3, <2>4
<1>4. CASE Tool!ExitSeen
  <2> USE <1>4 DEF Tool!ExitSeen
  <2>1. CallParts' /\ TaskParts' /\ FileParts' /\ CountParts'
    BY DEF CallParts, TaskParts, FileParts, CountParts
  <2>2. CallHolds' /\ CallReports'
    BY DEF CallParts, TaskParts, CallHolds, CallReports, FileHolds
  <2>3. FileHolds'
    BY FileRests
  <2>4. FileStands'
    BY DEF CallParts, CountParts, CallHolds, CallReports, FileStands, ReportsFile, Tool!NeedsFile
  <2> QED BY <2>1, <2>2, <2>3, <2>4
<1>5. CASE Tool!Settle
  <2> USE <1>5 DEF Tool!Settle, Tool!EndOfFile
  <2>1. CallParts'
    BY DEF CallParts
  <2>2. TaskParts'
    BY DEF TaskParts
  <2>3. FileParts'
    BY DEF FileParts
  <2>4. CountParts'
    BY DEF CountParts
  <2>5. CallHolds'
    BY DEF CallParts, TaskParts, CallHolds, FileHolds
  <2>6. CallReports'
    BY DEF CallParts, CallReports
  <2>7. FileHolds'
    <3>1. ~Marked(queue)
      BY DEF FileHolds, CallHolds
    <3>2. UNCHANGED <<accepted, content, writing, backlog, fileError>> /\ queue' = Append(queue, 0) /\ toolClosed'
      OBVIOUS
    <3> HIDE <1>5
    <3> QED BY <3>1, <3>2, EndQueued DEF FileHolds, CountParts
  <2>8. FileStands'
    BY DEF CallParts, CountParts, CallHolds, CallReports, FileStands, ReportsFile, Tool!NeedsFile
  <2> QED BY <2>1, <2>2, <2>3, <2>4, <2>5, <2>6, <2>7, <2>8
<1>6. CASE Tool!Decide
  <2> USE <1>6 DEF Tool!Decide
  <2>1. CallParts' /\ TaskParts' /\ FileParts' /\ CountParts'
    BY DEF CallParts, TaskParts, FileParts, CountParts
  <2>2. CallHolds' /\ CallReports'
    BY DEF CallParts, TaskParts, CallHolds, CallReports, FileHolds
  <2>3. FileHolds'
    BY FileRests
  <2>4. FileStands'
    BY DEF CallParts, CountParts, CallHolds, CallReports, FileStands, ReportsFile, Tool!NeedsFile
  <2> QED BY <2>1, <2>2, <2>3, <2>4
<1>7. CASE Tool!Joined
  <2> USE <1>7 DEF Tool!Joined
  <2>1. CallParts' /\ TaskParts' /\ FileParts' /\ CountParts'
    <3>1. FileParts'
      BY DEF FileParts
    <3> QED BY <3>1 DEF CallParts, TaskParts, CountParts
  <2>2. CallHolds' /\ CallReports'
    BY DEF CallParts, TaskParts, CallHolds, CallReports, FileHolds
  <2>3. FileHolds'
    BY FileRests
  <2>4. FileStands'
    BY DEF CallParts, CountParts, CallHolds, CallReports, FileStands, ReportsFile, Tool!NeedsFile
  <2> QED BY <2>1, <2>2, <2>3, <2>4
<1>8. CASE Tool!Flush
  <2> USE <1>8 DEF Tool!Flush
  <2>1. CallParts'
    BY DEF CallParts
  <2>2. TaskParts'
    BY DEF TaskParts
  <2>3. FileParts'
    BY DEF FileParts
  <2>4. CountParts'
    BY DEF CountParts
  <2>5. CallHolds'
    BY DEF CallParts, TaskParts, CallHolds, FileHolds
  <2>6. CallReports'
    BY DEF CallParts, CallReports
  <2>7. FileHolds'
    <3>1. UNCHANGED <<queue, accepted, toolClosed, writing>>
      OBVIOUS
    <3>2. CASE UNCHANGED Tool!fileVars
      BY <3>1, <3>2, FileRests
    <3>3. CASE ~fileError /\ ~file /\ content' = backlog /\ backlog' = <<>> /\ UNCHANGED fileError
      <4>1. content = <<>> /\ writing = <<>>
        BY <3>3 DEF FileStands
      <4>2. Numbered(backlog, 0) /\ Numbered(<<>>, Len(backlog)) /\ Len(backlog) <= accepted
        BY <3>3, <4>1 DEF FileHolds, Numbered, Waits, CountParts
      <4> HIDE <1>8
      <4> QED BY <3>1, <3>3, <4>1, <4>2 DEF FileHolds, Numbered
    <3>4. CASE fileError' /\ backlog' \in {<<>>, backlog} /\ UNCHANGED content
      <4>1. backlog' \in Seq(Nat)
        BY <3>4, EmptySeq DEF FileHolds
      <4> HIDE <1>8
      <4> QED BY <3>1, <3>4, <4>1 DEF FileHolds
    <3> QED BY <3>2, <3>3, <3>4
  <2>8. FileStands'
    <3> USE DEF CallHolds, FileStands
    <3>0. /\ at = "flushing" /\ at' = "flushed" /\ UNCHANGED <<writer, writing, accepted, decoderTail, outcome, pumps>>
          /\ writer = "ended" /\ writing = <<>> /\ queue = <<>>
      OBVIOUS
    <3>1. Tool!NeedsFile' <=> Tool!NeedsFile
      BY <3>0 DEF Tool!NeedsFile
    <3>2. Taken(queue, accepted) = accepted
      BY <3>0, EmptySeq DEF Taken, Marked, CountParts
    <3>3. CASE UNCHANGED Tool!fileVars /\ (fileError \/ file \/ ~Tool!NeedsFile)
      <4>1. CASE ~fileError /\ file
        <5>1. Len(content) = accepted
          BY <3>0, <3>2, <4>1 DEF FileHolds
        <5> HIDE <1>8
        <5> QED BY <3>0, <3>1, <3>3, <4>1, <5>1 DEF ReportsFile
      <4>2. CASE fileError \/ ~file
        <5> HIDE <1>8
        <5> QED BY <3>0, <3>1, <3>3, <4>2 DEF ReportsFile
      <4> QED BY <4>1, <4>2
    <3>4. CASE /\ ~fileError /\ ~file /\ Tool!NeedsFile
               /\ file' /\ content' = backlog /\ backlog' = <<>> /\ UNCHANGED fileError
      <4>1. Len(backlog) = accepted
        BY <3>0, <3>2, <3>4 DEF FileHolds
      <4> HIDE <1>8
      <4> QED BY <3>0, <3>1, <3>4, <4>1 DEF ReportsFile
    <3>5. CASE fileError' /\ UNCHANGED content /\ ~file /\ Tool!NeedsFile
      <4> HIDE <1>8
      <4> QED BY <3>0, <3>1, <3>5 DEF ReportsFile
    <3> QED BY <3>3, <3>4, <3>5
  <2> QED BY <2>1, <2>2, <2>3, <2>4, <2>5, <2>6, <2>7, <2>8
<1>9. CASE Tool!Return
  <2> USE <1>9 DEF Tool!Return
  <2>1. CallParts' /\ TaskParts' /\ FileParts' /\ CountParts'
    BY DEF CallParts, TaskParts, FileParts, CountParts
  <2>2. CallHolds' /\ CallReports'
    BY DEF CallParts, TaskParts, CallHolds, CallReports, FileHolds
  <2>3. FileHolds'
    BY FileRests
  <2>4. FileStands'
    BY DEF CallParts, CountParts, CallHolds, CallReports, FileStands, ReportsFile, Tool!NeedsFile
  <2> QED BY <2>1, <2>2, <2>3, <2>4
<1>10. CASE Tool!Accept
  <2> USE <1>10 DEF Tool!Accept
  <2>1. CallParts'
    BY DEF CallParts
  <2>2. TaskParts'
    BY DEF TaskParts
  <2>3. FileParts'
    BY DEF FileParts
  <2>4. CountParts'
    BY DEF CountParts
  <2>5. CallHolds'
    BY DEF CallParts, TaskParts, CallHolds, FileHolds
  <2>6. CallReports'
    BY DEF CallParts, CallReports
  <2>7. FileHolds'
    <3>1. ~Marked(queue)
      BY DEF FileHolds, CallHolds
    <3>2. /\ UNCHANGED <<content, writing, backlog, fileError>> /\ queue' = Append(queue, accepted + 1)
          /\ accepted' = accepted + 1
      OBVIOUS
    <3>3. /\ Waits(queue', accepted') /\ ~Marked(queue')
          /\ Taken(queue', accepted') = Taken(queue, accepted)
      BY <3>1, <3>2, ChunkQueued DEF FileHolds, CountParts
    <3> HIDE <1>10
    <3> QED BY <3>2, <3>3 DEF FileHolds, CountParts
  <2>8. FileStands'
    <3>1. Tool!NeedsFile => Tool!NeedsFile'
      BY DEF Tool!NeedsFile, CountParts
    <3>2. /\ pumps = "reading"
          /\ UNCHANGED <<at, outcome, pumps, writer, writing, file, fileError, content, backlog, decoderTail>>
      OBVIOUS
    <3>3. at \notin {"settled", "finishing", "flushing", "flushed", "done"} \/ (at = "done" /\ toolProc = "none")
      BY DEF CallParts, CallHolds
    <3>4. at # "flushed" /\ ~ReportsFile
      BY <3>2, <3>3 DEF ReportsFile, CallHolds
    <3> HIDE <1>10
    <3> QED BY <3>1, <3>2, <3>4 DEF FileStands, ReportsFile
  <2> QED BY <2>1, <2>2, <2>3, <2>4, <2>5, <2>6, <2>7, <2>8
<1>11. CASE Tool!PumpsEnd
  <2> USE <1>11 DEF Tool!PumpsEnd, Tool!EndOfFile
  <2>1. CallParts' /\ TaskParts' /\ FileParts' /\ CountParts'
    BY DEF CallParts, TaskParts, FileParts, CountParts
  <2>2. CallHolds' /\ CallReports'
    BY DEF CallParts, TaskParts, CallHolds, CallReports, FileHolds
  <2>3. FileHolds'
    BY FileRests
  <2>4. FileStands'
    BY DEF CallParts, CountParts, CallHolds, CallReports, FileStands, ReportsFile, Tool!NeedsFile
  <2> QED BY <2>1, <2>2, <2>3, <2>4
<1>12. CASE Tool!Take
  <2> USE <1>12 DEF Tool!Take
  <2>1. CallParts'
    BY DEF CallParts
  <2>2. TaskParts'
    BY DEF TaskParts
  <2>3. FileParts'
    BY DEF FileParts
  <2>4. CountParts'
    BY DEF CountParts
  <2>5. CallHolds'
    <3>1. CASE Head(queue) = 0
      <4>1. queue' = <<>> /\ Marked(queue)
        <5>1. Tail(queue) = <<>>
          BY <3>1, EndTaken DEF FileHolds, CountParts
        <5>2. Taken(queue, accepted) = accepted /\ queue \in Seq(Nat) /\ queue # <<>>
          BY <3>1, EndTaken DEF FileHolds, CountParts, Waits
        <5>3. Marked(queue)
          BY <5>2, EmptySeq DEF Taken, CountParts
        <5> QED BY <5>1, <5>3
      <4> QED BY <3>1, <4>1 DEF CallParts, TaskParts, CallHolds, FileHolds
    <3>2. CASE Head(queue) # 0
      BY <3>2 DEF CallParts, TaskParts, CallHolds
    <3> QED BY <3>1, <3>2
  <2>6. CallReports'
    BY DEF CallParts, CallReports
  <2>7. FileHolds'
    <3> USE DEF FileHolds
    <3>1. queue # <<>> /\ queue' = Tail(queue) /\ UNCHANGED <<accepted, content, fileError, toolClosed, file>>
      OBVIOUS
    <3>2. CASE Head(queue) = 0
      <4>1. Tail(queue) = <<>> /\ Taken(queue, accepted) = accepted
        BY <3>1, <3>2, EndTaken DEF CountParts
      <4>2. ~Marked(<<>>) /\ Taken(<<>>, accepted) = accepted
        BY DEF Marked, Taken, CountParts
      <4>3. Waits(<<>>, accepted)
        BY <4>2, SMTT(30) DEF Waits, CountParts
      <4>4. UNCHANGED <<backlog, writing>>
        BY <3>2
      <4> HIDE <1>12
      <4> QED BY <3>1, <4>1, <4>2, <4>3, <4>4
    <3>3. CASE Head(queue) # 0
      <4>1. /\ Head(queue) = Taken(queue, accepted) + 1 /\ Waits(Tail(queue), accepted)
            /\ (Marked(Tail(queue)) <=> Marked(queue))
            /\ Taken(Tail(queue), accepted) = Taken(queue, accepted) + 1
        BY <3>1, <3>3, ChunkTaken DEF CountParts
      <4>2. CASE fileError
        <5>1. UNCHANGED <<backlog, writing>>
          BY <3>3, <4>2
        <5> HIDE <1>12
        <5> QED BY <3>1, <4>1, <4>2, <5>1
      <4>3. CASE ~fileError /\ ~file
        <5>1. backlog' = Append(backlog, Head(queue)) /\ UNCHANGED writing /\ writing = <<>>
          BY <3>3, <4>3 DEF FileStands
        <5>2. Head(queue) = (Len(content) + Len(writing)) + Len(backlog) + 1
          BY <4>1, <4>3
        <5>4. Len(content) + Len(writing) \in Nat /\ Numbered(backlog, Len(content) + Len(writing))
          BY <4>3 DEF Numbered
        <5>3. Numbered(Append(backlog, Head(queue)), Len(content) + Len(writing))
              /\ Len(Append(backlog, Head(queue))) = Len(backlog) + 1
          <6> HIDE <1>12 DEF FileHolds, ToolSafe
          <6> QED BY <5>2, <5>4, NumberedAppended
        <5> HIDE <1>12
        <5> QED BY <3>1, <4>1, <4>3, <5>1, <5>3 DEF Numbered
      <4>4. CASE ~fileError /\ file
        <5>1. writing' = <<Head(queue)>> /\ UNCHANGED backlog /\ writing = <<>> /\ backlog = <<>>
          BY <3>3, <4>4 DEF FileStands
        <5>2. Head(queue) = Len(content) + 1
          BY <4>1, <4>4, <5>1
        <5>3. Numbered(<<Head(queue)>>, Len(content)) /\ Numbered(<<>>, Len(content) + 1)
          BY <5>2 DEF Numbered
        <5> HIDE <1>12
        <5> QED BY <3>1, <4>1, <4>4, <5>1, <5>3 DEF Numbered
      <4> QED BY <4>2, <4>3, <4>4
    <3> QED BY <3>2, <3>3
  <2>8. FileStands'
    BY DEF CallParts, CountParts, CallHolds, CallReports, FileStands, ReportsFile, Tool!NeedsFile
  <2> QED BY <2>1, <2>2, <2>3, <2>4, <2>5, <2>6, <2>7, <2>8
<1>13. CASE Tool!Create
  <2> USE <1>13 DEF Tool!Create
  <2>1. CallParts'
    BY DEF CallParts
  <2>2. TaskParts'
    BY DEF TaskParts
  <2>3. FileParts'
    BY DEF FileParts
  <2>4. CountParts'
    BY DEF CountParts
  <2>5. CallHolds'
    BY DEF CallParts, TaskParts, CallHolds, FileHolds
  <2>6. CallReports'
    BY DEF CallParts, CallReports
  <2>7. FileHolds'
    <3> USE DEF FileHolds
    <3>1. /\ UNCHANGED <<queue, accepted, content, fileError, toolClosed>> /\ ~fileError
          /\ writing' = backlog /\ backlog' = <<>> /\ writing = <<>>
      BY DEF FileStands
    <3>2. Numbered(backlog, Len(content)) /\ Numbered(<<>>, Len(content) + Len(backlog))
      BY <3>1 DEF Numbered
    <3> HIDE <1>13
    <3> QED BY <3>1, <3>2 DEF Numbered
  <2>8. FileStands'
    BY DEF CallParts, CountParts, CallHolds, CallReports, FileStands, ReportsFile, Tool!NeedsFile
  <2> QED BY <2>1, <2>2, <2>3, <2>4, <2>5, <2>6, <2>7, <2>8
<1>14. CASE Tool!Appended
  <2> USE <1>14 DEF Tool!Appended
  <2>1. CallParts'
    BY DEF CallParts
  <2>2. TaskParts'
    BY DEF TaskParts
  <2>3. FileParts'
    BY DEF FileParts
  <2>4. CountParts'
    BY DEF CountParts
  <2>5. CallHolds'
    BY DEF CallParts, TaskParts, CallHolds, FileHolds
  <2>6. CallReports'
    BY DEF CallParts, CallReports
  <2>7. FileHolds'
    <3> USE DEF FileHolds
    <3>1. /\ UNCHANGED <<queue, accepted, backlog, fileError, toolClosed>> /\ ~fileError
          /\ content' = content \o writing /\ writing' = <<>>
      BY DEF FileStands
    <3>2. Numbered(content \o writing, 0) /\ Len(content \o writing) = Len(content) + Len(writing)
      BY <3>1, NumberedJoined
    <3>3. Numbered(<<>>, Len(content) + Len(writing)) /\ Len(content) + Len(writing) <= accepted
      BY <3>1 DEF Numbered, Waits, CountParts
    <3> HIDE <1>14
    <3> QED BY <3>1, <3>2, <3>3 DEF Numbered
  <2>8. FileStands'
    <3>1. writer = "append" /\ writer' = "idle" /\ writing' = <<>> /\ content' = content \o writing
          /\ UNCHANGED <<at, outcome, pumps, file, fileError, accepted, backlog, decoderTail>>
      OBVIOUS
    <3>2. Tool!NeedsFile' <=> Tool!NeedsFile
      BY <3>1 DEF Tool!NeedsFile
    <3>3. at # "flushed" /\ ~ReportsFile
      BY <3>1 DEF CallHolds, ReportsFile
    <3>4. ~file => content \o writing = <<>>
      BY DEF FileStands
    <3> HIDE <1>14
    <3> QED BY <3>1, <3>2, <3>3, <3>4 DEF FileStands, ReportsFile
  <2> QED BY <2>1, <2>2, <2>3, <2>4, <2>5, <2>6, <2>7, <2>8
<1>15. CASE Tool!WriteFails
  <2> USE <1>15 DEF Tool!WriteFails, Tool!Kill
  <2>1. CallParts'
    BY DEF CallParts
  <2>2. TaskParts'
    BY DEF TaskParts
  <2>3. FileParts'
    BY DEF FileParts
  <2>4. CountParts'
    BY DEF CountParts
  <2>5. CallHolds'
    BY DEF CallParts, TaskParts, CallHolds, FileHolds
  <2>6. CallReports'
    BY DEF CallParts, CallReports
  <2>7. FileHolds'
    <3>1. UNCHANGED <<queue, accepted, content, backlog, toolClosed>> /\ fileError' /\ writing' = <<>>
      OBVIOUS
    <3> HIDE <1>15
    <3> QED BY <3>1 DEF FileHolds
  <2>8. FileStands'
    <3>1. writer \in {"create", "append"} /\ writer' = "idle" /\ writing' = <<>> /\ fileError'
          /\ UNCHANGED <<at, outcome, pumps, file, content, accepted, backlog, decoderTail>>
      OBVIOUS
    <3>2. Tool!NeedsFile' <=> Tool!NeedsFile
      BY <3>1 DEF Tool!NeedsFile
    <3>3. at # "flushed" /\ ~ReportsFile
      BY <3>1 DEF CallHolds, ReportsFile
    <3> HIDE <1>15
    <3> QED BY <3>1, <3>2, <3>3 DEF FileStands, ReportsFile
  <2> QED BY <2>1, <2>2, <2>3, <2>4, <2>5, <2>6, <2>7, <2>8
<1>16. CASE Tool!TimerFires
  <2> USE <1>16 DEF Tool!TimerFires
  <2>1. CallParts' /\ TaskParts' /\ FileParts' /\ CountParts'
    BY DEF CallParts, TaskParts, FileParts, CountParts
  <2>2. CallHolds' /\ CallReports'
    BY DEF CallParts, TaskParts, CallHolds, CallReports, FileHolds
  <2>3. FileHolds'
    BY FileRests
  <2>4. FileStands'
    BY DEF CallParts, CountParts, CallHolds, CallReports, FileStands, ReportsFile, Tool!NeedsFile
  <2> QED BY <2>1, <2>2, <2>3, <2>4
<1>17. CASE Tool!KillRuns
  <2> USE <1>17 DEF Tool!KillRuns, Tool!Kill
  <2>1. CallParts' /\ TaskParts' /\ FileParts' /\ CountParts'
    BY DEF CallParts, TaskParts, FileParts, CountParts
  <2>2. CallHolds' /\ CallReports'
    BY DEF CallParts, TaskParts, CallHolds, CallReports, FileHolds
  <2>3. FileHolds'
    BY FileRests
  <2>4. FileStands'
    BY DEF CallParts, CountParts, CallHolds, CallReports, FileStands, ReportsFile, Tool!NeedsFile
  <2> QED BY <2>1, <2>2, <2>3, <2>4
<1>18. CASE Tool!WatcherSees \/ Tool!WatcherKills
  <2> USE <1>18 DEF Tool!WatcherSees, Tool!WatcherKills, Tool!Kill
  <2>1. CallParts' /\ TaskParts' /\ FileParts' /\ CountParts'
    BY DEF CallParts, TaskParts, FileParts, CountParts
  <2>2. CallHolds' /\ CallReports'
    BY DEF CallParts, TaskParts, CallHolds, CallReports, FileHolds
  <2>3. FileHolds'
    BY FileRests
  <2>4. FileStands'
    BY DEF CallParts, CountParts, CallHolds, CallReports, FileStands, ReportsFile, Tool!NeedsFile
  <2> QED BY <2>1, <2>2, <2>3, <2>4
<1>19. CASE Tool!Cancel
  <2> USE <1>19 DEF Tool!Cancel
  <2>1. CallParts' /\ TaskParts' /\ FileParts' /\ CountParts'
    BY DEF CallParts, TaskParts, FileParts, CountParts
  <2>2. CallHolds' /\ CallReports'
    BY ZenonT(60) DEF CallParts, TaskParts, CallHolds, CallReports, FileHolds
  <2>3. FileHolds'
    BY FileRests
  <2>4. FileStands'
    BY DEF CallParts, CountParts, CallHolds, CallReports, FileStands, ReportsFile, Tool!NeedsFile
  <2> QED BY <2>1, <2>2, <2>3, <2>4
<1>20. CASE Tool!Write
  <2> USE <1>20 DEF Tool!Write
  <2>1. CallParts' /\ TaskParts' /\ FileParts' /\ CountParts'
    BY DEF CallParts, TaskParts, FileParts, CountParts
  <2>2. CallHolds' /\ CallReports'
    BY DEF CallParts, TaskParts, CallHolds, CallReports, FileHolds
  <2>3. FileHolds'
    BY FileRests
  <2>4. FileStands'
    BY DEF CallParts, CountParts, CallHolds, CallReports, FileStands, ReportsFile, Tool!NeedsFile
  <2> QED BY <2>1, <2>2, <2>3, <2>4
<1>21. CASE Tool!Fork
  <2> USE <1>21 DEF Tool!Fork
  <2>1. CallParts' /\ TaskParts' /\ FileParts' /\ CountParts'
    BY DEF CallParts, TaskParts, FileParts, CountParts
  <2>2. CallHolds' /\ CallReports'
    BY DEF CallParts, TaskParts, CallHolds, CallReports, FileHolds
  <2>3. FileHolds'
    BY FileRests
  <2>4. FileStands'
    BY DEF CallParts, CountParts, CallHolds, CallReports, FileStands, ReportsFile, Tool!NeedsFile
  <2> QED BY <2>1, <2>2, <2>3, <2>4
<1>22. CASE Tool!Exit
  <2> USE <1>22 DEF Tool!Exit
  <2>1. CallParts' /\ TaskParts' /\ FileParts' /\ CountParts'
    BY DEF CallParts, TaskParts, FileParts, CountParts
  <2>2. CallHolds' /\ CallReports'
    BY DEF CallParts, TaskParts, CallHolds, CallReports, FileHolds
  <2>3. FileHolds'
    BY FileRests
  <2>4. FileStands'
    BY DEF CallParts, CountParts, CallHolds, CallReports, FileStands, ReportsFile, Tool!NeedsFile
  <2> QED BY <2>1, <2>2, <2>3, <2>4
<1>23. CASE Tool!Abort
  <2> USE <1>23 DEF Tool!Abort
  <2>1. CallParts' /\ TaskParts' /\ FileParts' /\ CountParts'
    BY DEF CallParts, TaskParts, FileParts, CountParts
  <2>2. CallHolds' /\ CallReports'
    BY DEF CallParts, TaskParts, CallHolds, CallReports, FileHolds
  <2>3. FileHolds'
    BY FileRests
  <2>4. FileStands'
    BY DEF CallParts, CountParts, CallHolds, CallReports, FileStands, ReportsFile, Tool!NeedsFile
  <2> QED BY <2>1, <2>2, <2>3, <2>4
<1> QED
  BY <1>1, <1>2, <1>3, <1>4, <1>5, <1>6, <1>7, <1>8, <1>9, <1>10, <1>11, <1>12, <1>13, <1>14, <1>15, <1>16,
     <1>17, <1>18, <1>19, <1>20, <1>21, <1>22, <1>23 DEF Tool!Next, Tool!Loop

\* What the runs check of a bash call follows from the invariant.
LEMMA ToolShown ==
  ASSUME ToolSafe
  PROVE  /\ Tool!TypeOK /\ Tool!FileComplete
         /\ Tool!NothingLeftBehind /\ Tool!LateAbortIgnored
<1> USE DEF ToolSafe
<1>1. \A i \in DOMAIN queue : queue[i] \in 0..accepted
  <2>1. queue \in Seq(Nat) /\ accepted \in Nat /\ Taken(queue, accepted) \in 0..accepted
    BY DEF FileHolds, Waits, CountParts
  <2> SUFFICES ASSUME NEW i \in 1..Len(queue) PROVE queue[i] \in 0..accepted
    BY <2>1
  <2>2. CASE queue[i] = 0 /\ i = Len(queue)
    BY <2>1, <2>2
  <2>3. CASE ~(queue[i] = 0 /\ i = Len(queue))
    <3>1. queue[i] = Taken(queue, accepted) + i
      BY <2>3 DEF FileHolds, Waits
    <3>2. Marked(queue) => i # Len(queue)
      <4>1. queue[i] # 0
        BY <2>1, <3>1
      <4> QED BY <4>1 DEF Marked
    <3>3. Taken(queue, accepted) + i <= accepted
      <4>1. CASE Marked(queue)
        <5>1. Taken(queue, accepted) = accepted - Len(queue) + 1
          BY <4>1 DEF Taken
        <5>2. i < Len(queue)
          BY <2>1, <3>2, <4>1
        <5>3. Len(queue) \in Nat /\ i \in Nat
          BY <2>1
        <5> HIDE DEF ToolSafe
        <5> QED BY <2>1, <5>1, <5>2, <5>3
      <4>2. CASE ~Marked(queue)
        <5>1. Taken(queue, accepted) = accepted - Len(queue)
          BY <2>1, <4>2 DEF Taken
        <5>2. Len(queue) \in Nat /\ i \in Nat /\ i <= Len(queue)
          BY <2>1
        <5> HIDE DEF ToolSafe
        <5> QED BY <2>1, <5>1, <5>2
      <4> QED BY <4>1, <4>2
    <3> QED BY <2>1, <3>1, <3>3
  <2> QED BY <2>2, <2>3
<1>2. Tool!TypeOK
  <2>1. {toolSignal, lateAbort, toolClosed, file, fileError, decoderTail, toolTimedOut} \subseteq BOOLEAN
    BY Zenon DEF CallParts, TaskParts, FileParts
  <2> QED BY <1>1, <2>1 DEF Tool!TypeOK, CallParts, TaskParts, CountParts, CallHolds
<1>3. Tool!FileComplete
  <2>1. accepted \in Nat /\ Numbered(content, 0) /\ Len(content) <= accepted
    BY DEF FileHolds, CountParts
  <2>2. Tool!IsPrefix(content, Tool!All)
    <3>1. Tool!All \in Seq(Nat) /\ Len(Tool!All) = accepted
      BY <2>1 DEF Tool!All
    <3>2. content \in Seq(Nat) /\ Len(content) \in Nat
      BY <2>1 DEF Numbered
    <3>3. \A i \in 1..Len(content) : content[i] = i /\ Tool!All[i] = i
      BY <2>1, <3>2 DEF Numbered, Tool!All
    <3> QED BY <2>1, <3>1, <3>2, <3>3 DEF Tool!IsPrefix
  <2>3. Len(content) = accepted => content = Tool!All
    BY <2>1, NumberedWhole DEF Tool!All
  <2>4. ASSUME Tool!Done, outcome \in {"exit", "aborted", "timeout"}, pumps # "off"
        PROVE  IF Tool!NeedsFile THEN file /\ content = Tool!All ELSE ~file
    <3>1. ReportsFile
      BY <2>4 DEF ReportsFile, Tool!Done
    <3> QED BY <2>3, <3>1 DEF FileStands
  <2> QED BY <2>2, <2>4 DEF Tool!FileComplete
<1>4. Tool!NothingLeftBehind
  BY DEF Tool!NothingLeftBehind, Tool!Done, CallHolds
<1>5. Tool!LateAbortIgnored
  BY DEF Tool!LateAbortIgnored, CallReports
<1> QED BY <1>2, <1>3, <1>4, <1>5

-----------------------------------------------------------------------------
\* One call of a search tool

\* Every line the engine wrote waits in its pipe or was taken.
SearchCounts ==
    /\ wrote \in 0..MaxFound /\ matches \in 0..MaxMatches
    /\ unread \in Nat /\ lines \in Nat /\ unread + lines = wrote

WindowTyped == window \in [open : BOOLEAN, observed : BOOLEAN]

\* What each variable of a search holds: the call, and the run of its engine.
CallTypes ==
    /\ tool \in {"find", "grep"} /\ retry \in BOOLEAN
    /\ answer \in {"none", "aborted", "unavailable", "error", "results"}
    /\ work \in {"off", "start", "resolving", "probing", "spawning", "running", "releasing", "releasing again",
                 "rejected", "reverifying", "deciding", "ended"}
    /\ abort \in {"none", "live", "aborted"} /\ when \in {"never", "early", "inside", "late"}

EngineTypes ==
    /\ engine \in {"none", "running", "exited"} /\ code \in {"zero", "one", "other", "null"}
    /\ limited \in BOOLEAN /\ readers \in [Search!Pipes -> {"off", "reading", "ended"}]
    /\ stop \in {"off", "pending", "sent", "done"} /\ watch \in {"off", "polling", "killing", "done"}

\* An abort inside the window is either still to be seen there or was observed
\* when it closed, and it closes before anything is decided.
SearchAborts ==
    /\ abort = "aborted" <=> when # "never"
    /\ window.open => abort # "none"
    /\ when = "inside" <=> (window.open /\ abort = "aborted") \/ window.observed
    /\ work \in {"off", "start", "releasing", "deciding"} => ~window.open
    /\ work \in {"off", "start"} \/ (tool = "grep" /\ work \in {"resolving", "probing", "spawning"})
           => ~window.open
    /\ window.observed => work \in {"releasing", "deciding", "ended"}
    /\ answer = "none" \/ work = "ended" \/ (answer = "aborted" /\ when = "inside")
    /\ answer = "results" => ~window.open /\ ~window.observed
    /\ answer = "aborted" => when = "inside" \/ (when = "early" /\ work = "ended" /\ engine = "none")
    /\ work \in {"off", "start"} => answer = "none" /\ when \in {"never", "early"}
    /\ retry => tool = "find"
    /\ work \in {"releasing again", "rejected", "reverifying"} => tool = "find"

\* Pipes, watcher and stop request belong to a run that is not released.
SearchHolds ==
    /\ work \in {"off", "start", "resolving", "probing"} => engine = "none"
    /\ work \in {"running", "releasing", "releasing again", "deciding"} => engine # "none"
    /\ work \in {"releasing", "releasing again"} =>
           engine = "exited" /\ readers["stdout"] = "ended" /\ readers["stderr"] = "ended"
    /\ work \notin {"running", "releasing", "releasing again"} =>
           /\ engine # "running" /\ readers["stdout"] = "off" /\ readers["stderr"] = "off"
           /\ watch \in {"off", "done"} /\ stop \in {"off", "done"}
    /\ readers["stdout"] = "ended" => unread = 0 /\ engine = "exited"
    /\ work = "deciding" => unread = 0

\* An engine that was killed was killed for an abort inside the window or for
\* the limit.
SearchKills ==
    /\ stop # "off" => limited
    /\ limited => tool = "grep" /\ matches = MaxMatches
    /\ watch = "killing" => when = "inside"
    /\ engine = "exited" /\ code = "null" => when = "inside" \/ limited
    /\ answer = "results" => /\ unread = 0 /\ work = "ended" /\ engine = "exited"
                             /\ code = "null" => limited

\* The inductive invariant of a search.
SearchSafe == CallTypes /\ EngineTypes /\ SearchCounts /\ WindowTyped /\ SearchAborts /\ SearchHolds /\ SearchKills

\* What the search runs check follows from the invariant.
LEMMA SearchShown ==
  ASSUME SearchSafe
  PROVE  Search!TypeOK /\ Search!AbortCounted /\ Search!ResultsWhole /\ Search!SearchLeavesNothing
BY DEF SearchSafe, CallTypes, EngineTypes, SearchCounts, WindowTyped, SearchAborts, SearchHolds, SearchKills,
   Search!TypeOK, Search!AbortCounted,
       Search!ResultsWhole, Search!SearchLeavesNothing, Search!Pipes

\* A call before its first step, or no call, has the invariant.
LEMMA SearchBegins ==
  ASSUME NEW where \in {"start", "off"}, Search!InitAt(where)
  PROVE  SearchSafe
<1> USE CommandsAssumption DEF SearchSafe, SearchAborts, SearchHolds, SearchKills, Search!InitAt, Search!Pipes
<1>1. limited \in BOOLEAN /\ retry \in BOOLEAN /\ WindowTyped
  BY Zenon DEF WindowTyped
<1>2. CallTypes /\ EngineTypes /\ SearchCounts
  <2>1. CallTypes BY <1>1 DEF CallTypes
  <2>3. EngineTypes BY <1>1 DEF EngineTypes
  <2>2. SearchCounts BY DEF SearchCounts
  <2> QED BY <2>1, <2>2, <2>3
<1> QED BY <1>1, <1>2

\* What the search does not touch cannot disturb it.
LEMMA SearchRests ==
  ASSUME SearchSafe, UNCHANGED searchVars
  PROVE  SearchSafe'
<1>1. WindowTyped'
  BY Zenon DEF SearchSafe, WindowTyped, searchVars
<1>2. SearchCounts'
  BY DEF SearchSafe, SearchCounts, searchVars
<1>3. CallTypes'
  BY ZenonT(60) DEF SearchSafe, CallTypes, searchVars
<1>4. EngineTypes'
  BY DEF SearchSafe, EngineTypes, searchVars
<1>5. SearchAborts'
  BY DEF SearchSafe, SearchAborts, searchVars
<1>6. SearchHolds' /\ SearchKills'
  BY DEF SearchSafe, SearchHolds, SearchKills, searchVars
<1> QED
  BY <1>1, <1>2, <1>3, <1>4, <1>5, <1>6 DEF SearchSafe

\* Every step of a search, its engine, its readers and its watchers keeps the
\* account of the abort, of the lines and of what is held.
LEMMA SearchSteps ==
  ASSUME SearchSafe, Search!Next
  PROVE  SearchSafe'
<1> USE CommandsAssumption DEF SearchSafe, Search!Pipes, Search!engineVars, Search!Fired, Search!OpenWindow,
        Search!Finish
<1>1. CASE Search!Begin
  <2> USE <1>1 DEF Search!Begin
  <2>1. CallTypes'
    BY DEF CallTypes
  <2>7. EngineTypes'
    BY DEF EngineTypes
  <2>5. SearchCounts'
    BY DEF CallTypes, EngineTypes, SearchCounts, SearchHolds
  <2>6. WindowTyped'
    <3>1. [open |-> abort = "live", observed |-> FALSE] \in [open : BOOLEAN, observed : BOOLEAN]
      BY Zenon
    <3> QED BY <3>1, Zenon DEF WindowTyped
  <2>2. SearchAborts'
    <3> USE DEF CallTypes, SearchAborts, SearchHolds
    <3>1. CASE abort = "aborted"
      BY <3>1
    <3>2. CASE abort # "aborted" /\ tool = "find"
      <4>1. window' = [open |-> abort = "live", observed |-> FALSE] /\ work' = "resolving"
        BY <3>2
      <4>2. (window'.open <=> abort = "live") /\ ~window'.observed
        BY <4>1
      <4> HIDE DEF Search!OpenWindow
      <4> QED BY <3>2, <4>1, <4>2
    <3>3. CASE abort # "aborted" /\ tool = "grep"
      BY <3>3
    <3> QED BY <3>1, <3>2, <3>3
  <2>3. SearchHolds'
    BY DEF CallTypes, EngineTypes, SearchAborts, SearchHolds, SearchKills
  <2>4. SearchKills'
    BY DEF CallTypes, EngineTypes, SearchAborts, SearchHolds, SearchKills
  <2> QED BY <2>1, <2>2, <2>3, <2>4, <2>5, <2>6, <2>7
<1>2. CASE Search!Resolve
  <2> USE <1>2 DEF Search!Resolve
  <2>1. CallTypes'
    BY DEF CallTypes
  <2>2. EngineTypes'
    BY DEF EngineTypes
  <2>3. SearchCounts'
    BY DEF CallTypes, EngineTypes, SearchCounts, SearchHolds
  <2>4. WindowTyped'
    BY Zenon DEF WindowTyped
  <2>5. SearchAborts' /\ SearchHolds' /\ SearchKills'
    BY ZenonT(60) DEF CallTypes, EngineTypes, SearchAborts, SearchHolds, SearchKills
  <2> QED BY <2>1, <2>2, <2>3, <2>4, <2>5
<1>3. CASE Search!FindRepository
  <2> USE <1>3 DEF Search!FindRepository
  <2>1. CallTypes'
    BY DEF CallTypes
  <2>2. EngineTypes'
    BY DEF EngineTypes
  <2>3. SearchCounts'
    BY DEF CallTypes, EngineTypes, SearchCounts, SearchHolds
  <2>4. WindowTyped'
    BY Zenon DEF WindowTyped
  <2>5. SearchAborts' /\ SearchHolds' /\ SearchKills'
    BY DEF CallTypes, EngineTypes, SearchAborts, SearchHolds, SearchKills
  <2> QED BY <2>1, <2>2, <2>3, <2>4, <2>5
<1>4. CASE Search!ProbePath
  <2> USE <1>4 DEF Search!ProbePath
  <2>1. CallTypes'
    BY DEF CallTypes
  <2>2. EngineTypes'
    BY DEF EngineTypes
  <2>3. SearchCounts'
    BY DEF CallTypes, EngineTypes, SearchCounts, SearchHolds
  <2>4. WindowTyped'
    BY Zenon DEF WindowTyped
  <2>5. SearchAborts' /\ SearchHolds' /\ SearchKills'
    BY DEF CallTypes, EngineTypes, SearchAborts, SearchHolds, SearchKills
  <2> QED BY <2>1, <2>2, <2>3, <2>4, <2>5
<1>5. CASE Search!SpawnFails
  <2> USE <1>5 DEF Search!SpawnFails
  <2>1. CallTypes'
    BY DEF CallTypes
  <2>2. EngineTypes'
    BY DEF EngineTypes
  <2>3. SearchCounts'
    BY DEF CallTypes, EngineTypes, SearchCounts, SearchHolds
  <2>4. WindowTyped'
    BY Zenon DEF WindowTyped
  <2>5. SearchAborts' /\ SearchHolds' /\ SearchKills'
    BY DEF CallTypes, EngineTypes, SearchAborts, SearchHolds, SearchKills
  <2> QED BY <2>1, <2>2, <2>3, <2>4, <2>5
<1>6. CASE Search!Spawn
  <2> USE <1>6 DEF Search!Spawn
  <2>1. CallTypes'
    BY DEF CallTypes
  <2>7. EngineTypes'
    BY DEF EngineTypes
  <2>5. SearchCounts'
    BY DEF CallTypes, EngineTypes, SearchCounts, SearchHolds
  <2>6. WindowTyped'
    <3>1. [open |-> abort = "live", observed |-> FALSE] \in [open : BOOLEAN, observed : BOOLEAN]
      BY Zenon
    <3> QED BY <3>1, Zenon DEF WindowTyped
  <2>2. SearchAborts'
    BY DEF CallTypes, EngineTypes, SearchAborts, SearchHolds, SearchKills
  <2>3. SearchHolds'
    BY DEF CallTypes, EngineTypes, SearchAborts, SearchHolds, SearchKills
  <2>4. SearchKills'
    BY DEF CallTypes, EngineTypes, SearchAborts, SearchHolds, SearchKills
  <2> QED BY <2>1, <2>2, <2>3, <2>4, <2>5, <2>6, <2>7
<1>7. CASE Search!Complete
  <2> USE <1>7 DEF Search!Complete
  <2>1. CallTypes'
    BY DEF CallTypes
  <2>7. EngineTypes'
    BY DEF EngineTypes
  <2>5. SearchCounts'
    BY DEF CallTypes, EngineTypes, SearchCounts, SearchHolds
  <2>6. WindowTyped'
    <3>1. (window.observed \/ Search!Fired) \in BOOLEAN
      BY Zenon
    <3>2. [open |-> FALSE, observed |-> window.observed \/ Search!Fired] \in [open : BOOLEAN, observed : BOOLEAN]
      BY <3>1, Zenon
    <3> QED BY <3>2, Zenon DEF WindowTyped
  <2>2. SearchAborts'
    <3> USE DEF CallTypes, EngineTypes, SearchAborts, SearchHolds
    <3>1. CASE retry /\ code # "zero" /\ lines = 0
      BY <3>1
    <3>2. CASE ~(retry /\ code # "zero" /\ lines = 0)
      <4>1. /\ window' = [open |-> FALSE, observed |-> window.observed \/ Search!Fired]
            /\ work' = "releasing"
        BY <3>2
      <4>2. ~window'.open /\ (window'.observed <=> when = "inside")
        BY <4>1
      <4> QED BY <4>1, <4>2
    <3> QED BY <3>1, <3>2
  <2>3. SearchHolds'
    BY DEF CallTypes, EngineTypes, SearchAborts, SearchHolds, SearchKills
  <2>4. SearchKills'
    BY DEF CallTypes, EngineTypes, SearchAborts, SearchHolds, SearchKills
  <2> QED BY <2>1, <2>2, <2>3, <2>4, <2>5, <2>6, <2>7
<1>8. CASE Search!Release
  <2> USE <1>8 DEF Search!Release
  <2>1. CallTypes'
    BY DEF CallTypes
  <2>2. EngineTypes'
    BY DEF EngineTypes
  <2>3. SearchCounts'
    BY DEF CallTypes, EngineTypes, SearchCounts, SearchHolds
  <2>4. WindowTyped'
    BY Zenon DEF WindowTyped
  <2>5. SearchAborts' /\ SearchHolds' /\ SearchKills'
    BY DEF CallTypes, EngineTypes, SearchAborts, SearchHolds, SearchKills
  <2> QED BY <2>1, <2>2, <2>3, <2>4, <2>5
<1>9. CASE Search!Rejected
  <2> USE <1>9 DEF Search!Rejected
  <2>1. CallTypes'
    BY DEF CallTypes
  <2>2. EngineTypes'
    BY DEF EngineTypes
  <2>3. SearchCounts'
    BY DEF CallTypes, EngineTypes, SearchCounts, SearchHolds
  <2>4. WindowTyped'
    BY Zenon DEF WindowTyped
  <2>5. SearchAborts' /\ SearchHolds' /\ SearchKills'
    BY DEF CallTypes, EngineTypes, SearchAborts, SearchHolds, SearchKills
  <2> QED BY <2>1, <2>2, <2>3, <2>4, <2>5
<1>10. CASE Search!Reverify
  <2> USE <1>10 DEF Search!Reverify
  <2>1. CallTypes'
    BY DEF CallTypes
  <2>2. EngineTypes'
    BY DEF EngineTypes
  <2>3. SearchCounts'
    BY DEF CallTypes, EngineTypes, SearchCounts, SearchHolds
  <2>4. WindowTyped'
    BY Zenon DEF WindowTyped
  <2>5. SearchAborts' /\ SearchHolds' /\ SearchKills'
    BY DEF CallTypes, EngineTypes, SearchAborts, SearchHolds, SearchKills
  <2> QED BY <2>1, <2>2, <2>3, <2>4, <2>5
<1>11. CASE Search!FindReports
  <2> USE <1>11 DEF Search!FindReports
  <2>1. CallTypes'
    BY DEF CallTypes
  <2>2. EngineTypes'
    BY DEF EngineTypes
  <2>3. SearchCounts'
    BY DEF CallTypes, EngineTypes, SearchCounts, SearchHolds
  <2>4. WindowTyped'
    BY Zenon DEF WindowTyped
  <2>5. SearchAborts' /\ SearchHolds' /\ SearchKills'
    BY DEF CallTypes, EngineTypes, SearchAborts, SearchHolds, SearchKills
  <2> QED BY <2>1, <2>2, <2>3, <2>4, <2>5
<1>12. CASE Search!GrepReports
  <2> USE <1>12 DEF Search!GrepReports
  <2>1. CallTypes'
    BY DEF CallTypes
  <2>2. EngineTypes'
    BY DEF EngineTypes
  <2>3. SearchCounts'
    BY DEF CallTypes, EngineTypes, SearchCounts, SearchHolds
  <2>4. WindowTyped'
    BY Zenon DEF WindowTyped
  <2>5. SearchAborts' /\ SearchHolds' /\ SearchKills'
    BY DEF CallTypes, EngineTypes, SearchAborts, SearchHolds, SearchKills
  <2> QED BY <2>1, <2>2, <2>3, <2>4, <2>5
<1>13. CASE Search!Abandon
  <2> USE <1>13 DEF Search!Abandon
  <2>1. CallTypes'
    BY DEF CallTypes
  <2>2. EngineTypes'
    BY DEF EngineTypes
  <2>3. SearchCounts'
    BY DEF CallTypes, EngineTypes, SearchCounts, SearchHolds
  <2>4. WindowTyped'
    BY Zenon DEF WindowTyped
  <2>5. SearchAborts' /\ SearchHolds' /\ SearchKills'
    BY DEF CallTypes, EngineTypes, SearchAborts, SearchHolds, SearchKills
  <2> QED BY <2>1, <2>2, <2>3, <2>4, <2>5
<1>14. CASE Search!TakeLine
  <2> USE <1>14 DEF Search!TakeLine, Search!CountMatch
  <2>1. CallTypes'
    BY ZenonT(60) DEF CallTypes
  <2>7. EngineTypes'
    BY DEF EngineTypes
  <2>5. SearchCounts'
    <3>1. unread - 1 \in Nat /\ lines + 1 \in Nat /\ (unread - 1) + (lines + 1) = wrote
      BY DEF SearchCounts
    <3>2. matches' \in 0..MaxMatches
      BY DEF SearchCounts
    <3> QED BY <3>1, <3>2 DEF SearchCounts
  <2>6. WindowTyped'
    BY Zenon DEF WindowTyped
  <2>2. SearchAborts'
    BY DEF CallTypes, EngineTypes, SearchAborts, SearchHolds, SearchKills
  <2>3. SearchHolds'
    BY DEF CallTypes, EngineTypes, SearchAborts, SearchHolds, SearchKills
  <2>4. SearchKills'
    <3> USE DEF CallTypes, SearchCounts, SearchHolds, SearchKills
    <3>1. CASE Search!CountMatch /\ matches + 1 = MaxMatches
      BY <3>1
    <3>3. CASE Search!CountMatch /\ matches + 1 # MaxMatches
      <4>4. matches < MaxMatches /\ matches' = matches + 1
        BY <3>3, Zenon
      <4>5. matches # MaxMatches
        <5>1. matches \in 0..MaxMatches /\ MaxMatches \in Nat
          BY Zenon
        <5> HIDE <1>14 DEF SearchSafe
        <5> QED BY <4>4, <5>1
      <4>2. matches' # MaxMatches /\ ~limited
        BY <3>3, <4>4, <4>5, Zenon
      <4>3. UNCHANGED <<limited, stop>>
        BY <3>3, <4>2, Zenon
      <4>1. ~limited /\ ~limited' /\ stop' = stop
        BY <4>2, <4>3
      <4> QED BY <4>1
    <3>2. CASE UNCHANGED <<matches, limited, stop>>
      BY <3>2
    <3> QED BY <3>1, <3>2, <3>3
  <2> QED BY <2>1, <2>2, <2>3, <2>4, <2>5, <2>6, <2>7
<1>15. ASSUME NEW p \in Search!Pipes, Search!PipeEnds(p) PROVE SearchSafe'
  <2> USE <1>15 DEF Search!PipeEnds
  <2>1. CallTypes'
    BY ZenonT(60) DEF CallTypes
  <2>2. EngineTypes'
    BY DEF EngineTypes
  <2>3. SearchCounts'
    BY DEF CallTypes, EngineTypes, SearchCounts, SearchHolds
  <2>4. WindowTyped'
    BY Zenon DEF WindowTyped
  <2>5. SearchAborts' /\ SearchHolds' /\ SearchKills'
    BY ZenonT(60) DEF CallTypes, EngineTypes, SearchAborts, SearchHolds, SearchKills
  <2> QED BY <2>1, <2>2, <2>3, <2>4, <2>5
<1>16. CASE Search!SendStop
  <2> USE <1>16 DEF Search!SendStop, Search!Terminate
  <2>1. CallTypes'
    BY DEF CallTypes
  <2>2. EngineTypes'
    BY DEF EngineTypes
  <2>3. SearchCounts'
    BY DEF CallTypes, EngineTypes, SearchCounts, SearchHolds
  <2>4. WindowTyped'
    BY Zenon DEF WindowTyped
  <2>5. SearchAborts' /\ SearchHolds' /\ SearchKills'
    BY DEF CallTypes, EngineTypes, SearchAborts, SearchHolds, SearchKills
  <2> QED BY <2>1, <2>2, <2>3, <2>4, <2>5
<1>17. CASE Search!StopDone
  <2> USE <1>17 DEF Search!StopDone
  <2>1. CallTypes'
    BY DEF CallTypes
  <2>2. EngineTypes'
    BY DEF EngineTypes
  <2>3. SearchCounts'
    BY DEF CallTypes, EngineTypes, SearchCounts, SearchHolds
  <2>4. WindowTyped'
    BY Zenon DEF WindowTyped
  <2>5. SearchAborts' /\ SearchHolds' /\ SearchKills'
    BY DEF CallTypes, EngineTypes, SearchAborts, SearchHolds, SearchKills
  <2> QED BY <2>1, <2>2, <2>3, <2>4, <2>5
<1>18. CASE Search!WatchFires
  <2> USE <1>18 DEF Search!WatchFires
  <2>1. CallTypes'
    BY DEF CallTypes
  <2>2. EngineTypes'
    BY DEF EngineTypes
  <2>3. SearchCounts'
    BY DEF CallTypes, EngineTypes, SearchCounts, SearchHolds
  <2>4. WindowTyped'
    BY Zenon DEF WindowTyped
  <2>5. SearchAborts' /\ SearchHolds' /\ SearchKills'
    BY ZenonT(60) DEF CallTypes, EngineTypes, SearchAborts, SearchHolds, SearchKills
  <2> QED BY <2>1, <2>2, <2>3, <2>4, <2>5
<1>19. CASE Search!WatchKills
  <2> USE <1>19 DEF Search!WatchKills, Search!Terminate
  <2>1. CallTypes'
    BY ZenonT(60) DEF CallTypes
  <2>2. EngineTypes'
    BY DEF EngineTypes
  <2>3. SearchCounts'
    BY DEF CallTypes, EngineTypes, SearchCounts, SearchHolds
  <2>4. WindowTyped'
    BY Zenon DEF WindowTyped
  <2>5. SearchAborts' /\ SearchHolds' /\ SearchKills'
    BY DEF CallTypes, EngineTypes, SearchAborts, SearchHolds, SearchKills
  <2> QED BY <2>1, <2>2, <2>3, <2>4, <2>5
<1>20. CASE Search!EngineWrites
  <2> USE <1>20 DEF Search!EngineWrites
  <2>1. CallTypes'
    BY DEF CallTypes
  <2>7. EngineTypes'
    BY DEF EngineTypes
  <2>5. SearchCounts'
    <3>1. unread + 1 \in Nat /\ (unread + 1) + lines = wrote + 1 /\ wrote + 1 \in 0..MaxFound
      BY DEF SearchCounts
    <3> QED BY <3>1 DEF SearchCounts
  <2>6. WindowTyped'
    BY Zenon DEF WindowTyped
  <2>2. SearchAborts'
    BY DEF CallTypes, EngineTypes, SearchAborts, SearchHolds, SearchKills
  <2>3. SearchHolds'
    BY DEF CallTypes, EngineTypes, SearchAborts, SearchHolds, SearchKills
  <2>4. SearchKills'
    BY DEF CallTypes, EngineTypes, SearchAborts, SearchHolds, SearchKills
  <2> QED BY <2>1, <2>2, <2>3, <2>4, <2>5, <2>6, <2>7
<1>21. CASE Search!EngineExits
  <2> USE <1>21 DEF Search!EngineExits
  <2>1. CallTypes'
    BY ZenonT(60) DEF CallTypes
  <2>2. EngineTypes'
    BY DEF EngineTypes
  <2>3. SearchCounts'
    BY DEF CallTypes, EngineTypes, SearchCounts, SearchHolds
  <2>4. WindowTyped'
    BY Zenon DEF WindowTyped
  <2>5. SearchAborts' /\ SearchHolds' /\ SearchKills'
    BY DEF CallTypes, EngineTypes, SearchAborts, SearchHolds, SearchKills
  <2> QED BY <2>1, <2>2, <2>3, <2>4, <2>5
<1>22. CASE Search!Abort
  <2> USE <1>22 DEF Search!Abort
  <2>1. CallTypes'
    BY DEF CallTypes
  <2>2. EngineTypes'
    BY DEF EngineTypes
  <2>3. SearchCounts'
    BY DEF CallTypes, EngineTypes, SearchCounts, SearchHolds
  <2>4. WindowTyped'
    BY Zenon DEF WindowTyped
  <2>5. SearchAborts'
    BY DEF CallTypes, SearchAborts, SearchHolds, SearchKills
  <2>6. SearchHolds' /\ SearchKills'
    BY DEF CallTypes, SearchAborts, SearchHolds, SearchKills
  <2> QED BY <2>1, <2>2, <2>3, <2>4, <2>5, <2>6
<1> QED
  BY <1>1, <1>2, <1>3, <1>4, <1>5, <1>6, <1>7, <1>8, <1>9, <1>10, <1>11, <1>12, <1>13, <1>14, <1>15,
     <1>16, <1>17, <1>18, <1>19, <1>20, <1>21, <1>22 DEF Search!Next, Search!WorkStep

-----------------------------------------------------------------------------
\* The engines of the search tools

\* What a store and its installers can hold: no engine in place is partial.
StoreTypes ==
    /\ binary \in [Provision!Names -> {"absent", "whole", "other"}]
    /\ temporary \in [Installers -> {"none", "partial", "whole"}]
    /\ step \in [Installers -> {"check", "fetch", "make", "write", "place", "returned", "raised", "crashed"}]
    /\ turn \in [Installers -> 1..2]
    /\ reported \in [Installers -> Seq({"present", "installed"})]

\* A temporary file is whole when it is to be put in place, and an installer has
\* reported just the engines before its turn, which are in place.
Installing(i) ==
    /\ step[i] = "place" => temporary[i] = "whole"
    /\ step[i] \notin {"write", "place", "raised", "crashed"} => temporary[i] = "none"
    /\ step[i] \notin {"returned", "raised", "crashed"} => Len(reported[i]) = turn[i] - 1
    /\ step[i] = "returned" => Len(reported[i]) = 2
    /\ Len(reported[i]) \in 0..2
    /\ Len(reported[i]) >= 1 => binary["fd"] = "whole"
    /\ Len(reported[i]) >= 2 => binary["rg"] = "whole"

\* The inductive invariant of the store.
StoreSafe == StoreTypes /\ \A i \in Installers : Installing(i)

\* ensure_search_engines() provisions fd first, then rg.
LEMMA EnginesAre ==
  /\ Provision!Engines[1] = "fd" /\ Provision!Engines[2] = "rg" /\ Len(Provision!Engines) = 2
  /\ Provision!Names = {"fd", "rg"}
BY DEF Provision!Engines, Provision!Names

\* An engine in place is whole, and what an installer reported is in place.
LEMMA StoreShown ==
  ASSUME StoreSafe
  PROVE  Provision!InstalledWhole
<1> USE EnginesAre DEF StoreSafe, StoreTypes, Installing, Provision!Verified
<1>1. \A e \in Provision!Names : binary[e] # "partial"
  OBVIOUS
<1>2. ASSUME NEW i \in Installers
      PROVE  /\ step[i] = "returned" => /\ \A e \in Provision!Names : Provision!Verified(e)
                                        /\ Len(reported[i]) = 2
             /\ step[i] \notin {"write", "place", "raised", "crashed"} => temporary[i] = "none"
  <2>1. CASE step[i] = "returned"
    <3>2. Installing(i) /\ Len(reported[i]) = 2
      BY <2>1
    <3>1. binary["fd"] = "whole" /\ binary["rg"] = "whole"
      <4>1. Len(reported[i]) >= 1 /\ Len(reported[i]) >= 2
        BY <3>2
      <4> QED BY <3>2, <4>1, Zenon
    <3> QED BY <2>1, <3>1
  <2> QED BY <2>1
<1>3. ASSUME NEW i \in Installers, NEW k \in DOMAIN reported[i]
      PROVE  Provision!Verified(Provision!Engines[k])
  <2>1. k \in 1..Len(reported[i]) /\ Len(reported[i]) \in 0..2
    <3>1. reported[i] \in Seq({"present", "installed"})
      OBVIOUS
    <3>2. DOMAIN reported[i] = 1..Len(reported[i])
      BY <3>1
    <3> QED BY <3>2
  <2>2. k = 1 \/ k = 2
    BY <2>1
  <2>3. CASE k = 1
    BY <2>1, <2>3
  <2>4. CASE k = 2
    BY <2>1, <2>4
  <2> QED BY <2>2, <2>3, <2>4
<1> QED BY <1>1, <1>2, <1>3 DEF Provision!InstalledWhole

\* Nobody has begun, and what is in place was not put there by halves.
LEMMA StoreBegins ==
  ASSUME Provision!Init
  PROVE  StoreSafe
<1> USE DEF Provision!Init, StoreSafe, StoreTypes, Installing
<1>1. reported \in [Installers -> Seq({"present", "installed"})] /\ \A i \in Installers : Len(reported[i]) = 0
  OBVIOUS
<1> QED BY <1>1

\* What no installer touches stays.
LEMMA StoreRests ==
  ASSUME StoreSafe, UNCHANGED provisionVars
  PROVE  StoreSafe'
BY DEF provisionVars, StoreSafe, StoreTypes, Installing

\* An installer keeps what it has while an engine is only added to the store.
LEMMA InstallerRests ==
  ASSUME NEW j \in Installers, Installing(j), \A e \in Provision!Names : binary[e] = "whole" => binary'[e] = "whole",
         step'[j] = step[j], temporary'[j] = temporary[j], turn'[j] = turn[j], reported'[j] = reported[j]
  PROVE  Installing(j)'
BY EnginesAre DEF Installing

\* Dealing with the engine whose turn it is, once it is in place.
LEMMA StoreGoesOn ==
  ASSUME StoreSafe, NEW i \in Installers, step[i] \in {"check", "place"},
         NEW said \in {"present", "installed"}, Provision!Done(i, said), temporary'[i] = "none",
         binary'[Provision!Current(i)] = "whole",
         \A e \in Provision!Names : binary[e] = "whole" => binary'[e] = "whole"
  PROVE  /\ step' \in [Installers -> {"check", "fetch", "make", "write", "place", "returned", "raised", "crashed"}]
         /\ turn' \in [Installers -> 1..2] /\ reported' \in [Installers -> Seq({"present", "installed"})]
         /\ Installing(i)'
         /\ \A j \in Installers \ {i} : step'[j] = step[j] /\ turn'[j] = turn[j] /\ reported'[j] = reported[j]
<1> USE EnginesAre
<1>1. turn[i] \in 1..2 /\ Len(reported[i]) = turn[i] - 1 /\ reported[i] \in Seq({"present", "installed"})
      /\ Installing(i)
  BY DEF StoreSafe, StoreTypes, Installing
<1>2. reported' \in [Installers -> Seq({"present", "installed"})]
  BY DEF Provision!Done, StoreSafe, StoreTypes
<1>3. Len(reported'[i]) = turn[i]
  BY <1>1 DEF Provision!Done, StoreSafe, StoreTypes
<1>4. CASE turn[i] = 1
  <2>0. step' = [step EXCEPT ![i] = "check"] /\ turn' = [turn EXCEPT ![i] = turn[i] + 1]
    BY <1>4 DEF Provision!Done
  <2>1. step'[i] = "check" /\ turn'[i] = 2 /\ binary'["fd"] = "whole"
    BY <1>4 DEF Provision!Done, Provision!Current, StoreSafe, StoreTypes
  <2>2. Installing(i)'
    BY <1>3, <1>4, <2>1 DEF Installing
  <2>3. step' \in [Installers -> {"check", "fetch", "make", "write", "place", "returned", "raised", "crashed"}]
        /\ \A j \in Installers \ {i} : step'[j] = step[j]
    BY <2>0 DEF StoreSafe, StoreTypes
  <2>4. turn' \in [Installers -> 1..2] /\ \A j \in Installers \ {i} : turn'[j] = turn[j]
    BY <1>4, <2>0 DEF StoreSafe, StoreTypes
  <2>5. \A j \in Installers \ {i} : reported'[j] = reported[j]
    BY DEF Provision!Done, StoreSafe, StoreTypes
  <2> QED BY <1>2, <2>2, <2>3, <2>4, <2>5
<1>5. CASE turn[i] = 2
  <2>1. step'[i] = "returned" /\ turn'[i] = 2 /\ binary'["rg"] = "whole" /\ binary'["fd"] = "whole"
    BY <1>1, <1>5 DEF Provision!Done, Provision!Current, StoreSafe, StoreTypes, Installing
  <2>2. Installing(i)'
    BY <1>3, <1>5, <2>1 DEF Installing
  <2>3. step' \in [Installers -> {"check", "fetch", "make", "write", "place", "returned", "raised", "crashed"}]
        /\ \A j \in Installers \ {i} : step'[j] = step[j]
    BY <1>5, ZenonT(60) DEF Provision!Done, StoreSafe, StoreTypes
  <2>4. turn' \in [Installers -> 1..2] /\ \A j \in Installers \ {i} : turn'[j] = turn[j]
    BY <1>5 DEF Provision!Done, StoreSafe, StoreTypes
  <2>5. \A j \in Installers \ {i} : reported'[j] = reported[j]
    BY DEF Provision!Done, StoreSafe, StoreTypes
  <2> QED BY <1>2, <2>2, <2>3, <2>4, <2>5
<1> QED BY <1>1, <1>4, <1>5

\* Every step of every installer, a crash between two of them included, leaves
\* only whole engines in place.
LEMMA StoreSteps ==
  ASSUME StoreSafe, Provision!Next
  PROVE  StoreSafe'
<1> USE EnginesAre DEF StoreSafe, StoreTypes
<1>1. PICK i \in Installers :
        \/ Provision!Check(i) \/ Provision!Fetch(i) \/ Provision!MakeTemporary(i) \/ Provision!InstallFails(i)
        \/ Provision!WriteTemporary(i) \/ Provision!Place(i) \/ Provision!Crash(i)
  BY DEF Provision!Next
<1>2. CASE Provision!Check(i) /\ Provision!Verified(Provision!Current(i))
  <2>1. /\ step[i] = "check" /\ Provision!Done(i, "present") /\ UNCHANGED <<binary, temporary>>
        /\ binary[Provision!Current(i)] = "whole" /\ temporary[i] = "none"
    BY <1>2 DEF Provision!Check, Provision!Verified, Installing
  <2> HIDE DEF StoreSafe
  <2>2. /\ step' \in [Installers -> {"check", "fetch", "make", "write", "place", "returned", "raised", "crashed"}]
        /\ turn' \in [Installers -> 1..2] /\ reported' \in [Installers -> Seq({"present", "installed"})]
        /\ Installing(i)'
        /\ \A j \in Installers \ {i} : step'[j] = step[j] /\ turn'[j] = turn[j] /\ reported'[j] = reported[j]
    BY <2>1, StoreGoesOn
  <2>3. \A j \in Installers \ {i} : Installing(j)'
    BY <2>1, <2>2, InstallerRests DEF StoreSafe
  <2> QED BY <2>1, <2>2, <2>3 DEF StoreSafe
<1>3. CASE Provision!Check(i) /\ ~Provision!Verified(Provision!Current(i))
  <2> USE <1>3 DEF Provision!Check
  <2>1. StoreTypes' /\ \A j \in Installers \ {i} : step'[j] = step[j] /\ temporary'[j] = temporary[j]
    BY ZenonT(60)
  <2>2. Installing(i)'
    BY ZenonT(60) DEF Installing
  <2>3. \A j \in Installers \ {i} : Installing(j)'
    BY <2>1, InstallerRests
  <2> QED BY <2>1, <2>2, <2>3
<1>4. CASE Provision!Fetch(i)
  <2> USE <1>4 DEF Provision!Fetch
  <2>1. StoreTypes' /\ \A j \in Installers \ {i} : step'[j] = step[j] /\ temporary'[j] = temporary[j]
    BY ZenonT(60)
  <2>2. Installing(i)'
    BY DEF Installing
  <2>3. \A j \in Installers \ {i} : Installing(j)'
    BY <2>1, InstallerRests
  <2> QED BY <2>1, <2>2, <2>3
<1>5. CASE Provision!MakeTemporary(i)
  <2> USE <1>5 DEF Provision!MakeTemporary
  <2>1. StoreTypes' /\ \A j \in Installers \ {i} : step'[j] = step[j] /\ temporary'[j] = temporary[j]
    BY ZenonT(60)
  <2>2. Installing(i)'
    BY ZenonT(60) DEF Installing
  <2>3. \A j \in Installers \ {i} : Installing(j)'
    BY <2>1, InstallerRests
  <2> QED BY <2>1, <2>2, <2>3
<1>6. CASE Provision!InstallFails(i)
  <2> USE <1>6 DEF Provision!InstallFails
  <2>1. StoreTypes' /\ \A j \in Installers \ {i} : step'[j] = step[j] /\ temporary'[j] = temporary[j]
    OBVIOUS
  <2>2. Installing(i)'
    BY DEF Installing
  <2>3. \A j \in Installers \ {i} : Installing(j)'
    BY <2>1, InstallerRests
  <2> QED BY <2>1, <2>2, <2>3
<1>7. CASE Provision!WriteTemporary(i)
  <2> USE <1>7 DEF Provision!WriteTemporary
  <2>1. StoreTypes' /\ \A j \in Installers \ {i} : step'[j] = step[j] /\ temporary'[j] = temporary[j]
    OBVIOUS
  <2>2. Installing(i)'
    BY DEF Installing
  <2>3. \A j \in Installers \ {i} : Installing(j)'
    BY <2>1, InstallerRests
  <2> QED BY <2>1, <2>2, <2>3
<1>8. CASE Provision!Place(i)
  <2>1. Provision!Current(i) \in Provision!Names /\ temporary[i] = "whole" /\ temporary'[i] = "none"
        /\ temporary' \in [Installers -> {"none", "partial", "whole"}]
        /\ \A j \in Installers \ {i} : temporary'[j] = temporary[j]
    BY <1>8 DEF Provision!Current, Provision!Place, Installing
  <2>2. /\ binary' \in [Provision!Names -> {"absent", "whole", "other"}]
        /\ binary'[Provision!Current(i)] = "whole"
        /\ \A e \in Provision!Names : binary[e] = "whole" => binary'[e] = "whole"
    BY <1>8, <2>1 DEF Provision!Place
  <2>3. step[i] = "place" /\ Provision!Done(i, "installed")
    BY <1>8 DEF Provision!Place
  <2> HIDE DEF StoreSafe
  <2>4. /\ step' \in [Installers -> {"check", "fetch", "make", "write", "place", "returned", "raised", "crashed"}]
        /\ turn' \in [Installers -> 1..2] /\ reported' \in [Installers -> Seq({"present", "installed"})]
        /\ Installing(i)'
        /\ \A j \in Installers \ {i} : step'[j] = step[j] /\ turn'[j] = turn[j] /\ reported'[j] = reported[j]
    BY <2>1, <2>2, <2>3, StoreGoesOn
  <2>5. \A j \in Installers \ {i} : Installing(j)'
    BY <2>1, <2>2, <2>4, InstallerRests DEF StoreSafe
  <2> QED BY <2>1, <2>2, <2>4, <2>5 DEF StoreSafe
<1>9. CASE Provision!Crash(i)
  <2> USE <1>9 DEF Provision!Crash
  <2>1. StoreTypes' /\ \A j \in Installers \ {i} : step'[j] = step[j] /\ temporary'[j] = temporary[j]
    OBVIOUS
  <2>2. Installing(i)'
    BY DEF Installing
  <2>3. \A j \in Installers \ {i} : Installing(j)'
    BY <2>1, InstallerRests
  <2> QED BY <2>1, <2>2, <2>3
<1> QED BY <1>1, <1>2, <1>3, <1>4, <1>5, <1>6, <1>7, <1>8, <1>9

-----------------------------------------------------------------------------
\* The four parts together

\* The parts that are not exercised rest where no call was made.
CommandsSafe == ShellSafe /\ ToolSafe /\ SearchSafe /\ StoreSafe

\* Whichever part a behaviour exercises, it begins with the invariant.
LEMMA CommandsBegin == MCInit => CommandsSafe
<1> SUFFICES ASSUME MCInit PROVE CommandsSafe
  OBVIOUS
<1>1. ShellSafe
  <2>1. InitAt("start") \/ InitAt("off")
    BY DEF MCInit, Init
  <2> QED BY <2>1, ShellBegins
<1>2. ToolSafe
  <2>1. Tool!InitAt("start") \/ Tool!InitAt("off")
    BY DEF MCInit, Tool!Init
  <2> QED BY <2>1, ToolBegins
<1>3. SearchSafe
  <2>1. Search!InitAt("start") \/ Search!InitAt("off")
    BY DEF MCInit, Search!Init
  <2> QED BY <2>1, SearchBegins
<1>4. StoreSafe
  BY StoreBegins DEF MCInit
<1> QED BY <1>1, <1>2, <1>3, <1>4 DEF CommandsSafe

\* A step of one part keeps its invariant and leaves the others alone.
LEMMA CommandsStep ==
  CommandsSafe /\ [MCNext]_<<part, vars, toolVars, searchVars, provisionVars>> => CommandsSafe'
<1> SUFFICES ASSUME CommandsSafe, [MCNext]_<<part, vars, toolVars, searchVars, provisionVars>>
             PROVE  CommandsSafe'
  OBVIOUS
<1> USE DEF CommandsSafe
<1>1. CASE Next /\ UNCHANGED <<toolVars, searchVars, provisionVars>>
  <2>1. UNCHANGED toolVars /\ UNCHANGED searchVars /\ UNCHANGED provisionVars
    BY <1>1
  <2> QED BY <1>1, <2>1, ShellSteps, ToolRests, SearchRests, StoreRests
<1>2. CASE Tool!Next /\ UNCHANGED <<vars, searchVars, provisionVars>>
  <2>1. UNCHANGED vars /\ UNCHANGED searchVars /\ UNCHANGED provisionVars
    BY <1>2
  <2> QED BY <1>2, <2>1, ShellRests, ToolSteps, SearchRests, StoreRests
<1>3. CASE Search!Next /\ UNCHANGED <<vars, toolVars, provisionVars>>
  <2>1. UNCHANGED vars /\ UNCHANGED toolVars /\ UNCHANGED provisionVars
    BY <1>3
  <2> QED BY <1>3, <2>1, ShellRests, ToolRests, SearchSteps, StoreRests
<1>4. CASE Provision!Next /\ UNCHANGED <<vars, toolVars, searchVars>>
  <2>1. UNCHANGED vars /\ UNCHANGED toolVars /\ UNCHANGED searchVars
    BY <1>4
  <2> QED BY <1>4, <2>1, ShellRests, ToolRests, SearchRests, StoreSteps
<1>5. CASE UNCHANGED <<part, vars, toolVars, searchVars, provisionVars>>
  <2>1. UNCHANGED vars /\ UNCHANGED toolVars /\ UNCHANGED searchVars /\ UNCHANGED provisionVars
    BY <1>5
  <2> QED BY <2>1, ShellRests, ToolRests, SearchRests, StoreRests
<1> QED BY <1>1, <1>2, <1>3, <1>4, <1>5 DEF MCNext

\* The invariant of the four parts, for every behaviour.
THEOREM CommandsStaySafe == MCSpec => []CommandsSafe
BY CommandsBegin, CommandsStep, PTL DEF MCSpec

\* exec() (shell.py) reports by the first claim alone, an abort while the file of
\* a bash call is being finished does not change its report, and a search counts
\* an abort exactly when it came before its engine completed.
THEOREM ReportsAreDecidedOnce == MCSpec => []ReportedOnce
<1>1. CommandsSafe => ReportedOnce
  BY ToolShown, SearchShown DEF CommandsSafe, ShellSafe, ReportedOnce
<1> QED BY <1>1, CommandsStaySafe, PTL

\* Output is whole and in order: of exec() once nobody is left to write, in the
\* full-output file of the bash tool at every moment, and in the results of a
\* search that was not cut short.
THEOREM OutputIsKept == MCSpec => []OutputKept
<1>1. CommandsSafe => OutputKept
  BY ShellTyped, ToolShown, SearchShown DEF CommandsSafe, ShellSafe, OutputKept
<1> QED BY <1>1, CommandsStaySafe, PTL

\* No way out of a bash call or of a search leaves a task, a timer, a kill or an
\* open read end behind, and no crash of an installer leaves part of an engine
\* where the search tools look for it.
THEOREM NothingIsLeft == MCSpec => []NothingLeftBehind
<1>1. CommandsSafe => NothingLeftBehind
  BY ToolShown, SearchShown, StoreShown DEF CommandsSafe, NothingLeftBehind
<1> QED BY <1>1, CommandsStaySafe, PTL

=============================================================================
