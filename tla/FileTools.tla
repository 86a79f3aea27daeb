----------------------------- MODULE FileTools -----------------------------
(***************************************************************************)
(* The edit and write tools (tools/builtin/edit.py, write.py) on one file, *)
(* with the mutation queue between them and the file system below.  No     *)
(* call to the file system is given the signal: an abort is seen only at   *)
(* the tools' checkpoints.  A task that is cancelled leaves the queue at   *)
(* once, while the thread that writes for it goes on.                      *)
(***************************************************************************)
EXTENDS MutationQueue

CONSTANTS
    Tool,        \* what each tool call is: "edit" or "write"
    Spelling,    \* how each names the file: "direct", or "linked" by a symbolic link above it
    Original     \* the content nobody wrote

ToolCalls == DOMAIN Tool

ASSUME FileToolsAssumption ==
    /\ Tool \in [ToolCalls -> {"edit", "write"}] /\ ToolCalls \subseteq Calls
    /\ Spelling \in [ToolCalls -> Scopes] /\ "direct" \in Scopes

VARIABLES
    step,     \* where the work of each call is
    signal,   \* the calls whose signal has fired
    file,     \* made: whose content; edits: the edits in it; there, and was it at first; cut: open, not filled
    copy,     \* what each edit has read
    told,     \* what each call reported
    log,      \* auxiliary: the writes that were filled, in order
    orphan    \* auxiliary: some write went on after its task was cancelled

workVars == <<step, signal, file, copy, told, log, orphan>>

NoCopy == [made |-> Original, edits |-> {}]
Fresh(there) == [made |-> Original, edits |-> {}, there |-> there, was |-> there, cut |-> FALSE]

WorkInit ==
    /\ step = [c \in ToolCalls |-> "begin"] /\ signal = {}
    /\ \E there \in BOOLEAN : file = Fresh(there)
    /\ copy = [c \in ToolCalls |-> NoCopy]
    /\ told = [c \in ToolCalls |-> "nothing"]
    /\ log = <<>> /\ orphan = FALSE

\* mutation_queue_key(): the canonical path, or the path as it is spelled while
\* there is no file.
Key(c) == IF file.there THEN "direct" ELSE Spelling[c]

EnterQueue(c) == Enter(c, Key(c)) /\ UNCHANGED workVars

-----------------------------------------------------------------------------
(* The work of a call, while it has its turn *)

Working(c, s) == pc[c] = "running" /\ step[c] = s
At(c, s) == step' = [step EXCEPT ![c] = s]
Tells(c, what) == told' = [told EXCEPT ![c] = what]

\* The function returns or raises, and with_mutation_queue() lets go.
Reports(c, what) == At(c, "ended") /\ Tells(c, what) /\ FnEnds(c)

\* check_abort(): the function goes on, or raises.
Checkpoint(c, next) ==
    IF c \in signal
    THEN Reports(c, "aborted")
    ELSE At(c, next) /\ UNCHANGED <<told, vars>>

\* The checkpoint at the start; write then makes the parent directories.
Begin(c) ==
    /\ Working(c, "begin")
    /\ Checkpoint(c, IF Tool[c] = "edit" THEN "access" ELSE "parents")
    /\ UNCHANGED <<signal, file, copy, log, orphan>>

\* _access(): on a failure the signal is looked at before it is reported.
Access(c) ==
    /\ Working(c, "access")
    /\ \/ file.there /\ Checkpoint(c, "read")
       \/ Reports(c, IF c \in signal THEN "aborted" ELSE "failed")
    /\ UNCHANGED <<signal, file, copy, log, orphan>>

\* Mutant: the edits are applied to what the call saw before its turn came.
ReadStale(c) ==
    /\ Working(c, "read")
    /\ copy' = [copy EXCEPT ![c] = NoCopy]
    /\ Checkpoint(c, "open")
    /\ UNCHANGED <<signal, file, log, orphan>>

\* The read, which may fail, the checkpoint after it, the edits and the
\* checkpoint after those.  Edits are refused when the text they replace is not
\* there, as in a file that was cut.
Read(c) ==
    /\ Working(c, "read")
    /\ copy' = [copy EXCEPT ![c] = [made |-> file.made, edits |-> file.edits]]
    /\ \/ (c \in signal \/ ~file.cut) /\ Checkpoint(c, "open")
       \/ Reports(c, "failed")
    /\ UNCHANGED <<signal, file, log, orphan>>

\* write: create_dir() of the parent, and the checkpoint after it.
Parents(c) ==
    /\ Working(c, "parents")
    /\ \/ Checkpoint(c, "open")
       \/ Reports(c, "failed")
    /\ UNCHANGED <<signal, file, copy, log, orphan>>

\* fs.write_file() in its thread: the file is opened and cut, ...
Opens(c) ==
    /\ step[c] = "open"
    /\ file' = [file EXCEPT !.there = TRUE, !.cut = TRUE]
    /\ At(c, "fill")
    /\ UNCHANGED <<vars, signal, copy, told, log, orphan>>

\* ... then filled.
Fills(c) ==
    /\ step[c] = "fill"
    /\ file' = IF Tool[c] = "edit"
               THEN [file EXCEPT !.made = copy[c].made, !.edits = copy[c].edits \cup {c}, !.cut = FALSE]
               ELSE [file EXCEPT !.made = c, !.edits = {}, !.cut = FALSE]
    /\ log' = Append(log, c)
    /\ At(c, IF pc[c] = "running" THEN "written" ELSE "ended")
    /\ UNCHANGED <<vars, signal, copy, told, orphan>>

\* The open was refused.
Refused(c) ==
    /\ Working(c, "open") /\ Reports(c, "failed")
    /\ UNCHANGED <<signal, file, copy, log, orphan>>

\* The last checkpoint: an abort is reported although the file is written.
Written(c) ==
    /\ Working(c, "written")
    /\ Reports(c, IF c \in signal THEN "aborted" ELSE "done")
    /\ UNCHANGED <<signal, file, copy, log, orphan>>

\* The task is cancelled in an await of its function; a write goes on.
Cancelled(c) ==
    /\ Cancels /\ pc[c] = "running" /\ step[c] # "begin"
    /\ Tells(c, "cancelled") /\ FnEnds(c)
    /\ IF step[c] \in {"open", "fill"}
       THEN orphan' = TRUE /\ UNCHANGED step
       ELSE At(c, "ended") /\ UNCHANGED orphan
    /\ UNCHANGED <<signal, file, copy, log>>

Fires(c) ==
    /\ c \notin signal /\ pc[c] \notin Over
    /\ signal' = signal \cup {c}
    /\ UNCHANGED <<vars, step, file, copy, told, log, orphan>>

Work(c) == Begin(c) \/ Access(c) \/ Read(c) \/ Parents(c) \/ Opens(c) \/ Fills(c) \/ Written(c)

\* What the queue does apart from running the function and finding the key.
Queue(c) ==
    /\ \/ Call(c) \/ RegistrationTurn(c) \/ RegistrationFails(c) \/ RegistrationCancelled(c)
       \/ TurnComes(c) \/ WaitCancelled(c) \/ DeferredRelease(c)
    /\ UNCHANGED workVars

\* What the event loop and the file system do for a call once it is made.
Proceeds(c) ==
    \/ EnterQueue(c) \/ Work(c)
    \/ (RegistrationTurn(c) \/ TurnComes(c) \/ DeferredRelease(c)) /\ UNCHANGED workVars

ToolsNext ==
    \E c \in ToolCalls :
        Queue(c) \/ EnterQueue(c) \/ Work(c) \/ Refused(c) \/ Cancelled(c) \/ Fires(c)

ToolsSpec == Init /\ WorkInit /\ [][ToolsNext]_<<vars, workVars>>

-----------------------------------------------------------------------------

Steps == {"begin", "access", "read", "parents", "open", "fill", "written", "ended"}

WorkTypeOK ==
    /\ step \in [ToolCalls -> Steps]
    /\ signal \subseteq ToolCalls
    /\ file \in [made : ToolCalls \cup {Original}, edits : SUBSET ToolCalls,
                 there : BOOLEAN, was : BOOLEAN, cut : BOOLEAN]
    /\ copy \in [ToolCalls -> [made : ToolCalls \cup {Original}, edits : SUBSET ToolCalls]]
    /\ told \in [ToolCalls -> {"nothing", "done", "failed", "aborted", "cancelled"}]
    /\ log \in Seq(ToolCalls) /\ orphan \in BOOLEAN

\* The content is that of the writes one after the other: the last `write', and
\* every edit filled after it.
Replayed ==
    \E w \in 0..Len(log) :
        /\ w > 0 => Tool[log[w]] = "write"
        /\ file.made = IF w = 0 THEN Original ELSE log[w]
        /\ \A i \in (w + 1)..Len(log) : Tool[log[i]] = "edit"
        /\ file.edits = {log[i] : i \in (w + 1)..Len(log)}

\* The spellings of the path in use lead to one queue.
OneQueue == file.was \/ \A c \in ToolCalls : pc[c] = "idle" \/ Spelling[c] = "direct"

\* No edit is lost, and no tool reads a file another has cut: as long as no
\* cancelled call left a write behind, and the spellings of the path in use lead
\* to one queue, the file is what its writers made of it one after the other,
\* and holds the edits of every call that reported success since the last write.
EditsKept ==
    /\ WorkTypeOK
    /\ ~orphan /\ OneQueue =>
          /\ ~file.cut => Replayed
          /\ \A c \in ToolCalls : told[c] = "done" => \E i \in DOMAIN log : log[i] = c

=============================================================================
