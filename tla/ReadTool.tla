------------------------------ MODULE ReadTool ------------------------------
(***************************************************************************)
(* The read tool (tools/builtin/read.py) with its head truncation          *)
(* (truncate.py) and its race with the signal (_signal.py), called again   *)
(* and again by somebody who follows the "Use offset=N to continue"        *)
(* notices.  A file is the sequence of the sizes of its lines.             *)
(***************************************************************************)
EXTENDS Naturals, Sequences, SequencesExt

CONSTANTS
    MaxLines,   \* DEFAULT_MAX_LINES
    MaxBytes,   \* DEFAULT_MAX_BYTES
    MaxLength,  \* bound: the lines of a file
    Sizes,      \* bound: the bytes of a line
    Limits      \* the limit argument, NoLimit for none

NoLimit == 99
NoNext == 0

VARIABLES
    lines,    \* the file
    limit,    \* the argument, kept from page to page
    offset,   \* the argument of the page being read
    stage,    \* of the call: idle, racing, or its end
    work,     \* of the raced task: its next await, then what it settled with
    signal,   \* has the signal fired, "before" or "after" the work last settled?
    late,     \* did the work settle with `aborted'?
    answer,   \* what the caller was told
    shown     \* auxiliary: the numbers of the lines shown so far

vars == <<lines, limit, offset, stage, work, signal, late, answer, shown>>

-----------------------------------------------------------------------------
(* Head truncation *)

\* The bytes of lines joined by newlines.
Bytes(s) == FoldLeft(LAMBDA total, size : total + size, 0, s) + (IF s = <<>> THEN 0 ELSE Len(s) - 1)

\* _split_lines_for_counting(): a newline at the end begins no line.
Counted(s) ==
    CASE s = <<>> \/ s = <<0>> -> <<>>
      [] Len(s) > 1 /\ s[Len(s)] = 0 -> Front(s)
      [] OTHER -> s

\* The complete lines that fit both ceilings.
Kept(s) ==
    CHOOSE k \in 0..Len(s) :
        /\ k <= MaxLines /\ Bytes(SubSeq(s, 1, k)) <= MaxBytes
        /\ k = Len(s) \/ k = MaxLines \/ Bytes(SubSeq(s, 1, k + 1)) > MaxBytes

truncate_head(s) ==
    LET counted == Counted(s)
    IN  CASE Len(counted) <= MaxLines /\ Bytes(s) <= MaxBytes ->
                 [truncated |-> FALSE, output |-> Len(s), first |-> FALSE]
          [] counted[1] > MaxBytes -> [truncated |-> TRUE, output |-> 0, first |-> TRUE]
          [] OTHER -> [truncated |-> TRUE, output |-> Kept(counted), first |-> FALSE]

\* _text(): the page from the offset on, and the offset its notice names.
text(file, off, lim) ==
    LET start == IF off = 0 THEN 0 ELSE off - 1
        total == Len(file)
        end == IF lim = NoLimit \/ start + lim > total THEN total ELSE start + lim
        cut == truncate_head(SubSeq(file, start + 1, end))
        page(to, next) == [outcome |-> "page", from |-> start + 1, to |-> to, next |-> next]
    IN  CASE start >= total -> [outcome |-> "beyond"]
          [] start < total /\ cut.first -> [outcome |-> "too long", line |-> start + 1]
          [] start < total /\ ~cut.first /\ cut.truncated ->
                 page(start + cut.output, start + cut.output + 1)
          [] start < total /\ ~cut.truncated /\ lim # NoLimit /\ end < total -> page(end, end + 1)
          [] OTHER -> page(end, NoNext)

-----------------------------------------------------------------------------

Init ==
    /\ lines \in UNION {[1..n -> Sizes] : n \in 1..MaxLength}
    /\ limit \in Limits /\ offset = 1
    /\ stage = "idle" /\ work = "none" /\ signal = "no" /\ late = FALSE
    /\ answer = [outcome |-> "none"] /\ shown = <<>>

Tells(a) == answer' = a /\ stage' = "told"
IsAborted == [outcome |-> "aborted"]
Fired == signal # "no"

\* execute() and race_abort() up to the race.
Execute ==
    /\ stage = "idle"
    /\ IF Fired
       THEN Tells(IsAborted) /\ UNCHANGED work
       ELSE stage' = "racing" /\ work' = "access" /\ UNCHANGED answer
    /\ UNCHANGED <<lines, limit, offset, signal, late, shown>>

\* run(): its checkpoints, before the access and before the read.
Run ==
    /\ work = "access"
    /\ work' = IF Fired THEN "settled" ELSE "read"
    /\ late' = Fired
    /\ UNCHANGED <<lines, limit, offset, stage, signal, answer, shown>>

\* _settle(): the last step of the work looks at the signal once more.
Settle ==
    /\ work = "read"
    /\ work' = "settled" /\ late' = Fired
    /\ UNCHANGED <<lines, limit, offset, stage, signal, answer, shown>>

\* The race is over because the work is done: its outcome stands.
TaskWins ==
    /\ stage = "racing" /\ work = "settled"
    /\ Tells(IF late THEN IsAborted ELSE text(lines, offset, limit))
    /\ shown' = IF late \/ answer'.outcome # "page" THEN shown
                ELSE shown \o [i \in 1..(answer'.to + 1 - answer'.from) |-> answer'.from + i - 1]
    /\ UNCHANGED <<lines, limit, offset, work, signal, late>>

\* The watcher saw the signal first: the work is left running.
WatcherWins ==
    /\ stage = "racing" /\ Fired /\ work # "settled"
    /\ Tells(IsAborted)
    /\ UNCHANGED <<lines, limit, offset, work, signal, late, shown>>

\* The caller follows the notice.
Follow ==
    /\ stage = "told" /\ answer.outcome = "page" /\ answer.next # NoNext
    /\ offset' = answer.next
    /\ stage' = "idle" /\ work' = "none" /\ answer' = [outcome |-> "none"]
    /\ UNCHANGED <<lines, limit, signal, late, shown>>

Fires ==
    /\ ~Fired /\ signal' = IF work = "settled" THEN "after" ELSE "before"
    /\ UNCHANGED <<lines, limit, offset, stage, work, late, answer, shown>>

Step == Execute \/ Run \/ Settle \/ TaskWins \/ WatcherWins \/ Follow
Next == Step \/ Fires

Spec == Init /\ [][Next]_vars

-----------------------------------------------------------------------------

TypeOK ==
    /\ stage \in {"idle", "racing", "told"} /\ work \in {"none", "access", "read", "settled"}
    /\ shown \in Seq(1..MaxLength)

\* Following the notices shows every line once and in order: no line is skipped
\* or repeated where a page ends, whichever ceiling or limit ended it; a page
\* without a notice is the last, and reaches the end of the file unless a line
\* alone is too long.
PagesInOrder ==
    /\ \A i \in DOMAIN shown : shown[i] = i
    /\ answer.outcome = "page" /\ answer.next # NoNext => answer.next = Len(shown) + 1
    /\ answer.outcome = "page" /\ answer.next = NoNext => Len(shown) = Len(lines)
    /\ answer.outcome = "too long" => Len(shown) + 1 = answer.line /\ lines[answer.line] > MaxBytes
    /\ answer.outcome # "beyond"

\* "The outcome is decided by ORDER": a call reports `aborted' exactly if the
\* signal fired before its work settled, however late the caller resumes; the
\* poll decides only how soon.
OrderDecides ==
    stage = "told" =>
        (answer.outcome = "aborted" <=> signal = "before" \/ (signal = "after" /\ work = "none"))

=============================================================================
