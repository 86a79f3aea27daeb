----------------------------- MODULE SessionLog -----------------------------
(***************************************************************************)
(* Session logs and the model history derived from them                    *)
(* (session/log.py, operations.py, derive.py).  Logs are append-only; a    *)
(* reset, a compaction and a fork are events that derivation reads.  The   *)
(* message of a surface event is abstracted to where it is logged, the     *)
(* pair of log and sequence number; a summary to its compaction's place.   *)
(***************************************************************************)
EXTENDS Integers, Sequences, FiniteSets, FiniteSetsExt, SequencesExt

CONSTANTS
    MaxLogs,     \* bound on the logs
    MaxEvents,   \* bound on the events of a log
    MaxTotal,    \* bound on the events of all logs together
    MaxKeep      \* the largest `keep` a compaction is asked for

ASSUME LogAssumption ==
    /\ MaxLogs \in Nat \ {0} /\ MaxEvents \in Nat \ {0}
    /\ MaxTotal \in Nat /\ MaxKeep \in Nat

VARIABLE logs   \* logs[l]: its ancestor (0: none), boundary and events

vars == <<logs>>

\* An event's kind, and the data of a compaction; its seq is its index.
Plain(kind) == [kind |-> kind, through |-> 0, retained |-> {}]

Init == logs = <<[ancestor |-> 0, boundary |-> 0, events |-> <<>>]>>

-----------------------------------------------------------------------------

\* _latest_of(): the seq of the last event of a kind, 0 if there is none.
LatestOf(events, kind) ==
    Max({0} \cup {i \in DOMAIN events : events[i].kind = kind})

\* effective_surface(), in order: what a reset has not excluded.
EffectiveSurface(events) ==
    SetToSortSeq({i \in DOMAIN events : /\ events[i].kind = "message"
                                        /\ i > LatestOf(events, "reset")}, <)

\* surface[len(surface) - keep:], with the meaning slicing gives to a negative
\* start: it counts from the end.
LastOf(surface, keep) ==
    LET start == Len(surface) - keep
        from == IF start >= 0 THEN start ELSE Max({0, Len(surface) + start})
    IN  IF keep = 0 THEN {} ELSE {surface[i] : i \in from + 1..Len(surface)}

\* Mutant: the retained tail is spliced in after the summary and kept besides.
KeptTwice(surface, compaction) ==
    SelectSeq(surface, LAMBDA i : i \in compaction.retained)
    \o SelectSeq(surface, LAMBDA i : i > compaction.through \/ i \in compaction.retained)

\* What a compaction leaves of the surface.
Kept(surface, compaction) ==
    SelectSeq(surface, LAMBDA i : i > compaction.through \/ i \in compaction.retained)

\* _derive(): the history of a log up to a sequence number.
Derive(state, log, max) ==
    LET Entries(l, seqs) == [k \in DOMAIN seqs |-> <<l, seqs[k]>>]
        D[l \in 1..Len(state), limit \in 0..MaxEvents] ==
            LET events == SubSeq(state[l].events, 1, Min({limit, Len(state[l].events)}))
                reset == LatestOf(events, "reset")
                compaction == LatestOf(events, "compaction")
                surface == EffectiveSurface(events)
            IN  IF compaction > reset
                THEN <<<<l, compaction>>>> \o Entries(l, Kept(surface, events[compaction]))
                ELSE IF reset = 0 /\ state[l].ancestor # 0
                THEN D[state[l].ancestor, state[l].boundary] \o Entries(l, surface)
                ELSE Entries(l, surface)
    IN  D[log, max]

\* derive_messages()
History(state, l) == Derive(state, l, Len(state[l].events))

-----------------------------------------------------------------------------

\* Room within the bounds for one more event.
Room == FoldFunction(LAMBDA log, n : n + Len(log.events), 0, logs) < MaxTotal

Log(l, event) ==
    /\ Room
    /\ Len(logs[l].events) < MaxEvents
    /\ logs' = [logs EXCEPT ![l].events = Append(@, event)]

\* append() of a surface event, and of any other.
AppendMessage(l) == Log(l, Plain("message"))
AppendOther(l) == Log(l, Plain("other"))

Reset(l) == Log(l, Plain("reset"))

Compact(l, keep) ==
    LET surface == EffectiveSurface(logs[l].events)
    IN  Log(l, [kind |-> "compaction",
                through |-> IF surface = <<>> THEN 0 ELSE surface[Len(surface)],
                retained |-> LastOf(surface, keep)])

\* Mutant: a boundary the ancestor has not reached yet is accepted.
ForkAhead(l, at) ==
    /\ Len(logs) < MaxLogs /\ Room
    /\ logs' = Append(logs, [ancestor |-> l, boundary |-> at, events |-> <<Plain("forked")>>])

\* fork(): a boundary beyond the tip is rejected.
Fork(l, at) ==
    /\ Len(logs) < MaxLogs /\ Room
    /\ at <= Len(logs[l].events)
    /\ logs' = Append(logs, [ancestor |-> l, boundary |-> at, events |-> <<Plain("forked")>>])

Next ==
    \E l \in DOMAIN logs :
        \/ AppendMessage(l) \/ AppendOther(l) \/ Reset(l)
        \/ \E keep \in 0..MaxKeep : Compact(l, keep)
        \/ \E at \in 0..MaxEvents : Fork(l, at)

Spec == Init /\ [][Next]_vars

-----------------------------------------------------------------------------

TypeOK ==
    /\ Len(logs) \in 1..MaxLogs
    /\ \A l \in DOMAIN logs :
         /\ logs[l].ancestor \in 0..l - 1 /\ logs[l].boundary \in 0..MaxEvents
         /\ Len(logs[l].events) <= MaxEvents
         /\ \A i \in DOMAIN logs[l].events :
              LET e == logs[l].events[i]
              IN  /\ e.kind \in {"message", "other", "reset", "compaction", "forked"}
                  /\ e.through \in 0..i /\ e.retained \subseteq 1..i

\* "Later writes to either side stay private to that side": whatever is written
\* to one log, resets and compactions included, no other log's history changes,
\* neither its descendants' nor its ancestors'.
WritesStayPrivate ==
    [][\A l \in DOMAIN logs : logs'[l] = logs[l] => History(logs', l) = History(logs, l)]_vars

\* A message appended to a log is the next one the model sees, and nothing the
\* model saw before changes, whatever resets, compactions and forks there were.
AppendExtends ==
    [][\A l \in DOMAIN logs :
         AppendMessage(l) =>
            History(logs', l) = Append(History(logs, l), <<l, Len(logs[l].events) + 1>>)]_vars

\* "Derivation can never emit both an original and a copy of it": no message is
\* projected twice, and messages keep the order in which they were logged.
ProjectedOnceInOrder ==
    \A l \in DOMAIN logs :
        LET h == History(logs, l)
        IN  \A i, j \in DOMAIN h :
              i < j /\ logs[h[i][1]].events[h[i][2]].kind = "message"
                    => h[i][1] < h[j][1] \/ (h[i][1] = h[j][1] /\ h[i][2] < h[j][2])

\* The history after this step is the summary and the last `keep` messages.
SummaryAndLast(l, keep) ==
    LET surface == EffectiveSurface(logs[l].events)
        kept == Min({keep, Len(surface)})
    IN  History(logs', l) =
          <<<<l, Len(logs[l].events) + 1>>>>
          \o [i \in 1..kept |-> <<l, surface[Len(surface) - kept + i]>>]

\* compact(): "a summary plus the last `keep` entries" of what was not reset.
CompactKeepsLast ==
    [][\A l \in DOMAIN logs, keep \in 0..MaxKeep :
         Compact(l, keep) => SummaryAndLast(l, keep)]_vars

\* The same of a compaction that is asked to keep no more than there is.
CompactKeepsWhatFits ==
    [][\A l \in DOMAIN logs, keep \in 0..MaxKeep :
         Compact(l, keep) /\ keep <= Len(EffectiveSurface(logs[l].events))
            => SummaryAndLast(l, keep)]_vars

=============================================================================
