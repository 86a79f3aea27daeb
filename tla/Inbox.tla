------------------------------- MODULE Inbox -------------------------------
(***************************************************************************)
(* The inbox of one agent instance (agent/inbox.py): two queues of input   *)
(* envelopes and a wake flag.  The envelope with identifier m is the m-th  *)
(* one sent; "sent" records how each was sent.  AgentLoop extends this     *)
(* module and conjoins its actions.                                        *)
(***************************************************************************)
EXTENDS Naturals, Sequences

CONSTANTS
    MaxSent,      \* bound on the number of envelopes ever sent
    TurnPolicy,   \* the driver's next_turn_policy: "ALL" or "ONE_AT_A_TIME"
    StepPolicy    \* the driver's next_step_policy

ASSUME InboxAssumption ==
    /\ MaxSent \in Nat
    /\ TurnPolicy \in {"ALL", "ONE_AT_A_TIME"}
    /\ StepPolicy \in {"ALL", "ONE_AT_A_TIME"}

VARIABLES
    queue,   \* queue[t]: the unclaimed envelopes of target t, oldest first
    wake,    \* the pending wake signal
    sent     \* sent[m]: the alias ("followup", "steer", "inject") m came by

inboxVars == <<queue, wake, sent>>

Targets == {"next_turn", "next_step"}

Aliases == {"followup", "steer", "inject"}

TargetOf(alias) == IF alias = "followup" THEN "next_turn" ELSE "next_step"

Policy(t) == IF t = "next_turn" THEN TurnPolicy ELSE StepPolicy

InboxInit ==
    /\ queue = [t \in Targets |-> <<>>]
    /\ wake = FALSE
    /\ sent = <<>>

-----------------------------------------------------------------------------

Send(alias, target, wakeup) ==
    /\ Len(sent) < MaxSent
    /\ sent' = Append(sent, alias)
    /\ queue' = [queue EXCEPT ![target] = Append(@, Len(sent) + 1)]
    /\ wake' = IF wakeup THEN TRUE ELSE wake

Followup == Send("followup", "next_turn", TRUE)

Steer == Send("steer", "next_step", TRUE)

Inject == Send("inject", "next_step", FALSE)

\* What claim() returns under the driver's policy, and what it leaves queued.
Batch(t) ==
    IF Policy(t) = "ALL" \/ queue[t] = <<>>
    THEN queue[t]
    ELSE <<Head(queue[t])>>

Rest(t) ==
    IF Policy(t) = "ALL" \/ queue[t] = <<>>
    THEN <<>>
    ELSE Tail(queue[t])

Claim(t) == queue' = [queue EXCEPT ![t] = Rest(t)]

\* Mutant: the batch is put back behind the envelopes sent meanwhile.
RollbackBehind(t, batch) == queue' = [queue EXCEPT ![t] = @ \o batch]

Rollback(t, batch) == queue' = [queue EXCEPT ![t] = batch \o @]

Clear(ts) == queue' = [t \in Targets |-> IF t \in ts THEN <<>> ELSE queue[t]]

TakeWake == wake' = FALSE

-----------------------------------------------------------------------------

InboxTypeOK ==
    /\ queue \in [Targets -> Seq(1..MaxSent)]
    /\ wake \in BOOLEAN
    /\ sent \in Seq(Aliases)

=============================================================================
