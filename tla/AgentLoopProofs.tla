-------------------------- MODULE AgentLoopProofs --------------------------
(***************************************************************************)
(* Invariance proofs for AgentLoop, for any set of callers and tool calls, *)
(* any bound on the input and both claim policies.  The safety properties  *)
(* are not inductive: IndInv adds what is true of a caller at each await   *)
(* (Local) and that only one caller is ever anywhere but "out" (Solo).     *)
(* The first part shows that every action preserves TypeOK; the second     *)
(* that a step of the one active caller preserves the rest (Mine), from    *)
(* which IndInv follows for all of them (OwnStep).  The third part is      *)
(* about the input of an instance: envelopes of one queue enter the        *)
(* transcript in the order they were sent, and none is lost or doubled.    *)
(* For one target, what was admitted comes before what a caller holds,     *)
(* which comes before what is queued (OrderInv); only the one active       *)
(* caller holds anything, and only until it is admitted (HandInv).  Every  *)
(* step of the driver moves envelopes in one of a few ways (Sends, Clears, *)
(* Takes, ...), each of which keeps that order.                            *)
(***************************************************************************)
EXTENDS AgentLoop, SequenceTheorems, FiniteSetTheorems, TLAPS

\* What is true of a caller at each of its awaits.
Local(c) ==
    /\ pc[c] = "user_start" => hand[c] # <<>>
    /\ resv[c] # "none" => pc[c] = "run_notify" /\ hand[c] \in Seq(1..MaxSent)
    /\ pc[c] = "err_turn_end" => run[c].stop \in {"error", "aborted"}
    /\ pc[c] \in {"err_turn_end", "turn_end", "prepare_next", "stopping",
                   "f_turn_end", "f_agent_end"} => turn = "closed"
    /\ pc[c] = "f_agent_end" => bracket = "closed"
    /\ pc[c] = "agent_end" \/ (pc[c] = "idle_notify" /\ ~run[c].exc)
          => bracket = "closed" /\ (endReason # "rejected" => turn = "closed")

Support == \A c \in Callers : Local(c)

\* At most one caller is anywhere but "out", the IDLE notification included.
Solo == \A c, d \in Callers : pc[c] # "out" /\ pc[d] # "out" => c = d

IndInv == TypeOK /\ Support /\ Solo /\ RunExclusive /\ VisibleStateOwned

\* The named sets of awaits are program counters.
LEMMA PCsMembers ==
  /\ "out" \in PCs /\ "run_notify" \in PCs /\ "idle_notify" \in PCs
  /\ AwaitPCs \subseteq PCs /\ ListenerPCs \subseteq PCs /\ FailurePCs \subseteq PCs
  /\ "stream" \in PCs /\ "tools" \in PCs
BY DEF PCs, NotifyPCs, AwaitPCs, ListenerPCs, FailurePCs

\* Moving a caller to an await keeps the type of pc.
LEMMA GotoType ==
  ASSUME pc \in [Callers -> PCs], NEW c \in Callers, NEW where \in PCs, Goto(c, where)
  PROVE  pc' \in [Callers -> PCs]
BY DEF Goto

\* An action that leaves the inbox alone keeps its type.
LEMMA InboxSame == InboxTypeOK /\ UNCHANGED inboxVars => InboxTypeOK'
BY DEF InboxTypeOK, inboxVars

\* What claim() returns and what it leaves behind are queues of envelopes.
LEMMA BatchType ==
  ASSUME InboxTypeOK, NEW t \in Targets
  PROVE  /\ Batch(t) \in Seq(1..MaxSent) 
         /\ Rest(t) \in Seq(1..MaxSent)
<1>1. queue[t] \in Seq(1..MaxSent)
  BY DEF InboxTypeOK
<1>2. CASE queue[t] = <<>> \/ Policy(t) = "ALL"
  <2>1. Batch(t) = queue[t] /\ Rest(t) = <<>>
    BY <1>2 DEF Batch, Rest
  <2> QED BY <1>1, <2>1
<1>3. CASE ~(queue[t] = <<>> \/ Policy(t) = "ALL")
  <2>1. Head(queue[t]) \in 1..MaxSent /\ Tail(queue[t]) \in Seq(1..MaxSent)
    BY <1>1, <1>3, HeadTailProperties
  <2>2. Batch(t) = <<Head(queue[t])>> /\ Rest(t) = Tail(queue[t])
    BY <1>3 DEF Batch, Rest
  <2> QED BY <2>1, <2>2
<1> QED BY <1>2, <1>3

\* claim() keeps the type of the inbox.
LEMMA InboxClaim ==
  ASSUME InboxTypeOK, NEW t \in Targets, Claim(t), UNCHANGED <<wake, sent>>
  PROVE  InboxTypeOK'
<1>1. Rest(t) \in Seq(1..MaxSent)
  BY BatchType
<1> QED BY <1>1 DEF InboxTypeOK, Claim

\* The elements of a sequence over S are in S.
LEMMA RangeType == ASSUME NEW S, NEW s \in Seq(S) PROVE Range(s) \subseteq S
BY LenProperties, ElementOfSeq DEF Range

\* clear() keeps the type of the inbox, and what it discards was sent.
LEMMA InboxClear ==
  ASSUME InboxTypeOK, NEW ts \in SUBSET Targets, Clear(ts), UNCHANGED <<wake, sent>>
  PROVE  /\ InboxTypeOK'
         /\ UNION {Range(queue[t]) : t \in ts} \subseteq 1..MaxSent
<1>1. \A t \in Targets : queue[t] \in Seq(1..MaxSent)
  BY DEF InboxTypeOK
<1>2. <<>> \in Seq(1..MaxSent)
  OBVIOUS
<1>3. queue' \in [Targets -> Seq(1..MaxSent)]
  BY <1>1, <1>2 DEF Clear
<1>4. InboxTypeOK'
  BY <1>3 DEF InboxTypeOK
<1>5. \A t \in ts : Range(queue[t]) \subseteq 1..MaxSent
  BY <1>1, RangeType
<1> QED BY <1>4, <1>5

\* A queue is a possible hand: a hand may also hold the caller's own message.
LEMMA Widen == \A s \in Seq(1..MaxSent) : s \in Seq(0..MaxSent)
<1>1. 1..MaxSent \subseteq 0..MaxSent
  BY InboxAssumption
<1> QED BY <1>1, SeqMonotonic

\* Discarding the hand of a failed run discards envelopes only.
LEMMA DropHandType ==
  ASSUME TypeOK, NEW c \in Callers, DropHand(c)
  PROVE  hand' \in [Callers -> Seq(0..MaxSent)] /\ dropped' \in SUBSET (1..MaxSent)
<1>1. hand' \in [Callers -> Seq(0..MaxSent)]
  BY DEF DropHand, TypeOK
<1>2. Range(hand[c]) \subseteq 0..MaxSent
  BY RangeType DEF TypeOK
<1>3. (0..MaxSent) \ {Own} \subseteq 1..MaxSent
  BY InboxAssumption DEF Own
<1> QED BY <1>1, <1>2, <1>3 DEF DropHand, TypeOK

\* The locals of a caller outside a run are well typed.
LEMMA NoRunType == NoRun \in RunRecords
BY DEF NoRun, RunRecords, Stops

\* So are the locals at the beginning of a run and of a turn.
LEMMA NoRunOpType == 
  ASSUME NEW o \in {"none", "prompt", "continue", "pump"}, NEW e \in BOOLEAN
  PROVE  /\ [NoRun EXCEPT !.op = o, !.exc = e] \in RunRecords
         /\ [NoRun EXCEPT !.op = o, !.skip = e] \in RunRecords
         /\ [NoRun EXCEPT !.op = o] \in RunRecords
         /\ [NoRun EXCEPT !.op = o, !.stage = "next"] \in RunRecords
<1> USE DEF NoRun, RunRecords, Stops
<1>1. [NoRun EXCEPT !.op = o, !.exc = e] \in RunRecords
  OBVIOUS
<1>2. [NoRun EXCEPT !.op = o, !.skip = e] \in RunRecords
  OBVIOUS
<1>3. [NoRun EXCEPT !.op = o] \in RunRecords
  OBVIOUS
<1>4. [NoRun EXCEPT !.op = o, !.stage = "next"] \in RunRecords
  OBVIOUS
<1> QED BY <1>1, <1>2, <1>3, <1>4

\* A caller's locals, and the entry point it came by, are well typed.
LEMMA RunOp == ASSUME TypeOK, NEW c \in Callers
  PROVE run[c] \in RunRecords /\ run[c].op \in {"none", "prompt", "continue", "pump"}
<1>1. run[c] \in RunRecords 
  BY DEF TypeOK
<1> QED BY <1>1 DEF RunRecords

\* Replacing one caller's locals keeps the type of run.
LEMMA RunType ==
  ASSUME TypeOK, NEW c \in Callers, NEW r \in RunRecords, run' = [run EXCEPT ![c] = r]
  PROVE run' \in [Callers -> RunRecords]
BY DEF TypeOK
\* Input, clearing, abort(), reset() and detached tools preserve types.
LEMMA TypeAnyone == ASSUME TypeOK, Anyone PROVE TypeOK'
<1>1. CASE SendInput
  <2>0. PICK alias \in Aliases, t \in Targets, w \in BOOLEAN : Send(alias, t, w)
    BY <1>1 DEF SendInput, Followup, Steer, Inject, Aliases, Targets
  <2>1. sent \in Seq(Aliases) /\ queue \in [Targets -> Seq(1..MaxSent)] /\ wake \in BOOLEAN
    BY DEF TypeOK, InboxTypeOK
  <2>2. Len(sent) + 1 \in 1..MaxSent
    BY <2>0, <2>1, InboxAssumption DEF Send
  <2>3. queue' \in [Targets -> Seq(1..MaxSent)]
    BY <2>0, <2>1, <2>2 DEF Send
  <2>4. wake' \in BOOLEAN
    BY <2>0, <2>1 DEF Send
  <2>5. sent' \in Seq(Aliases)
    BY <2>0, <2>1 DEF Send
  <2> QED BY <1>1, <2>3, <2>4, <2>5 DEF SendInput, TypeOK, InboxTypeOK, instanceVars, logVars, callerVars
<1>2. CASE ClearQueues
  BY <1>2, InboxClear DEF ClearQueues, TypeOK, instanceVars, logVars, callerVars
<1>3. CASE Abort
  BY <1>3, InboxSame DEF Abort, TypeOK, logVars, callerVars
<1>4. CASE Reset
  BY <1>4, InboxClear DEF Reset, TypeOK, callerVars
<1>5. CASE DetachedToolEnds
  BY <1>5, InboxSame DEF DetachedToolEnds, TypeOK, logVars, callerVars
<1> QED BY <1>1, <1>2, <1>3, <1>4, <1>5 DEF Anyone

\* Entering a run preserves types.
LEMMA EnterType ==
  ASSUME TypeOK, NEW c \in Callers, NEW o \in {"prompt", "continue", "pump"},
         NEW b \in Seq(0..MaxSent), NEW t \in Targets \cup {"none"}, NEW k \in BOOLEAN,
         Enter(c, o, b, t, k)
  PROVE  /\ pc' \in [Callers -> PCs]
         /\ run' \in [Callers -> RunRecords]
         /\ hand' \in [Callers -> Seq(0..MaxSent)]
         /\ resv' \in [Callers -> Targets \cup {"none"}]
         /\ status' \in {"idle", "running"} /\ signal' \in {"none", "live", "aborted"}
<1>1. pc' \in [Callers -> PCs]
  BY GotoType, PCsMembers DEF Enter, TypeOK
<1>2. [NoRun EXCEPT !.op = o, !.skip = k] \in RunRecords
  BY NoRunOpType
<1>3. run' \in [Callers -> RunRecords]
  BY <1>2, RunType DEF Enter
<1> QED BY <1>1, <1>3 DEF Enter, TypeOK

\* run_until_idle() claiming a batch preserves types.
LEMMA PumpClaimsType ==
  ASSUME TypeOK, NEW c \in Callers, PumpClaims(c), UNCHANGED <<sent, streaming, pending, detached, logVars, dropped>>
  PROVE  TypeOK'
<1>1. Batch("next_turn") \in Seq(0..MaxSent)
  BY BatchType, Widen DEF TypeOK, Targets
<1>2. InboxTypeOK'
  BY InboxClaim DEF PumpClaims, TypeOK, Targets
<1> QED BY <1>1, <1>2, EnterType DEF PumpClaims, TypeOK, logVars, Targets

\* run_until_idle() finding no input preserves types.
LEMMA PumpSettlesType ==
  ASSUME TypeOK, NEW c \in Callers, PumpSettles(c), UNCHANGED <<sent, streaming, pending, detached, logVars, dropped>>
  PROVE  TypeOK'
<1>1. InboxTypeOK'
  BY DEF PumpSettles, TakeWake, TypeOK, InboxTypeOK
<1>2. run' \in [Callers -> RunRecords]
  BY NoRunType, RunType DEF PumpSettles
<1>3. pc' \in [Callers -> PCs]
  BY GotoType, PCsMembers DEF PumpSettles, TypeOK
<1> QED BY <1>1, <1>2, <1>3 DEF PumpSettles, TypeOK, logVars

\* The three entry points preserve types.
LEMMA TypeEntry == ASSUME TypeOK, NEW c \in Callers, EntryPoint(c) PROVE TypeOK'
<1>1. CASE Prompt(c)
  <2>1. <<Own>> \in Seq(0..MaxSent)
    BY InboxAssumption DEF Own
  <2> QED BY <1>1, <2>1, EnterType, InboxSame DEF Prompt, TypeOK, logVars
<1>2. CASE Continue(c)
  <2>1. \A t \in Targets : Batch(t) \in Seq(0..MaxSent)
    BY BatchType, Widen DEF TypeOK
  <2>2. InboxTypeOK'
    BY <1>2, InboxClaim, InboxSame DEF Continue, TypeOK, Targets, inboxVars
  <2>3. \E b \in Seq(0..MaxSent), t \in Targets \cup {"none"}, k \in BOOLEAN : Enter(c, "continue", b, t, k)
    <3>1. CASE Enter(c, "continue", Batch("next_step"), "next_step", TRUE)
      BY <2>1, <3>1 DEF Targets
    <3>2. CASE Enter(c, "continue", Batch("next_turn"), "next_turn", FALSE)
      BY <2>1, <3>2 DEF Targets
    <3>3. CASE Enter(c, "continue", <<>>, "none", FALSE)
      <4>1. <<>> \in Seq(0..MaxSent) /\ "none" \in Targets \cup {"none"} /\ FALSE \in BOOLEAN
        OBVIOUS
      <4> QED BY <3>3, <4>1
    <3> QED BY <1>2, <3>1, <3>2, <3>3 DEF Continue
  <2> QED BY <1>2, <2>2, <2>3, EnterType DEF Continue, TypeOK, logVars
<1>3. CASE RunUntilIdle(c)
  BY <1>3, PumpClaimsType, PumpSettlesType DEF RunUntilIdle
<1>4. CASE RunUntilIdleRefused(c)
  BY <1>4, InboxClaim DEF RunUntilIdleRefused, TypeOK, Targets, instanceVars, logVars, callerVars
<1> QED BY <1>1, <1>2, <1>3, <1>4 DEF EntryPoint

\* The finally of _run_wrapped preserves types.
LEMMA FinishType ==
  ASSUME TypeOK, NEW c \in Callers, NEW e \in BOOLEAN, Finish(c, e),
         UNCHANGED <<inboxVars, detached, logVars, resv>>
  PROVE  TypeOK'
<1>1. pc' \in [Callers -> PCs]
  BY GotoType, PCsMembers DEF Finish, TypeOK
<1>2. [NoRun EXCEPT !.op = run[c].op, !.exc = e] \in RunRecords
  BY NoRunOpType, RunOp
<1>3. run' \in [Callers -> RunRecords]
  BY <1>2, RunType DEF Finish
<1>4. hand' \in [Callers -> Seq(0..MaxSent)] /\ dropped' \in SUBSET (1..MaxSent)
  BY DropHandType DEF Finish
<1> QED BY <1>1, <1>3, <1>4, InboxSame DEF Finish, TypeOK, logVars

\* Entering _settle_run_failure preserves types.
LEMMA FailType ==
  ASSUME TypeOK, NEW c \in Callers, Fail(c), detached' \in SUBSET Calls
  PROVE  TypeOK'
<1>1. pc' \in [Callers -> PCs]
  BY GotoType, PCsMembers DEF Fail, FailurePCs, TypeOK
<1>2. [NoRun EXCEPT !.op = run[c].op] \in RunRecords
  BY NoRunOpType, RunOp
<1>3. run' \in [Callers -> RunRecords]
  BY <1>2, RunType DEF Fail
<1>4. hand' \in [Callers -> Seq(0..MaxSent)] /\ dropped' \in SUBSET (1..MaxSent)
  BY DropHandType DEF Fail
<1> QED BY <1>1, <1>3, <1>4, InboxSame DEF Fail, TypeOK, logVars

\* What a pre-step listener leaves of a batch is a batch.
LEMMA KeptType ==
  ASSUME NEW S, NEW s \in Seq(S), NEW i \in DOMAIN s
  PROVE  /\ RemoveAt(s, i) \in Seq(S) /\ Len(RemoveAt(s, i)) = Len(s) - 1
         /\ \A j \in 1..(Len(s) - 1) : RemoveAt(s, i)[j] = s[IF j < i THEN j ELSE j + 1]
<1> DEFINE a == SubSeq(s, 1, i - 1)
           b == SubSeq(s, i + 1, Len(s))
<1>1. Len(s) \in Nat /\ i \in 1..Len(s) /\ \A j \in 1..Len(s) : s[j] \in S
  BY LenProperties, ElementOfSeq
<1>2. a \in Seq(S) /\ Len(a) = i - 1 /\ \A j \in 1..(i - 1) : a[j] = s[j]
  <2>1. \A j \in 1..(i - 1) : s[j] \in S
    BY <1>1
  <2> QED BY <1>1, <2>1, SubSeqProperties
<1>3. b \in Seq(S) /\ Len(b) = Len(s) - i /\ \A j \in 1..(Len(s) - i) : b[j] = s[i + j]
  <2>1. \A j \in (i + 1)..Len(s) : s[j] \in S
    BY <1>1
  <2> QED BY <1>1, <2>1, SubSeqProperties
<1> HIDE DEF a, b
<1>4. /\ a \o b \in Seq(S) /\ Len(a \o b) = Len(s) - 1
      /\ \A j \in 1..Len(a) : (a \o b)[j] = a[j]
      /\ \A j \in 1..Len(b) : (a \o b)[j + Len(a)] = b[j]
  BY <1>1, <1>2, <1>3, ConcatProperties
<1>5. ASSUME NEW j \in 1..(Len(s) - 1) PROVE (a \o b)[j] = s[IF j < i THEN j ELSE j + 1]
  <2>1. CASE j < i
    BY <1>1, <1>2, <1>4, <2>1
  <2>2. CASE ~(j < i)
    <3>0. /\ i \in Nat /\ j \in Nat /\ Len(s) \in Nat /\ 1 <= i /\ i <= Len(s)
          /\ i <= j /\ j <= Len(s) - 1 /\ Len(a) = i - 1 /\ Len(b) = Len(s) - i
      BY <1>1, <1>2, <1>3, <2>2
    <3>1. PICK n \in Nat : n = Len(s)
      BY <3>0
    <3>2. j - (i - 1) \in 1..(n - i) /\ j = (j - (i - 1)) + (i - 1) /\ i + (j - (i - 1)) = j + 1
      BY <3>0, <3>1
    <3>3. \A k \in 1..(n - i) : (a \o b)[k + (i - 1)] = b[k] /\ b[k] = s[i + k]
      BY <1>3, <1>4, <3>0, <3>1
    <3>4. (a \o b)[j] = b[j - (i - 1)] /\ b[j - (i - 1)] = s[j + 1]
      BY <3>2, <3>3
    <3> QED BY <2>2, <3>4
  <2> QED BY <2>1, <2>2
<1> QED BY <1>4, <1>5 DEF RemoveAt, a, b

\* Substituting messages, and every way a run is left by an exception, preserve
\* types.
LEMMA TypeIntervenes == ASSUME TypeOK, Support, NEW c \in Callers, Intervenes(c) PROVE TypeOK'
<1>1. CASE RunNotifyRaised(c)
  <2>1. resv[c] # "none" => hand[c] \in Seq(1..MaxSent) /\ resv[c] \in Targets
    BY DEF Support, Local, TypeOK
  <2>2. resv[c] # "none" => hand[c] \o queue[resv[c]] \in Seq(1..MaxSent)
    BY <2>1, ConcatProperties DEF TypeOK, InboxTypeOK
  <2>3. queue' \in [Targets -> Seq(1..MaxSent)]
    BY <1>1, <2>1, <2>2 DEF RunNotifyRaised, Rollback, TypeOK, InboxTypeOK
  <2>4. InboxTypeOK'
    BY <1>1, <2>3 DEF RunNotifyRaised, TypeOK, InboxTypeOK
  <2>5. run' \in [Callers -> RunRecords] /\ pc' \in [Callers -> PCs]
    BY <1>1, NoRunType, RunType, GotoType, PCsMembers DEF RunNotifyRaised, TypeOK
  <2> QED BY <1>1, <2>4, <2>5 DEF RunNotifyRaised, TypeOK, logVars
<1>2. CASE IdleNotifyRaised(c)
  <2>1. run' \in [Callers -> RunRecords] /\ pc' \in [Callers -> PCs]
    BY <1>2, NoRunType, RunType, GotoType, PCsMembers DEF IdleNotifyRaised, TypeOK
  <2> QED BY <1>2, <2>1, InboxSame DEF IdleNotifyRaised, TypeOK, logVars, instanceVars
<1>3. CASE ListenerRaises(c)
  BY <1>3, FailType DEF ListenerRaises, TypeOK
<1>4. CASE BatchRaises(c)
  BY <1>4, FailType DEF BatchRaises, TypeOK
<1>5. CASE RunEscapes(c)
  BY <1>5, FinishType DEF RunEscapes
<1>6. CASE PreStepSubstitutes(c)
  <2>1. PICK kept \in {<<Own>>} \cup {RemoveAt(hand[c], i) : i \in DOMAIN hand[c]} :
          /\ hand' = [hand EXCEPT ![c] = kept]
          /\ dropped' = dropped \cup (Range(hand[c]) \ (Range(kept) \cup {Own}))
    BY <1>6 DEF PreStepSubstitutes
  <2>2. hand[c] \in Seq(0..MaxSent) /\ <<Own>> \in Seq(0..MaxSent)
    BY InboxAssumption DEF TypeOK, Own
  <2>3. kept \in Seq(0..MaxSent)
    BY <2>2, KeptType
  <2>4. Range(hand[c]) \subseteq 0..MaxSent /\ (0..MaxSent) \ {Own} \subseteq 1..MaxSent
    BY <2>2, RangeType, InboxAssumption DEF Own
  <2>5. hand' \in [Callers -> Seq(0..MaxSent)] /\ dropped' \in SUBSET (1..MaxSent)
    BY <2>1, <2>3, <2>4 DEF TypeOK
  <2> QED BY <1>6, <2>5, InboxSame DEF PreStepSubstitutes, TypeOK, instanceVars, logVars
<1> QED BY <1>1, <1>2, <1>3, <1>4, <1>5, <1>6 DEF Intervenes

\* The updates of a caller's locals used by _run_step are well typed.
LEMMA RunEdits ==
  ASSUME TypeOK, NEW c \in Callers, NEW b \in BOOLEAN, NEW d \in BOOLEAN,
         NEW s \in Stops, NEW S \in SUBSET Calls, NEW T \in SUBSET Calls
  PROVE  /\ [run EXCEPT ![c].opened = b] \in [Callers -> RunRecords]
         /\ [run EXCEPT ![c].stage = "steering"] \in [Callers -> RunRecords]
         /\ [run EXCEPT ![c].todo = T] \in [Callers -> RunRecords]
         /\ [run EXCEPT ![c].calls = S] \in [Callers -> RunRecords]
         /\ [run[c] EXCEPT !.stop = s, !.calls = S, !.todo = T, !.opened = b] \in RunRecords
         /\ [run[c] EXCEPT !.more = b, !.term = d, !.calls = S, !.todo = T] \in RunRecords
         /\ [run[c] EXCEPT !.term = b, !.todo = T, !.calls = S] \in RunRecords
<1>0. run \in [Callers -> RunRecords] /\ run[c] \in RunRecords
  BY DEF TypeOK
<1>1. [run EXCEPT ![c].opened = b] \in [Callers -> RunRecords]
  BY <1>0 DEF RunRecords
<1>2. [run EXCEPT ![c].stage = "steering"] \in [Callers -> RunRecords]
  BY <1>0 DEF RunRecords
<1>3. [run EXCEPT ![c].todo = T] \in [Callers -> RunRecords]
  BY <1>0 DEF RunRecords
<1>4. [run EXCEPT ![c].calls = S] \in [Callers -> RunRecords]
  BY <1>0 DEF RunRecords
<1>5. [run[c] EXCEPT !.stop = s, !.calls = S, !.todo = T, !.opened = b] \in RunRecords
  BY <1>0 DEF RunRecords
<1>6. [run[c] EXCEPT !.more = b, !.term = d, !.calls = S, !.todo = T] \in RunRecords
  BY <1>0 DEF RunRecords
<1>7. [run[c] EXCEPT !.term = b, !.todo = T, !.calls = S] \in RunRecords
  BY <1>0 DEF RunRecords
<1> QED BY <1>1, <1>2, <1>3, <1>4, <1>5, <1>6, <1>7
\* Appending AGENT_END preserves types.
LEMMA EndRunType ==
  ASSUME TypeOK, NEW c \in Callers,
         NEW reason \in {"rejected", "stopped", "terminated", "completed", "error", "aborted"},
         EndRun(c, reason)
  PROVE  /\ pc' \in [Callers -> PCs] /\ streaming' \in BOOLEAN
         /\ bracket' \in {"open", "closed"}
         /\ endReason' \in {"none", "rejected", "stopped", "terminated", "completed",
                            "failed", "error", "aborted"}
<1>1. pc' \in [Callers -> PCs]
  BY GotoType, PCsMembers DEF EndRun, TypeOK, ListenerPCs
<1> QED BY <1>1 DEF EndRun

\* Appending TURN_END preserves types.
LEMMA EndTurnType ==
  ASSUME TypeOK, NEW c \in Callers, NEW where \in PCs, NEW b \in BOOLEAN, NEW d \in BOOLEAN,
         EndTurn(c, where, b, d)
  PROVE  /\ pc' \in [Callers -> PCs] /\ turn' \in {"open", "closed"}
         /\ run' \in [Callers -> RunRecords]
<1>1. [run[c] EXCEPT !.more = b, !.term = d, !.calls = {}, !.todo = {}] \in RunRecords
  BY RunEdits, "stop" \in Stops DEF Stops
<1>2. run' \in [Callers -> RunRecords]
  BY <1>1, RunType DEF EndTurn
<1> QED BY <1>2, GotoType DEF EndTurn, TypeOK

\* Admitting the next message, or going on to the request, preserves types.
LEMMA AdmitNextType ==
  ASSUME TypeOK, NEW c \in Callers, AdmitNext(c),
         UNCHANGED <<wake, sent, status, signal, pending, detached, admitted, role,
                     bracket, endReason, resv, dropped>>
  PROVE  TypeOK'
<1> USE PCsMembers DEF ListenerPCs
<1>1. CASE hand[c] # <<>>
  <2>1. pc' \in [Callers -> PCs] /\ streaming' \in BOOLEAN /\ UNCHANGED <<queue, hand, run, turn>>
    BY <1>1, GotoType DEF AdmitNext, TypeOK
  <2> QED BY <2>1 DEF TypeOK, InboxTypeOK
<1>2. CASE hand[c] = <<>> /\ run[c].stage = "initial" /\ ~run[c].skip /\ queue["next_step"] # <<>>
  <2>1. Claim("next_step") /\ hand' = [hand EXCEPT ![c] = Batch("next_step")]
        /\ run' = [run EXCEPT ![c].stage = "steering"] /\ Goto(c, "pre_step")
        /\ UNCHANGED <<turn, streaming>>
    BY <1>2 DEF AdmitNext, Admitted
  <2>2. InboxTypeOK'
    BY <2>1, InboxClaim DEF TypeOK, Targets
  <2>3. Batch("next_step") \in Seq(0..MaxSent)
    BY BatchType, Widen DEF TypeOK, Targets
  <2>4. hand' \in [Callers -> Seq(0..MaxSent)]
    BY <2>1, <2>3 DEF TypeOK
  <2>5. run' \in [Callers -> RunRecords]
    BY <2>1, RunEdits, "stop" \in Stops, {} \in SUBSET Calls DEF Stops
  <2>6. pc' \in [Callers -> PCs]
    BY <2>1, GotoType DEF TypeOK
  <2> QED BY <2>1, <2>2, <2>4, <2>5, <2>6 DEF TypeOK
<1>3. CASE hand[c] = <<>> /\ ~(run[c].stage = "initial" /\ ~run[c].skip /\ queue["next_step"] # <<>>)
  <2>1. StartStep(c) /\ UNCHANGED <<queue, hand, run, streaming>>
    BY <1>3 DEF AdmitNext, Admitted
  <2>2. pc' \in [Callers -> PCs] /\ turn' \in {"open", "closed"}
    BY <2>1, GotoType DEF StartStep, TypeOK
  <2> QED BY <2>1, <2>2 DEF TypeOK, InboxTypeOK
<1> QED BY <1>1, <1>2, <1>3

\* Claiming the input of the next turn preserves types.
LEMMA ClaimsNextType ==
  ASSUME TypeOK, NEW c \in Callers, NEW t \in Targets, ClaimsNext(c, t), UNCHANGED <<wake, sent>>
  PROVE  /\ InboxTypeOK' /\ pc' \in [Callers -> PCs]
         /\ hand' \in [Callers -> Seq(0..MaxSent)]
         /\ run' \in [Callers -> RunRecords]
<1>1. InboxTypeOK'
  BY InboxClaim DEF ClaimsNext, TypeOK
<1>2. Batch(t) \in Seq(0..MaxSent)
  BY BatchType, Widen DEF TypeOK
<1>3. hand' \in [Callers -> Seq(0..MaxSent)]
  BY <1>2 DEF ClaimsNext, TypeOK
<1>4. [NoRun EXCEPT !.op = run[c].op, !.stage = "next"] \in RunRecords
  BY NoRunOpType, RunOp
<1>5. run' \in [Callers -> RunRecords]
  BY <1>4, RunType DEF ClaimsNext
<1>6. pc' \in [Callers -> PCs]
  BY GotoType, PCsMembers DEF ClaimsNext, TypeOK, ListenerPCs
<1> QED BY <1>1, <1>3, <1>5, <1>6

\* The steps that only move a caller and write the log preserve types.
LEMMA TypeMoves ==
  ASSUME TypeOK, NEW c \in Callers,
         \/ RunNotified(c) \/ AgentStarted(c) \/ InitialTurnStarted(c) \/ TurnStarted(c)
         \/ ChunkDispatched(c) \/ LateStartDispatched(c) \/ ToolEnds(c) \/ TurnEnded(c)
         \/ NextTurnPrepared(c) \/ FailureStarted(c) \/ FailureEnded(c) \/ FailureTurnEnded(c)
  PROVE  TypeOK'
<1> USE GotoType, PCsMembers, InboxSame DEF TypeOK, ListenerPCs, FailurePCs, instanceVars, logVars
<1>1. CASE RunNotified(c)
  BY <1>1 DEF RunNotified
<1>2. CASE AgentStarted(c)
  BY <1>2 DEF AgentStarted
<1>3. CASE InitialTurnStarted(c)
  BY <1>3 DEF InitialTurnStarted
<1>4. CASE TurnStarted(c)
  BY <1>4 DEF TurnStarted
<1>5. CASE ChunkDispatched(c)
  BY <1>5 DEF ChunkDispatched
<1>6. CASE LateStartDispatched(c)
  BY <1>6 DEF LateStartDispatched, AppendReply
<1>7. CASE ToolEnds(c)
  BY <1>7 DEF ToolEnds, callerVars
<1>8. CASE TurnEnded(c)
  BY <1>8 DEF TurnEnded
<1>9. CASE NextTurnPrepared(c)
  BY <1>9 DEF NextTurnPrepared
<1>10. CASE FailureStarted(c)
  BY <1>10 DEF FailureStarted
<1>11. CASE FailureEnded(c)
  BY <1>11 DEF FailureEnded
<1>12. CASE FailureTurnEnded(c)
  BY <1>12 DEF FailureTurnEnded
<1> QED BY <1>1, <1>2, <1>3, <1>4, <1>5, <1>6, <1>7, <1>8, <1>9, <1>10, <1>11, <1>12

\* The steps that stream a reply and run its tools preserve types.
LEMMA TypeReply ==
  ASSUME TypeOK, NEW c \in Callers,
         \/ ContextTransformed(c) \/ StreamChunk(c) \/ StreamEnds(c) \/ MessageEnded(c)
         \/ ToolStarts(c) \/ BatchEnds(c) \/ ResultStarted(c) \/ ResultEnded(c)
  PROVE  TypeOK'
<1>0. "stop" \in Stops /\ {} \in SUBSET Calls /\ TRUE \in BOOLEAN /\ FALSE \in BOOLEAN
  BY DEF Stops
<1>r. /\ run[c].calls \in SUBSET Calls /\ run[c].todo \in SUBSET Calls
      /\ run[c].term \in BOOLEAN
  BY RunOp DEF RunRecords
<1>p. {"stream", "msg_start", "msg_update", "msg_start_late", "msg_end", "tools", "err_turn_end",
       "turn_end", "result_start", "result_end"} \subseteq PCs
  BY PCsMembers DEF ListenerPCs
<1>1. CASE ContextTransformed(c)
  <2>1. [NoRun EXCEPT !.op = run[c].op] \in RunRecords
    BY NoRunOpType, RunOp
  <2>2. run' \in [Callers -> RunRecords] /\ pc' \in [Callers -> PCs]
    BY <1>1, <1>p, <2>1, RunType, GotoType DEF ContextTransformed, TypeOK
  <2> QED BY <1>1, <2>2, InboxSame DEF ContextTransformed, TypeOK, instanceVars, logVars
<1>2. CASE StreamChunk(c)
  <2>1. run' \in [Callers -> RunRecords]
    <3>1. CASE run' = [run EXCEPT ![c].opened = TRUE]
      BY <3>1, <1>0, RunEdits
    <3>2. CASE UNCHANGED run
      BY <3>2 DEF TypeOK
    <3> QED BY <1>2, <3>1, <3>2 DEF StreamChunk
  <2>2. pc' \in [Callers -> PCs]
    BY <1>2, <1>p, GotoType DEF StreamChunk, TypeOK
  <2> QED BY <1>2, <2>1, <2>2, InboxSame DEF StreamChunk, TypeOK, logVars
<1>3. CASE StreamEnds(c)
  <2>1. PICK stop \in Stops, calls \in SUBSET Calls :
          run' = [run EXCEPT ![c] = [run[c] EXCEPT !.stop = stop, !.calls = calls,
                                                   !.todo = calls, !.opened = FALSE]]
    BY <1>3, RunOp DEF StreamEnds, TypeOK
  <2>2. [run[c] EXCEPT !.stop = stop, !.calls = calls, !.todo = calls, !.opened = FALSE]
           \in RunRecords
    BY <1>0, RunEdits
  <2>3. run' \in [Callers -> RunRecords]
    BY <2>1, <2>2, RunType
  <2>4. pc' \in [Callers -> PCs] /\ streaming' \in BOOLEAN
        /\ role' \in {"none", "user", "assistant", "tool_result"}
    BY <1>3, <1>p, GotoType DEF StreamEnds, AppendReply, TypeOK
  <2> QED BY <1>3, <2>3, <2>4, InboxSame DEF StreamEnds, TypeOK
<1>4. CASE MessageEnded(c)
  <2>1. /\ pc' \in [Callers -> PCs] /\ turn' \in {"open", "closed"}
        /\ run' \in [Callers -> RunRecords]
    <3>1. CASE EndTurn(c, "err_turn_end", FALSE, FALSE) \/ EndTurn(c, "turn_end", FALSE, FALSE)
      BY <3>1, <1>p, EndTurnType
    <3>2. CASE Goto(c, "tools") /\ UNCHANGED <<run, turn>>
      BY <3>2, <1>p, GotoType DEF TypeOK
    <3> QED BY <1>4, <3>1, <3>2 DEF MessageEnded
  <2> QED BY <1>4, <2>1, InboxSame DEF MessageEnded, TypeOK, instanceVars
<1>5. CASE ToolStarts(c)
  <2>1. PICK t \in run[c].todo : pending' = pending \cup {t}
                                 /\ run' = [run EXCEPT ![c].todo = run[c].todo \ {t}]
    BY <1>5 DEF ToolStarts
  <2>2. run' \in [Callers -> RunRecords]
    BY <2>1, <1>0, <1>r, RunEdits
  <2>3. pending' \in SUBSET Calls
    BY <2>1, <1>r DEF TypeOK
  <2> QED BY <1>5, <2>2, <2>3, InboxSame DEF ToolStarts, TypeOK, logVars
<1>6. CASE BatchEnds(c)
  <2>1. PICK b \in BOOLEAN :
          run' = [run EXCEPT ![c] = [run[c] EXCEPT !.term = b, !.todo = {},
                                                   !.calls = run[c].calls \ run[c].todo]]
    BY <1>6 DEF BatchEnds
  <2>2. [run[c] EXCEPT !.term = b, !.todo = {}, !.calls = run[c].calls \ run[c].todo] \in RunRecords
    BY <1>0, <1>r, RunEdits
  <2>3. run' \in [Callers -> RunRecords] /\ pc' \in [Callers -> PCs]
    BY <1>6, <1>p, <2>1, <2>2, RunType, GotoType DEF BatchEnds, TypeOK
  <2> QED BY <1>6, <2>3, InboxSame DEF BatchEnds, TypeOK, logVars
<1>7. CASE ResultStarted(c)
  <2>1. PICK t \in run[c].calls : run' = [run EXCEPT ![c].calls = run[c].calls \ {t}]
    BY <1>7 DEF ResultStarted
  <2>2. run' \in [Callers -> RunRecords]
    BY <2>1, <1>0, <1>r, RunEdits
  <2>3. pc' \in [Callers -> PCs]
    BY <1>7, <1>p, GotoType DEF ResultStarted, TypeOK
  <2> QED BY <1>7, <2>2, <2>3, InboxSame DEF ResultStarted, TypeOK
<1>8. CASE ResultEnded(c)
  <2>1. /\ pc' \in [Callers -> PCs] /\ turn' \in {"open", "closed"}
        /\ run' \in [Callers -> RunRecords] /\ streaming' \in BOOLEAN
    <3>1. CASE EndTurn(c, "turn_end", ~run[c].term, run[c].term) /\ UNCHANGED streaming
      BY <3>1, <1>p, <1>r, EndTurnType DEF TypeOK
    <3>2. CASE streaming' = TRUE /\ Goto(c, "result_start") /\ UNCHANGED <<run, turn>>
      BY <3>2, <1>p, GotoType DEF TypeOK
    <3> QED BY <1>8, <3>1, <3>2 DEF ResultEnded
  <2> QED BY <1>8, <2>1, InboxSame DEF ResultEnded, TypeOK
<1> QED BY <1>1, <1>2, <1>3, <1>4, <1>5, <1>6, <1>7, <1>8

\* The steps that move input, and the ends of a run, preserve types.
LEMMA TypeInput ==
  ASSUME TypeOK, Support, NEW c \in Callers,
         \/ PreStepEnters(c) \/ PreStepRejects(c) \/ UserMessageStarted(c) \/ UserMessageEnded(c)
         \/ ErrorTurnEnded(c) \/ TurnStops(c) \/ TurnContinues(c)
         \/ AgentEnded(c) \/ IdleNotified(c) \/ FailureAgentEnded(c)
  PROVE  TypeOK'
<1>1. CASE PreStepEnters(c) \/ UserMessageEnded(c)
  BY <1>1, AdmitNextType DEF PreStepEnters, UserMessageEnded
<1>2. CASE PreStepRejects(c)
  BY <1>2, DropHandType, EndRunType, InboxSame DEF PreStepRejects, TypeOK
<1>3. CASE UserMessageStarted(c)
  <2>1. hand[c] \in Seq(0..MaxSent) /\ hand[c] # <<>>
    BY <1>3 DEF UserMessageStarted, At, Support, Local, TypeOK
  <2>2. Head(hand[c]) \in 0..MaxSent /\ Tail(hand[c]) \in Seq(0..MaxSent)
    BY <2>1, HeadTailProperties
  <2>3. Head(hand[c]) # Own => Head(hand[c]) \in 1..MaxSent
    BY <2>2, InboxAssumption DEF Own
  <2>4. admitted' \in Seq(1..MaxSent)
    <3>1. CASE Head(hand[c]) = Own
      BY <1>3, <3>1 DEF UserMessageStarted, TypeOK
    <3>2. CASE Head(hand[c]) # Own
      <4>1. admitted' = Append(admitted, Head(hand[c])) /\ admitted \in Seq(1..MaxSent)
        BY <1>3, <3>2 DEF UserMessageStarted, TypeOK
      <4> QED BY <2>3, <3>2, <4>1
    <3> QED BY <3>1, <3>2
  <2>5. hand' \in [Callers -> Seq(0..MaxSent)]
    BY <1>3, <2>2 DEF UserMessageStarted, TypeOK
  <2>6. pc' \in [Callers -> PCs]
    BY <1>3, GotoType, PCsMembers DEF UserMessageStarted, TypeOK, ListenerPCs
  <2> QED BY <1>3, <2>4, <2>5, <2>6, InboxSame DEF UserMessageStarted, TypeOK
<1>4. CASE ErrorTurnEnded(c)
  <2>1. run[c].stop \in {"error", "aborted"}
    BY <1>4 DEF ErrorTurnEnded, At, Support, Local
  <2> QED BY <1>4, <2>1, EndRunType, InboxSame DEF ErrorTurnEnded, TypeOK
<1>5. CASE TurnStops(c)
  BY <1>5, EndRunType, InboxSame DEF TurnStops, TypeOK
<1>6. CASE TurnContinues(c)
  <2>1. CASE \E t \in Targets : ClaimsNext(c, t)
    <3>1. InboxTypeOK' /\ pc' \in [Callers -> PCs] /\ hand' \in [Callers -> Seq(0..MaxSent)]
          /\ run' \in [Callers -> RunRecords]
      BY <1>6, <2>1, ClaimsNextType DEF TurnContinues
    <3>2. UNCHANGED <<streaming, bracket, endReason>>
      BY <2>1 DEF ClaimsNext
    <3> QED BY <1>6, <3>1, <3>2 DEF TurnContinues, TypeOK
  <2>2. CASE EndRun(c, IF run[c].term THEN "terminated" ELSE "completed")
             /\ UNCHANGED <<queue, hand, run>>
    <3>1. PICK reason \in {"terminated", "completed"} : EndRun(c, reason)
      BY <2>2
    <3> QED BY <1>6, <2>2, <3>1, EndRunType DEF TurnContinues, TypeOK, InboxTypeOK
  <2> QED BY <1>6, <2>1, <2>2 DEF TurnContinues, Targets
<1>7. CASE AgentEnded(c) \/ FailureAgentEnded(c)
  BY <1>7, FinishType DEF AgentEnded, FailureAgentEnded
<1>8. CASE IdleNotified(c)
  <2>1. CASE PumpClaims(c) \/ PumpSettles(c)
    BY <1>8, <2>1, PumpClaimsType, PumpSettlesType DEF IdleNotified
  <2>2. CASE /\ Goto(c, "out") /\ run' = [run EXCEPT ![c] = NoRun]
             /\ UNCHANGED <<queue, wake, hand, resv, status, signal>>
    <3>1. run' \in [Callers -> RunRecords] /\ pc' \in [Callers -> PCs]
      BY <2>2, NoRunType, RunType, GotoType, PCsMembers DEF TypeOK
    <3> QED BY <1>8, <2>2, <3>1 DEF IdleNotified, TypeOK, InboxTypeOK, logVars
  <2> QED BY <1>8, <2>1, <2>2 DEF IdleNotified
<1> QED BY <1>1, <1>2, <1>3, <1>4, <1>5, <1>6, <1>7, <1>8

\* Every step of a run preserves types.
LEMMA TypeRunStep == ASSUME TypeOK, Support, NEW c \in Callers, RunStep(c) PROVE TypeOK'
BY TypeMoves, TypeReply, TypeInput DEF RunStep
-----------------------------------------------------------------------------

Others(c) == \A d \in Callers \ {c} : pc[d] = "out"

\* What the invariants say of the only caller that is not "out".
Mine(c) ==
    /\ status = "running" <=> InRun(c)
    /\ signal = "none" <=> status = "idle"
    /\ streaming => pc[c] \in {"user_start", "stream", "msg_start", "msg_update",
                               "msg_start_late", "result_start", "f_start"}
    /\ pending # {} => pc[c] \in FailurePCs \cup {"tools"}
    /\ Local(c)

\* A step of caller c leaves the other callers where they are.
Frame(c) == \A d \in Callers \ {c} : pc'[d] = pc[d] /\ resv'[d] = resv[d]

\* A caller inside a run, or one entering an idle instance, is the only one.
LEMMA Alone ==
  ASSUME IndInv, NEW c \in Callers,
         pc[c] # "out" \/ (status = "idle" /\ Quiet)
  PROVE  Others(c)
<1>1. CASE pc[c] # "out"
  BY <1>1 DEF IndInv, Solo, Others
<1>2. CASE status = "idle" /\ Quiet
  BY <1>2 DEF IndInv, TypeOK, RunExclusive, InRun, Quiet, PCs, NotifyPCs, Others
<1> QED BY <1>1, <1>2

\* For the only active caller the invariants say what Mine says.
LEMMA Narrow ==
  ASSUME IndInv, NEW c \in Callers, Others(c)
  PROVE  Mine(c) /\ \A d \in Callers \ {c} : resv[d] = "none"
<1>0. \A d \in Callers \ {c} : ~InRun(d) /\ pc[d] \notin FailurePCs \cup {"tools"}
  BY DEF Others, InRun, AwaitPCs, ListenerPCs, FailurePCs
<1>1. status = "running" <=> InRun(c)
  BY <1>0 DEF IndInv, RunExclusive
<1>2. Local(c) /\ \A d \in Callers \ {c} : resv[d] = "none"
  BY DEF IndInv, Support, Local, Others
<1>3. streaming => pc[c] \in {"user_start", "stream", "msg_start", "msg_update",
                               "msg_start_late", "result_start", "f_start"}
  BY DEF IndInv, VisibleStateOwned, Others
<1>4. pending # {} => pc[c] \in FailurePCs \cup {"tools"}
  BY <1>0 DEF IndInv, VisibleStateOwned
<1> QED BY <1>1, <1>2, <1>3, <1>4 DEF Mine, IndInv, RunExclusive

\* And, after a step, Mine for that caller gives back the invariants for all.
LEMMA WidenStep ==
  ASSUME NEW c \in Callers, Others(c)', Mine(c)', TypeOK',
         \A d \in Callers \ {c} : resv'[d] = "none"
  PROVE  IndInv'
<1>0. \A d \in Callers \ {c} : ~InRun(d)'
  BY DEF Others, InRun, AwaitPCs, ListenerPCs, FailurePCs
<1>1. Solo'
  BY DEF Solo, Others
<1>2. RunExclusive'
  BY <1>0 DEF RunExclusive, Mine
<1>3. VisibleStateOwned'
  BY DEF VisibleStateOwned, Mine
<1>4. \A d \in Callers \ {c} : Local(d)'
  BY DEF Others, Local
<1>5. Support'
  BY <1>4 DEF Support, Mine
<1> QED BY <1>1, <1>2, <1>3, <1>5 DEF IndInv

\* So a step of the active caller need only preserve Mine.
LEMMA OwnStep ==
  ASSUME IndInv, TypeOK', NEW c \in Callers, Others(c), Frame(c), Mine(c)'
  PROVE  IndInv'
<1>1. \A d \in Callers \ {c} : resv'[d] = "none"
  BY Narrow DEF Frame
<1>2. Others(c)'
  BY DEF Others, Frame
<1> QED BY <1>1, <1>2, WidenStep

\* What Goto does to the program counters.
LEMMA Moves ==
  ASSUME TypeOK, NEW c \in Callers, NEW where \in PCs, Goto(c, where)
  PROVE  pc'[c] = where /\ \A d \in Callers \ {c} : pc'[d] = pc[d]
BY DEF Goto, TypeOK

\* Entering a run preserves Mine.
LEMMA MineEnter ==
  ASSUME TypeOK, NEW c \in Callers, Mine(c), NEW o, NEW b, NEW t, NEW k,
         Enter(c, o, b, t, k), b \in Seq(1..MaxSent) \/ t = "none",
         pc[c] \in {"out", "idle_notify"},
         UNCHANGED <<streaming, pending, bracket, turn, endReason>>
  PROVE  Mine(c)' /\ Frame(c)
<1>1. pc'[c] = "run_notify" /\ \A d \in Callers \ {c} : pc'[d] = pc[d]
  BY Moves, PCsMembers DEF Enter
<1>2. resv'[c] = t /\ hand'[c] = b /\ \A d \in Callers \ {c} : resv'[d] = resv[d]
  BY DEF Enter, TypeOK
<1>3. status' = "running" /\ signal' = "live"
  BY DEF Enter
<1>4. Local(c)'
  BY <1>1, <1>2 DEF Local
<1>5. ~streaming /\ pending = {}
  BY DEF Mine, FailurePCs
<1>6. InRun(c)'
  BY <1>1 DEF InRun
<1> QED BY <1>1, <1>2, <1>3, <1>4, <1>5, <1>6 DEF Mine, Frame
\* The awaits at which streaming_message may be set.
Showing == {"user_start", "stream", "msg_start", "msg_update", "msg_start_late",
            "result_start", "f_start"}

\* A step from one await of the run to another preserves Mine.
LEMMA MineMove ==
  ASSUME TypeOK, NEW c \in Callers, Mine(c), InRun(c), NEW w \in AwaitPCs, Goto(c, w),
         UNCHANGED <<status, signal>>,
         resv' = [resv EXCEPT ![c] = "none"] \/ (UNCHANGED resv /\ pc[c] # "run_notify"),
         streaming' => w \in Showing,
         pending' # {} => w \in FailurePCs \cup {"tools"},
         w = "user_start" => hand'[c] # <<>>,
         w = "err_turn_end" => run'[c].stop \in {"error", "aborted"},
         w \in {"err_turn_end", "turn_end", "prepare_next", "stopping",
                "f_turn_end", "f_agent_end"} => turn' = "closed",
         w = "f_agent_end" => bracket' = "closed",
         w = "agent_end" => bracket' = "closed" /\ (endReason' # "rejected" => turn' = "closed")
  PROVE  Mine(c)' /\ Frame(c)
<1>1. pc'[c] = w /\ \A d \in Callers \ {c} : pc'[d] = pc[d]
  BY Moves DEF PCs
<1>2. resv'[c] = "none" /\ \A d \in Callers \ {c} : resv'[d] = resv[d]
  BY DEF TypeOK, Mine, Local
<1>3. w # "idle_notify" /\ w # "run_notify"
  BY DEF AwaitPCs, ListenerPCs, FailurePCs
<1>4. Local(c)'
  BY <1>1, <1>2, <1>3 DEF Local
<1>5. InRun(c)'
  BY <1>1 DEF InRun
<1>6. streaming' => pc'[c] \in Showing
  BY <1>1
<1> QED BY <1>1, <1>2, <1>4, <1>5, <1>6 DEF Mine, Frame, Showing

\* At an await that shows nothing, nothing is shown.
LEMMA Dark ==
  ASSUME TypeOK, NEW c \in Callers, Mine(c)
  PROVE  /\ pc[c] \notin Showing => streaming = FALSE
         /\ pc[c] \notin FailurePCs \cup {"tools"} => pending = {}
BY DEF Mine, Showing, TypeOK

\* The steps that only move and write the log preserve Mine.
LEMMA MineMoves ==
  ASSUME TypeOK, NEW c \in Callers, Mine(c),
         \/ RunNotified(c) \/ AgentStarted(c) \/ InitialTurnStarted(c) \/ TurnStarted(c)
         \/ ChunkDispatched(c) \/ LateStartDispatched(c) \/ TurnEnded(c)
         \/ NextTurnPrepared(c) \/ FailureStarted(c) \/ FailureEnded(c) \/ FailureTurnEnded(c)
  PROVE  Mine(c)' /\ Frame(c)
<1>0. pc[c] \in AwaitPCs \cup {"run_notify"} => InRun(c)
  BY DEF InRun
<1> USE <1>0, MineMove, Dark DEF AwaitPCs, ListenerPCs, FailurePCs, Showing, instanceVars, logVars
<1>1. CASE RunNotified(c)
  BY <1>1 DEF RunNotified
<1>2. CASE AgentStarted(c)
  BY <1>2 DEF AgentStarted, At
<1>3. CASE InitialTurnStarted(c)
  BY <1>3 DEF InitialTurnStarted, At
<1>4. CASE TurnStarted(c)
  BY <1>4 DEF TurnStarted, At
<1>5. CASE ChunkDispatched(c)
  BY <1>5 DEF ChunkDispatched, At
<1>6. CASE LateStartDispatched(c)
  BY <1>6 DEF LateStartDispatched, AppendReply, At
<1>8. CASE TurnEnded(c)
  BY <1>8 DEF TurnEnded, At, Mine, Local
<1>9. CASE NextTurnPrepared(c)
  BY <1>9 DEF NextTurnPrepared, At, Mine, Local
<1>10. CASE FailureStarted(c)
  BY <1>10 DEF FailureStarted, At
<1>11. CASE FailureEnded(c)
  BY <1>11 DEF FailureEnded, At
<1>12. CASE FailureTurnEnded(c)
  BY <1>12 DEF FailureTurnEnded, At, Mine, Local
<1> QED BY <1>1, <1>2, <1>3, <1>4, <1>5, <1>6, <1>8, <1>9, <1>10, <1>11, <1>12
\* The tool actions stay at the "tools" await.
LEMMA MineTools ==
  ASSUME TypeOK, NEW c \in Callers, Mine(c), ToolStarts(c) \/ ToolEnds(c)
  PROVE  Mine(c)' /\ Frame(c)
<1>1. pc[c] = "tools" /\ UNCHANGED <<pc, resv, hand, status, signal, streaming,
                                     turn, bracket, endReason>>
  BY DEF ToolStarts, ToolEnds, At, callerVars, logVars
<1>2. Local(c)'
  BY <1>1 DEF Mine, Local
<1>3. InRun(c)' = InRun(c)
  BY <1>1 DEF InRun
<1> QED BY <1>1, <1>2, <1>3 DEF Mine, Frame

\* Streaming a reply and settling its tool results preserve Mine.
LEMMA MineReply ==
  ASSUME TypeOK, NEW c \in Callers, Mine(c),
         \/ ContextTransformed(c) \/ StreamChunk(c) \/ StreamEnds(c) \/ MessageEnded(c)
         \/ BatchEnds(c) \/ ResultStarted(c) \/ ResultEnded(c)
  PROVE  Mine(c)' /\ Frame(c)
<1>0. pc[c] \in AwaitPCs => InRun(c)
  BY DEF InRun
<1> USE <1>0, MineMove, Dark DEF AwaitPCs, ListenerPCs, FailurePCs, Showing, instanceVars, logVars
<1>1. CASE ContextTransformed(c)
  BY <1>1 DEF ContextTransformed, At
<1>2. CASE StreamChunk(c)
  BY <1>2 DEF StreamChunk, At
<1>3. CASE StreamEnds(c)
  BY <1>3 DEF StreamEnds, AppendReply, At
<1>4. CASE MessageEnded(c)
  <2>1. CASE run[c].stop \in {"error", "aborted"} /\ EndTurn(c, "err_turn_end", FALSE, FALSE)
    <3>1. run'[c].stop = run[c].stop
      BY <2>1 DEF EndTurn, TypeOK, RunRecords
    <3> QED BY <1>4, <2>1, <3>1 DEF MessageEnded, EndTurn, At
  <2>2. CASE EndTurn(c, "turn_end", FALSE, FALSE)
    BY <1>4, <2>2 DEF MessageEnded, EndTurn, At
  <2>3. CASE Goto(c, "tools") /\ UNCHANGED <<run, turn>>
    BY <1>4, <2>3 DEF MessageEnded, At
  <2> QED BY <1>4, <2>1, <2>2, <2>3 DEF MessageEnded
<1>6. CASE BatchEnds(c)
  BY <1>6 DEF BatchEnds, At
<1>7. CASE ResultStarted(c)
  BY <1>7 DEF ResultStarted, At
<1>8. CASE ResultEnded(c)
  <2>1. CASE Goto(c, "result_start")
    BY <1>8, <2>1 DEF ResultEnded, EndTurn, At
  <2>2. CASE EndTurn(c, "turn_end", ~run[c].term, run[c].term) /\ UNCHANGED streaming
    BY <1>8, <2>2 DEF ResultEnded, EndTurn, At
  <2> QED BY <1>8, <2>1, <2>2 DEF ResultEnded
<1> QED BY <1>1, <1>2, <1>3, <1>4, <1>6, <1>7, <1>8

\* Admitting input preserves Mine.
LEMMA MineAdmits ==
  ASSUME TypeOK, NEW c \in Callers, Mine(c), pc[c] \in {"pre_step", "user_end"}, AdmitNext(c),
         UNCHANGED <<status, signal, pending, bracket, endReason, resv>>
  PROVE  Mine(c)' /\ Frame(c)
<1>0. InRun(c) /\ streaming = FALSE /\ pending = {}
  BY Dark DEF InRun, AwaitPCs, ListenerPCs, FailurePCs, Showing
<1> USE <1>0, MineMove DEF AwaitPCs, ListenerPCs, FailurePCs, Showing
<1>1. CASE hand[c] # <<>>
  <2>1. Goto(c, "user_start") /\ hand' = hand
    BY <1>1 DEF AdmitNext
  <2> QED BY <1>1, <2>1
<1>2. CASE hand[c] = <<>>
  BY <1>2 DEF AdmitNext, Admitted, StartStep
<1> QED BY <1>1, <1>2

\* The finally of _run_wrapped preserves Mine, if a returning run is closed.
LEMMA MineFinish ==
  ASSUME TypeOK, NEW c \in Callers, NEW e \in BOOLEAN, Mine(c), Finish(c, e),
         pc[c] \in AwaitPCs, UNCHANGED <<logVars, resv>>,
         ~e => bracket = "closed" /\ (endReason # "rejected" => turn = "closed")
  PROVE  Mine(c)' /\ Frame(c)
<1>1. pc'[c] = "idle_notify" /\ \A d \in Callers \ {c} : pc'[d] = pc[d]
  BY Moves, PCsMembers DEF Finish
<1>2. status' = "idle" /\ signal' = "none" /\ streaming' = FALSE /\ pending' = {}
  BY DEF Finish
<1>3. run'[c].exc = e
  BY DEF Finish, TypeOK, NoRun
<1>4. resv'[c] = "none" /\ \A d \in Callers \ {c} : resv'[d] = resv[d]
  BY DEF Mine, Local, AwaitPCs, ListenerPCs, FailurePCs
<1>5. Local(c)'
  BY <1>1, <1>3, <1>4 DEF Local, logVars
<1>6. ~InRun(c)'
  BY <1>1 DEF InRun, AwaitPCs, ListenerPCs, FailurePCs
<1> QED BY <1>1, <1>2, <1>4, <1>5, <1>6 DEF Mine, Frame

\* Entering _settle_run_failure preserves Mine.
LEMMA MineFail ==
  ASSUME TypeOK, NEW c \in Callers, Mine(c), Fail(c), pc[c] \in AwaitPCs
  PROVE  Mine(c)' /\ Frame(c)
BY MineMove DEF Fail, InRun, AwaitPCs, ListenerPCs, FailurePCs, Showing

\* A call that returns or raises preserves Mine.
LEMMA MineOut ==
  ASSUME TypeOK, NEW c \in Callers, Mine(c), Goto(c, "out"), status' = "idle", signal' = "none",
         streaming = FALSE, pending = {}, UNCHANGED <<streaming, pending>>,
         resv' = [resv EXCEPT ![c] = "none"] \/ (UNCHANGED resv /\ pc[c] # "run_notify")
  PROVE  Mine(c)' /\ Frame(c)
<1>1. pc'[c] = "out" /\ \A d \in Callers \ {c} : pc'[d] = pc[d]
  BY Moves, PCsMembers
<1>2. resv'[c] = "none" /\ \A d \in Callers \ {c} : resv'[d] = resv[d]
  BY DEF TypeOK, Mine, Local
<1>3. Local(c)'
  BY <1>1, <1>2 DEF Local
<1>4. ~InRun(c)'
  BY <1>1 DEF InRun, AwaitPCs, ListenerPCs, FailurePCs
<1> QED BY <1>1, <1>2, <1>3, <1>4 DEF Mine, Frame

\* So does the IDLE notification, and run_until_idle() looping after it.
LEMMA MineIdle ==
  ASSUME TypeOK, NEW c \in Callers, Mine(c), IdleNotified(c) \/ IdleNotifyRaised(c)
  PROVE  Mine(c)' /\ Frame(c)
<1>0. pc[c] = "idle_notify" /\ ~InRun(c)
  BY DEF IdleNotified, IdleNotifyRaised, InRun, AwaitPCs, ListenerPCs, FailurePCs
<1>1. status = "idle" /\ signal = "none" /\ streaming = FALSE /\ pending = {}
  BY <1>0, Dark DEF Mine, TypeOK, Showing, FailurePCs
<1>2. CASE PumpClaims(c) /\ IdleNotified(c)
  <2>1. Batch("next_turn") \in Seq(1..MaxSent)
    BY BatchType DEF TypeOK, Targets
  <2> QED BY <1>0, <1>2, <2>1, MineEnter DEF PumpClaims, IdleNotified, logVars
<1>3. CASE PumpSettles(c) /\ IdleNotified(c)
  BY <1>0, <1>1, <1>3, MineOut DEF PumpSettles, IdleNotified
<1>4. CASE /\ Goto(c, "out") /\ UNCHANGED <<hand, resv, status, signal>>
           /\ UNCHANGED <<streaming, pending>>
  BY <1>0, <1>1, <1>4, MineOut
<1> QED BY <1>2, <1>3, <1>4 DEF IdleNotified, IdleNotifyRaised, instanceVars

\* The steps that move input, and the ends of a run, preserve Mine.
LEMMA MineInput ==
  ASSUME TypeOK, NEW c \in Callers, Mine(c),
         \/ PreStepEnters(c) \/ PreStepRejects(c) \/ UserMessageStarted(c) \/ UserMessageEnded(c)
         \/ ErrorTurnEnded(c) \/ TurnStops(c) \/ TurnContinues(c)
         \/ AgentEnded(c) \/ FailureAgentEnded(c)
  PROVE  Mine(c)' /\ Frame(c)
<1>0. pc[c] \in AwaitPCs => InRun(c)
  BY DEF InRun
<1>1. CASE PreStepEnters(c) \/ UserMessageEnded(c)
  BY <1>1, MineAdmits DEF PreStepEnters, UserMessageEnded, At
<1>2. CASE PreStepRejects(c)
  BY <1>0, <1>2, MineMove, Dark
  DEF PreStepRejects, EndRun, At, AwaitPCs, ListenerPCs, FailurePCs, Showing
<1>3. CASE UserMessageStarted(c)
  BY <1>0, <1>3, MineMove, Dark
  DEF UserMessageStarted, At, AwaitPCs, ListenerPCs, FailurePCs, Showing
<1>4. CASE ErrorTurnEnded(c)
  <2>1. turn = "closed"
    BY <1>4 DEF ErrorTurnEnded, At, Mine, Local
  <2> QED BY <1>0, <1>4, <2>1, MineMove, Dark
      DEF ErrorTurnEnded, EndRun, At, AwaitPCs, ListenerPCs, FailurePCs, Showing
<1>5. CASE TurnStops(c)
  <2>1. turn = "closed"
    BY <1>5 DEF TurnStops, At, Mine, Local
  <2> QED BY <1>0, <1>5, <2>1, MineMove, Dark
      DEF TurnStops, EndRun, At, AwaitPCs, ListenerPCs, FailurePCs, Showing
<1>6. CASE TurnContinues(c)
  <2>1. turn = "closed"
    BY <1>6 DEF TurnContinues, At, Mine, Local
  <2>2. /\ pc[c] = "stopping" /\ UNCHANGED <<status, signal, pending, turn, resv>>
        /\ InRun(c) /\ pending = {} /\ streaming = FALSE
    BY <1>0, <1>6, Dark DEF TurnContinues, At, AwaitPCs, ListenerPCs, FailurePCs, Showing
  <2>3. CASE \E t \in Targets : ClaimsNext(c, t)
    BY <2>1, <2>2, <2>3, MineMove
    DEF ClaimsNext, AwaitPCs, ListenerPCs, FailurePCs, Showing
  <2>4. CASE EndRun(c, IF run[c].term THEN "terminated" ELSE "completed")
    BY <2>1, <2>2, <2>4, MineMove
    DEF EndRun, AwaitPCs, ListenerPCs, FailurePCs, Showing
  <2> QED BY <1>6, <2>3, <2>4 DEF TurnContinues, Targets
<1>7. CASE AgentEnded(c)
  BY <1>7, MineFinish DEF AgentEnded, At, AwaitPCs, ListenerPCs, Mine, Local
<1>8. CASE FailureAgentEnded(c)
  BY <1>8, MineFinish DEF FailureAgentEnded, At, AwaitPCs, FailurePCs, Mine, Local
<1> QED BY <1>1, <1>2, <1>3, <1>4, <1>5, <1>6, <1>7, <1>8

\* Substituting messages, and every way a run is left by an exception, preserve
\* Mine.
LEMMA MineIntervenes ==
  ASSUME TypeOK, NEW c \in Callers, Mine(c), Intervenes(c)
  PROVE  Mine(c)' /\ Frame(c)
<1>1. CASE RunNotifyRaised(c)
  <2>1. streaming = FALSE /\ pending = {}
    BY <1>1, Dark DEF RunNotifyRaised, Showing, FailurePCs
  <2> QED BY <1>1, <2>1, MineOut DEF RunNotifyRaised
<1>2. CASE IdleNotifyRaised(c)
  BY <1>2, MineIdle
<1>3. CASE ListenerRaises(c)
  BY <1>3, MineFail DEF ListenerRaises, At, AwaitPCs
<1>4. CASE BatchRaises(c)
  BY <1>4, MineFail DEF BatchRaises, At, AwaitPCs
<1>5. CASE RunEscapes(c)
  BY <1>5, MineFinish DEF RunEscapes
<1>6. CASE PreStepSubstitutes(c)
  <2>1. pc[c] = "pre_step" /\ UNCHANGED <<pc, run, resv, status, signal, streaming, pending, turn, bracket, endReason>>
    BY <1>6 DEF PreStepSubstitutes, At, instanceVars, logVars
  <2>2. resv[c] = "none"
    BY <2>1 DEF Mine, Local
  <2> QED BY <2>1, <2>2 DEF Mine, Local, Frame, InRun
<1> QED BY <1>1, <1>2, <1>3, <1>4, <1>5, <1>6 DEF Intervenes

\* Every step of a run preserves Mine.
LEMMA MineRunStep ==
  ASSUME TypeOK, NEW c \in Callers, Mine(c), RunStep(c)
  PROVE  Mine(c)' /\ Frame(c)
BY MineMoves, MineTools, MineReply, MineInput, MineIdle DEF RunStep

\* Only a caller that is inside a call takes steps of a run.
LEMMA Busy ==
  ASSUME NEW c \in Callers, RunStep(c) \/ Intervenes(c)
  PROVE  pc[c] # "out"
<1>1. CASE RunStep(c)
  BY <1>1 DEF RunStep, At, RunNotified, AgentStarted, InitialTurnStarted, PreStepEnters,
     PreStepRejects, UserMessageStarted, UserMessageEnded, TurnStarted, ContextTransformed,
     StreamChunk, ChunkDispatched, StreamEnds, LateStartDispatched, MessageEnded,
     ErrorTurnEnded, ToolStarts, ToolEnds, BatchEnds, ResultStarted, ResultEnded, TurnEnded,
     NextTurnPrepared, TurnStops, TurnContinues, AgentEnded, IdleNotified, FailureStarted,
     FailureEnded, FailureTurnEnded, FailureAgentEnded
<1>2. CASE Intervenes(c)
  BY <1>2 DEF Intervenes, At, RunNotifyRaised, IdleNotifyRaised, ListenerRaises, BatchRaises,
     RunEscapes, PreStepSubstitutes, AwaitPCs, ListenerPCs, FailurePCs
<1> QED BY <1>1, <1>2

\* What any task may call while a run is active preserves the invariant.
LEMMA InvAnyone == ASSUME IndInv, TypeOK', Anyone PROVE IndInv'
<1>1. /\ UNCHANGED <<pc, run, hand, resv, status, turn, bracket, endReason>>
      /\ streaming' => streaming
      /\ pending' \subseteq pending
      /\ signal' = "none" <=> signal = "none"
  BY DEF Anyone, SendInput, ClearQueues, Abort, Reset, DetachedToolEnds, callerVars,
     instanceVars, logVars
<1>2. Support' /\ Solo'
  BY <1>1 DEF IndInv, Support, Local, Solo
<1>3. RunExclusive'
  BY <1>1 DEF IndInv, RunExclusive, InRun
<1>4. VisibleStateOwned'
  BY <1>1 DEF IndInv, VisibleStateOwned
<1> QED BY <1>2, <1>3, <1>4 DEF IndInv

\* The entry points preserve the invariant, concurrent ones included.
LEMMA InvEntry == ASSUME IndInv, TypeOK', NEW c \in Callers, EntryPoint(c) PROVE IndInv'
<1>0. TypeOK
  BY DEF IndInv
<1>1. CASE Prompt(c)
  <2>1. Others(c) /\ pc[c] = "out"
    BY <1>1, Alone DEF Prompt, At, Enter
  <2>2. Mine(c)
    BY <2>1, Narrow
  <2>3. Mine(c)' /\ Frame(c)
    BY <1>0, <1>1, <2>1, <2>2, MineEnter DEF Prompt, logVars
  <2> QED BY <2>1, <2>3, OwnStep
<1>2. CASE Continue(c)
  <2>1. PICK b \in Seq(0..MaxSent), t \in Targets \cup {"none"}, k \in BOOLEAN :
          Enter(c, "continue", b, t, k) /\ (b \in Seq(1..MaxSent) \/ t = "none")
    <3>0. \A t \in Targets : Batch(t) \in Seq(1..MaxSent) /\ Batch(t) \in Seq(0..MaxSent)
      BY <1>0, BatchType, Widen DEF TypeOK
    <3>1. CASE Enter(c, "continue", Batch("next_step"), "next_step", TRUE)
      BY <3>0, <3>1 DEF Targets
    <3>2. CASE Enter(c, "continue", Batch("next_turn"), "next_turn", FALSE)
      BY <3>0, <3>2 DEF Targets
    <3>3. CASE Enter(c, "continue", <<>>, "none", FALSE)
      <4>1. <<>> \in Seq(0..MaxSent) /\ "none" \in Targets \cup {"none"} /\ FALSE \in BOOLEAN
        OBVIOUS
      <4> QED BY <3>3, <4>1
    <3> QED BY <1>2, <3>1, <3>2, <3>3 DEF Continue
  <2>2. Others(c) /\ pc[c] = "out"
    BY <1>2, <2>1, Alone DEF Continue, At, Enter
  <2>3. Mine(c)
    BY <2>2, Narrow
  <2>4. Mine(c)' /\ Frame(c)
    BY <1>0, <1>2, <2>1, <2>2, <2>3, MineEnter DEF Continue, logVars
  <2> QED BY <2>2, <2>4, OwnStep
<1>3. CASE RunUntilIdle(c) /\ PumpClaims(c)
  <2>1. Others(c) /\ pc[c] = "out"
    BY <1>3, Alone DEF RunUntilIdle, PumpClaims, At, Enter
  <2>2. Mine(c)
    BY <2>1, Narrow
  <2>3. Batch("next_turn") \in Seq(1..MaxSent)
    BY <1>0, BatchType DEF TypeOK, Targets
  <2>4. Mine(c)' /\ Frame(c)
    BY <1>0, <1>3, <2>1, <2>2, <2>3, MineEnter DEF RunUntilIdle, PumpClaims, logVars
  <2> QED BY <2>1, <2>4, OwnStep
<1>4. CASE (RunUntilIdle(c) /\ PumpSettles(c)) \/ RunUntilIdleRefused(c)
  <2>1. pc[c] = "out" /\ pc' = pc
    BY <1>0, <1>4 DEF RunUntilIdle, PumpSettles, RunUntilIdleRefused, At, Goto, TypeOK, callerVars
  <2>2. UNCHANGED <<hand, resv, status, signal, streaming, pending, turn, bracket, endReason>>
    BY <1>4 DEF RunUntilIdle, PumpSettles, RunUntilIdleRefused, callerVars, instanceVars, logVars
  <2>3. \A d \in Callers \ {c} : run'[d] = run[d]
    BY <1>0, <1>4 DEF RunUntilIdle, PumpSettles, RunUntilIdleRefused, TypeOK, callerVars
  <2>4. Support' /\ Solo'
    BY <2>1, <2>2, <2>3 DEF IndInv, Support, Local, Solo
  <2>5. RunExclusive'
    BY <2>1, <2>2 DEF IndInv, RunExclusive, InRun
  <2>6. VisibleStateOwned'
    BY <2>1, <2>2 DEF IndInv, VisibleStateOwned
  <2> QED BY <2>4, <2>5, <2>6 DEF IndInv
<1> QED BY <1>1, <1>2, <1>3, <1>4 DEF EntryPoint, RunUntilIdle

\* The invariant holds initially.
LEMMA InvInit == Init => IndInv
<1> SUFFICES ASSUME Init PROVE IndInv
  OBVIOUS
<1>0. <<>> \in Seq(1..MaxSent) /\ <<>> \in Seq(0..MaxSent) /\ <<>> \in Seq(Aliases)
  OBVIOUS
<1>1. InboxTypeOK
  BY <1>0 DEF Init, InboxInit, InboxTypeOK
<1>2. TypeOK
  <2>1. pc \in [Callers -> PCs] /\ run \in [Callers -> RunRecords]
    BY NoRunType, PCsMembers DEF Init
  <2>2. hand \in [Callers -> Seq(0..MaxSent)] /\ resv \in [Callers -> Targets \cup {"none"}]
    BY <1>0 DEF Init
  <2> QED BY <1>0, <1>1, <2>1, <2>2 DEF Init, TypeOK
<1>3. Support /\ Solo /\ VisibleStateOwned
  BY DEF Init, Support, Local, Solo, VisibleStateOwned
<1>4. RunExclusive
  BY DEF Init, RunExclusive, InRun, AwaitPCs, ListenerPCs, FailurePCs
<1> QED BY <1>2, <1>3, <1>4 DEF IndInv

\* Every step preserves the invariant.
LEMMA InvNext == IndInv /\ [Next]_vars => IndInv'
<1> SUFFICES ASSUME IndInv, [Next]_vars PROVE IndInv'
  OBVIOUS
<1>0. TypeOK /\ Support
  BY DEF IndInv
<1>1. CASE Anyone
  BY <1>0, <1>1, TypeAnyone, InvAnyone
<1>2. ASSUME NEW c \in Callers, EntryPoint(c) PROVE IndInv'
  BY <1>0, <1>2, TypeEntry, InvEntry
<1>3. ASSUME NEW c \in Callers, RunStep(c) \/ Intervenes(c) PROVE IndInv'
  <2>1. TypeOK'
    BY <1>0, <1>3, TypeRunStep, TypeIntervenes
  <2>2. Others(c)
    BY <1>3, Busy, Alone
  <2>3. Mine(c)
    BY <2>2, Narrow
  <2>4. Mine(c)' /\ Frame(c)
    BY <1>0, <1>3, <2>3, MineRunStep, MineIntervenes
  <2> QED BY <2>1, <2>2, <2>4, OwnStep
<1>4. CASE UNCHANGED vars
  <2>1. TypeOK'
    BY <1>0, <1>4 DEF TypeOK, InboxTypeOK, vars, inboxVars, instanceVars, logVars, callerVars
  <2>2. Support' /\ Solo' /\ RunExclusive' /\ VisibleStateOwned'
    BY <1>4 DEF IndInv, Support, Local, Solo, RunExclusive, InRun, VisibleStateOwned,
       vars, instanceVars, logVars, callerVars
  <2> QED BY <2>1, <2>2 DEF IndInv
<1> QED BY <1>1, <1>2, <1>3, <1>4 DEF Next

\* The invariant holds in every reachable state.
LEMMA Invariance == Spec => []IndInv
BY InvInit, InvNext, PTL DEF Spec

\* Type correctness of the driver, its instance and its inbox.
THEOREM TypeCorrect == Spec => []TypeOK
<1>1. IndInv => TypeOK
  BY DEF IndInv
<1> QED BY <1>1, Invariance, PTL

\* Whatever the number of tasks that call prompt(), continue_() and
\* run_until_idle() on one driver, and whatever raises, aborts or is cancelled
\* in between, no two of them are inside a run, the status is RUNNING exactly
\* while one is, and the run signal exists exactly then.
THEOREM OneRunAtATime == Spec => []RunExclusive
<1>1. IndInv => RunExclusive
  BY DEF IndInv
<1> QED BY <1>1, Invariance, PTL

\* streaming_message and pending_tool_calls never survive the await that set
\* them: the writes of every success, failure and finally path clear them in
\* time, tools that still run detached included.
THEOREM NoStaleVisibleState == Spec => []VisibleStateOwned
<1>1. IndInv => VisibleStateOwned
  BY DEF IndInv
<1> QED BY <1>1, Invariance, PTL

\* A prompt(), continue_() or run_until_idle() that returns without raising
\* leaves AGENT_START matched by AGENT_END and, unless rejected, TURN_START by
\* TURN_END.
THEOREM ReturnsClosed == Spec => []ReturnedRunClosed
<1>1. IndInv => ReturnedRunClosed
  BY DEF IndInv, Support, Local, ReturnedRunClosed
<1> QED BY <1>1, Invariance, PTL

-----------------------------------------------------------------------------
(* The input of an instance. *)

Sorted(s) == \A i, j \in 1..Len(s) : i < j => s[i] < s[j]

\* The target an envelope was sent to.
Target(m) == TargetOf(sent[m])

\* The awaits at which a caller may hold input it has not admitted.
HoldPCs == {"run_notify", "agent_start", "turn_start0", "pre_step", "user_start", "user_end"}

\* Input is held by the active caller only; before the run has begun it is the
\* reserved batch of one target, or the prompt's own message.
HandInv ==
    \A c \in Callers :
        /\ hand[c] # <<>> => pc[c] \in HoldPCs
        /\ Own \in Range(hand[c]) => hand[c] = <<Own>>
        /\ pc[c] = "run_notify" => \A m \in Range(hand[c]) :
              IF resv[c] = "none" THEN m = Own ELSE m # Own /\ Target(m) = resv[c]

\* What is queued, held and admitted was sent.
SentInv ==
    /\ \A t \in Targets : \A m \in Range(queue[t]) : m \in 1..Len(sent) /\ Target(m) = t
    /\ \A c \in Callers : Range(hand[c]) \subseteq 0..Len(sent)
    /\ Range(admitted) \subseteq 1..Len(sent)

OrderInv ==
    /\ \A t \in Targets : Sorted(queue[t])
    /\ \A c \in Callers : Sorted(hand[c])
    /\ \A i, j \in 1..Len(admitted) :
          i < j /\ Target(admitted[i]) = Target(admitted[j]) => admitted[i] < admitted[j]
    /\ \A m \in Range(admitted), c \in Callers : \A n \in Range(hand[c]) \ {Own} :
          Target(m) = Target(n) => m < n
    /\ \A m \in Range(admitted) : \A n \in Range(queue[Target(m)]) : m < n
    /\ \A c \in Callers : \A m \in Range(hand[c]) \ {Own} :
          \A n \in Range(queue[Target(m)]) : m < n

InputInv == HandInv /\ SentInv /\ OrderInv


-----------------------------------------------------------------------------
(* Sequences of envelopes: what appending, concatenating and taking the    *)
(* head do to their members and their order.                               *)

\* The members of a sequence are those at its indices.
LEMMA InRange ==
  ASSUME NEW S, NEW s \in Seq(S), NEW x
  PROVE  x \in Range(s) <=> \E i \in 1..Len(s) : s[i] = x
<1>1. DOMAIN s = 1..Len(s)
  BY LenProperties
<1> QED BY <1>1 DEF Range

\* The empty sequence has no members and is sorted.
LEMMA NoneInOrder == Range(<<>>) = {} /\ Sorted(<<>>)
<1>1. <<>> \in Seq({}) /\ Len(<<>>) = 0
  BY EmptySeq
<1>2. 1..Len(<<>>) = {}
  BY <1>1
<1>3. \A x : x \notin Range(<<>>)
  BY <1>1, <1>2, InRange
<1> QED BY <1>2, <1>3 DEF Sorted

\* A sequence without members is empty.
LEMMA NoMembers ==
  ASSUME NEW S, NEW s \in Seq(S), Range(s) = {}
  PROVE  s = <<>>
<1>1. DOMAIN s = 1..Len(s) /\ Len(s) \in Nat
  BY LenProperties
<1>2. ASSUME Len(s) # 0 PROVE FALSE
  <2>1. 1 \in DOMAIN s
    BY <1>1, <1>2
  <2> QED BY <2>1 DEF Range
<1> QED BY <1>2, EmptySeq

\* A sequence of one.
LEMMA Single == ASSUME NEW x PROVE Range(<<x>>) = {x} /\ Sorted(<<x>>)
<1> DEFINE s == <<x>>
<1>1. s \in Seq({x}) /\ Len(s) = 1 /\ s[1] = x
  OBVIOUS
<1> HIDE DEF s
<1>2. \A y : y \in Range(s) <=> \E i \in 1..Len(s) : s[i] = y
  BY <1>1, InRange
<1>3. 1..Len(s) = {1}
  BY <1>1
<1>4. \A y : y \in Range(s) <=> y = x
  BY <1>1, <1>2, <1>3
<1>5. Range(s) = {x} /\ Sorted(s)
  BY <1>3, <1>4 DEF Sorted
<1> QED BY <1>5 DEF s

\* Appending.
LEMMA AppendSorted ==
  ASSUME NEW S, NEW s \in Seq(S), NEW x \in S
  PROVE  /\ Range(Append(s, x)) = Range(s) \cup {x}
         /\ Sorted(s) /\ (\A m \in Range(s) : m < x) => Sorted(Append(s, x))
<1> DEFINE r == Append(s, x)
<1>1. /\ r \in Seq(S) /\ Len(r) = Len(s) + 1 /\ Len(s) \in Nat
      /\ \A i \in 1..Len(s) : r[i] = s[i]
      /\ r[Len(s) + 1] = x
  BY AppendProperties, LenProperties
<1> HIDE DEF r
<1>2. Range(r) = Range(s) \cup {x}
  <2>1. \A y : y \in Range(r) <=> \E i \in 1..Len(r) : r[i] = y
    BY <1>1, InRange
  <2>2. \A y : y \in Range(s) <=> \E i \in 1..Len(s) : s[i] = y
    BY InRange
  <2> QED BY <1>1, <2>1, <2>2
<1>3. ASSUME Sorted(s), \A m \in Range(s) : m < x PROVE Sorted(r)
  <2> SUFFICES ASSUME NEW i \in 1..Len(r), NEW j \in 1..Len(r), i < j PROVE r[i] < r[j]
    BY DEF Sorted
  <2>1. i \in 1..Len(s) /\ r[i] = s[i] /\ s[i] \in Range(s)
    BY <1>1, InRange
  <2>2. CASE j = Len(s) + 1
    BY <1>1, <1>3, <2>1, <2>2
  <2>3. CASE j \in 1..Len(s)
    BY <1>1, <1>3, <2>1, <2>3 DEF Sorted
  <2> QED BY <1>1, <2>2, <2>3
<1> QED BY <1>2, <1>3 DEF r

\* Concatenating.
LEMMA ConcatSorted ==
  ASSUME NEW S, NEW r \in Seq(S), NEW s \in Seq(S)
  PROVE  /\ Range(r \o s) = Range(r) \cup Range(s)
         /\ Sorted(r) /\ Sorted(s) /\ (\A m \in Range(r), n \in Range(s) : m < n)
               => Sorted(r \o s)
<1> DEFINE q == r \o s
<1>1. /\ q \in Seq(S) /\ Len(q) = Len(r) + Len(s) /\ Len(r) \in Nat /\ Len(s) \in Nat
      /\ \A i \in 1..Len(r) : q[i] = r[i]
      /\ \A i \in 1..Len(s) : q[i + Len(r)] = s[i]
  BY ConcatProperties, LenProperties
<1> HIDE DEF q
<1>2. \A i \in 1..Len(q) : ((i \in 1..Len(r) /\ q[i] = r[i])
                            \/ (i - Len(r) \in 1..Len(s) /\ i > Len(r) /\ q[i] = s[i - Len(r)]))
  BY <1>1
<1>3. Range(q) = Range(r) \cup Range(s)
  <2>1. \A y : y \in Range(q) <=> \E i \in 1..Len(q) : q[i] = y
    BY <1>1, InRange
  <2>2. \A y : y \in Range(r) <=> \E i \in 1..Len(r) : r[i] = y
    BY InRange
  <2>3. \A y : y \in Range(s) <=> \E i \in 1..Len(s) : s[i] = y
    BY InRange
  <2>4. ASSUME NEW y \in Range(r) PROVE y \in Range(q)
    BY <1>1, <2>1, <2>2
  <2>5. ASSUME NEW y \in Range(s) PROVE y \in Range(q)
    <3>1. PICK i \in 1..Len(s) : s[i] = y
      BY <2>3
    <3>2. i + Len(r) \in 1..Len(q) /\ q[i + Len(r)] = y
      BY <1>1, <3>1
    <3> QED BY <2>1, <3>2
  <2>6. ASSUME NEW y \in Range(q) PROVE y \in Range(r) \cup Range(s)
    BY <1>2, <2>1, <2>2, <2>3
  <2> QED BY <2>4, <2>5, <2>6
<1>4. ASSUME Sorted(r), Sorted(s), \A m \in Range(r), n \in Range(s) : m < n PROVE Sorted(q)
  <2> SUFFICES ASSUME NEW i \in 1..Len(q), NEW j \in 1..Len(q), i < j PROVE q[i] < q[j]
    BY DEF Sorted
  <2>1. CASE j \in 1..Len(r)
    BY <1>1, <1>4, <2>1 DEF Sorted
  <2>2. CASE i \in 1..Len(r) /\ j > Len(r)
    <3>1. q[i] \in Range(r) /\ q[j] \in Range(s)
      BY <1>1, <1>2, <2>2, InRange
    <3> QED BY <1>4, <3>1
  <2>3. CASE i > Len(r)
    <3>1. /\ i - Len(r) \in 1..Len(s) /\ j - Len(r) \in 1..Len(s)
          /\ i - Len(r) < j - Len(r)
          /\ q[i] = s[i - Len(r)] /\ q[j] = s[j - Len(r)]
      BY <1>1, <1>2, <2>3
    <3> QED BY <1>4, <3>1 DEF Sorted
  <2> QED BY <1>1, <2>1, <2>2, <2>3
<1> QED BY <1>3, <1>4 DEF q

\* Taking the head.
LEMMA HeadSorted ==
  ASSUME NEW S, NEW s \in Seq(S), s # <<>>
  PROVE  /\ Head(s) \in S /\ Tail(s) \in Seq(S)
         /\ Range(s) = {Head(s)} \cup Range(Tail(s))
         /\ Sorted(s) => Sorted(Tail(s)) /\ \A n \in Range(Tail(s)) : Head(s) < n
<1> DEFINE r == Tail(s)
<1>1. /\ r \in Seq(S) /\ Len(s) \in Nat /\ Len(s) > 0 /\ Len(r) = Len(s) - 1
      /\ \A i \in 1..Len(r) : r[i] = s[i + 1]
      /\ Head(s) = s[1] /\ Head(s) \in S
  BY HeadTailProperties, LenProperties, EmptySeq
<1> HIDE DEF r
<1>2. \A y : y \in Range(r) <=> \E i \in 1..Len(r) : r[i] = y
  BY <1>1, InRange
<1>3. \A y : y \in Range(s) <=> \E i \in 1..Len(s) : s[i] = y
  BY InRange
<1>4. Range(s) = {Head(s)} \cup Range(r)
  <2>1. ASSUME NEW y \in Range(r) PROVE y \in Range(s)
    <3>1. PICK i \in 1..Len(r) : r[i] = y
      BY <1>2
    <3>2. i + 1 \in 1..Len(s) /\ s[i + 1] = y
      BY <1>1, <3>1
    <3> QED BY <1>3, <3>2
  <2>2. ASSUME NEW y \in Range(s), y # Head(s) PROVE y \in Range(r)
    <3>1. PICK i \in 1..Len(s) : s[i] = y
      BY <1>3
    <3>2. i - 1 \in 1..Len(r) /\ r[i - 1] = y
      BY <1>1, <2>2, <3>1
    <3> QED BY <1>2, <3>2
  <2>3. Head(s) \in Range(s)
    <3>1. 1 \in 1..Len(s)
      BY <1>1
    <3> QED BY <1>1, <1>3, <3>1
  <2> QED BY <2>1, <2>2, <2>3
<1>5. ASSUME Sorted(s) PROVE Sorted(r) /\ \A n \in Range(r) : Head(s) < n
  <2>1. Sorted(r)
    BY <1>1, <1>5 DEF Sorted
  <2>2. \A i \in 1..Len(r) : Head(s) < r[i]
    BY <1>1, <1>5 DEF Sorted
  <2> QED BY <1>2, <2>1, <2>2
<1> QED BY <1>1, <1>4, <1>5 DEF r

-----------------------------------------------------------------------------
(* The ways a step moves envelopes.  The caller that holds input is alone: *)
(* NoHands says that nobody else, or nobody at all, holds any.             *)

NoHands(C) == \A d \in C : hand[d] = <<>>

\* No envelope moves.
Stays == UNCHANGED <<queue, sent, hand, admitted, dropped>>

\* One is sent: it goes behind its queue.
Sends ==
    /\ \E alias \in Aliases, wakeup \in BOOLEAN : Send(alias, TargetOf(alias), wakeup)
    /\ UNCHANGED <<hand, admitted, dropped>>

\* Queues are cleared.
Clears ==
    /\ \E ts \in SUBSET Targets :
         Clear(ts) /\ dropped' = dropped \cup UNION {Range(queue[t]) : t \in ts}
    /\ UNCHANGED <<sent, hand, admitted>>

\* A batch is claimed into an empty hand.
Takes(c) ==
    /\ NoHands(Callers)
    /\ \E t \in Targets : Claim(t) /\ hand' = [hand EXCEPT ![c] = Batch(t)]
    /\ UNCHANGED <<sent, admitted, dropped>>

\* A caller brings its own message, or none.
Brings(c) ==
    /\ NoHands(Callers)
    /\ \E b \in {<<>>, <<Own>>} : hand' = [hand EXCEPT ![c] = b]
    /\ UNCHANGED <<queue, sent, admitted, dropped>>

\* What is held, all of one target, goes back in front of its queue.
Returns(c) ==
    /\ NoHands(Callers \ {c})
    /\ \E t \in Targets :
         /\ Rollback(t, hand[c])
         /\ hand[c] \in Seq(1..MaxSent)
         /\ \A m \in Range(hand[c]) : Target(m) = t
    /\ hand' = [hand EXCEPT ![c] = <<>>]
    /\ UNCHANGED <<sent, admitted, dropped>>

\* What is held is discarded, all or some of it, or a message of nobody's inbox
\* is held instead.
Discards(c) ==
    /\ \E kept \in Seq(0..MaxSent) :
         /\ hand' = [hand EXCEPT ![c] = kept]
         /\ Range(kept) \subseteq Range(hand[c]) \cup {Own} /\ Sorted(kept)
         /\ dropped' = dropped \cup (Range(hand[c]) \ (Range(kept) \cup {Own}))
    /\ UNCHANGED <<queue, sent, admitted>>

\* The first envelope held enters the transcript.
Admits(c) ==
    /\ NoHands(Callers \ {c})
    /\ hand[c] # <<>>
    /\ hand' = [hand EXCEPT ![c] = Tail(hand[c])]
    /\ admitted' = IF Head(hand[c]) = Own THEN admitted ELSE Append(admitted, Head(hand[c]))
    /\ UNCHANGED <<queue, sent, dropped>>

\* A claimed batch is lost: run_until_idle() refused by an active run.
Loses == \E c \in Callers : RunUntilIdleRefused(c)

Moved ==
    \/ Stays \/ Sends \/ Clears \/ Loses
    \/ \E c \in Callers : Takes(c) \/ Brings(c) \/ Returns(c) \/ Discards(c) \/ Admits(c)

\* What the moves rely on.
Ordered == TypeOK /\ SentInv /\ OrderInv /\ \A c \in Callers : Own \in Range(hand[c]) => hand[c] = <<Own>>

\* Queues, hands and the transcript hold envelopes; their names are numbers.
LEMMA Typed ==
  ASSUME TypeOK
  PROVE  /\ \A t \in Targets : queue[t] \in Seq(1..MaxSent) /\ queue[t] \in Seq(Nat)
         /\ \A c \in Callers : hand[c] \in Seq(0..MaxSent) /\ hand[c] \in Seq(Nat)
         /\ admitted \in Seq(1..MaxSent) /\ admitted \in Seq(Nat)
         /\ sent \in Seq(Aliases) /\ Len(sent) \in Nat
<1>1. \A s \in Seq(1..MaxSent) : s \in Seq(Nat)
  <2>1. 1..MaxSent \subseteq Nat
    BY InboxAssumption
  <2> QED BY <2>1, SeqMonotonic
<1>2. \A s \in Seq(0..MaxSent) : s \in Seq(Nat)
  <2>1. 0..MaxSent \subseteq Nat
    BY InboxAssumption
  <2> QED BY <2>1, SeqMonotonic
<1>3. \A t \in Targets : queue[t] \in Seq(1..MaxSent)
  BY DEF TypeOK, InboxTypeOK
<1>4. \A c \in Callers : hand[c] \in Seq(0..MaxSent)
  BY DEF TypeOK
<1>5. admitted \in Seq(1..MaxSent) /\ sent \in Seq(Aliases)
  BY DEF TypeOK, InboxTypeOK
<1>6. Len(sent) \in Nat
  BY <1>5, LenProperties
<1>7. admitted \in Seq(Nat)
  BY <1>1, <1>5
<1>8. \A t \in Targets : queue[t] \in Seq(Nat)
  BY <1>1, <1>3
<1>9. \A c \in Callers : hand[c] \in Seq(Nat)
  BY <1>2, <1>4
<1> QED BY <1>3, <1>4, <1>5, <1>6, <1>7, <1>8, <1>9

\* claim() splits a queue: the batch comes before the rest.
LEMMA Split ==
  ASSUME TypeOK, NEW t \in Targets
  PROVE  /\ Range(queue[t]) = Range(Batch(t)) \cup Range(Rest(t))
         /\ Sorted(queue[t]) =>
              /\ Sorted(Batch(t)) /\ Sorted(Rest(t))
              /\ \A m \in Range(Batch(t)), n \in Range(Rest(t)) : m < n
<1>1. CASE Policy(t) = "ALL" \/ queue[t] = <<>>
  <2>1. Batch(t) = queue[t] /\ Rest(t) = <<>>
    BY <1>1 DEF Batch, Rest
  <2> QED BY <2>1, NoneInOrder
<1>2. CASE ~(Policy(t) = "ALL" \/ queue[t] = <<>>)
  <2>1. Batch(t) = <<Head(queue[t])>> /\ Rest(t) = Tail(queue[t])
    BY <1>2 DEF Batch, Rest
  <2>2. queue[t] \in Seq(Nat) /\ queue[t] # <<>>
    BY <1>2, Typed
  <2> DEFINE h == Head(queue[t])
  <2>3. Range(<<h>>) = {h} /\ Sorted(<<h>>)
    BY Single
  <2>4. /\ Range(queue[t]) = {h} \cup Range(Rest(t))
        /\ Sorted(queue[t]) => Sorted(Rest(t)) /\ \A n \in Range(Rest(t)) : h < n
    BY <2>1, <2>2, HeadSorted
  <2>5. Range(Batch(t)) = {h} /\ Sorted(Batch(t))
    BY <2>1, <2>3
  <2> HIDE DEF h
  <2> QED BY <2>4, <2>5
<1> QED BY <1>1, <1>2

-----------------------------------------------------------------------------
(* Every move keeps the order.                                             *)

Placed == SentInv /\ OrderInv

\* Sending: the new envelope is the last one.
LEMMA PlacedSends == ASSUME Ordered, Sends PROVE Placed'
<1>0. PICK alias \in Aliases, wakeup \in BOOLEAN : Send(alias, TargetOf(alias), wakeup)
  BY DEF Sends
<1>a. Len(sent) \in Nat
  BY Typed DEF Ordered
<1>b. PICK new \in Nat : new = Len(sent) + 1
  BY <1>a
<1> DEFINE k == TargetOf(alias)
<1>1. /\ k \in Targets /\ Len(sent) \in Nat /\ new \in Nat
      /\ sent' = Append(sent, alias) /\ Len(sent') = new /\ sent'[new] = alias
      /\ \A m \in 1..Len(sent) : sent'[m] = sent[m]
  <2>1. sent \in Seq(Aliases) /\ Len(sent) \in Nat
    BY Typed DEF Ordered
  <2>2. sent' = Append(sent, alias)
    BY <1>0 DEF Send
  <2>3. k \in Targets
    BY DEF TargetOf, Targets
  <2> QED BY <1>b, <2>1, <2>2, <2>3, AppendProperties
<1>2. Target(new)' = k /\ \A m \in 1..Len(sent) : Target(m)' = Target(m)
  <2>1. TargetOf(sent'[new]) = k
    BY <1>1
  <2>2. \A m \in 1..Len(sent) : TargetOf(sent'[m]) = TargetOf(sent[m])
    BY <1>1
  <2> QED BY <2>1, <2>2 DEF Target
<1>3. /\ queue'[k] = Append(queue[k], new)
      /\ \A t \in Targets \ {k} : queue'[t] = queue[t]
  BY <1>0, <1>1, <1>b DEF Send, Ordered, TypeOK, InboxTypeOK
<1>4. UNCHANGED <<hand, admitted>>
  BY DEF Sends
<1>5. \A t \in Targets : queue[t] \in Seq(Nat)
  BY Typed DEF Ordered
<1> HIDE DEF k
<1>6. \A m \in Range(queue[k]) : m \in 1..Len(sent) /\ m < new
  <2>1. \A m \in Range(queue[k]) : m \in 1..Len(sent)
    BY <1>1 DEF Ordered, SentInv
  <2> QED BY <1>1, <1>b, <2>1
<1>7. Range(queue'[k]) = Range(queue[k]) \cup {new} /\ Sorted(queue'[k])
  BY <1>1, <1>3, <1>5, <1>6, AppendSorted DEF Ordered, OrderInv
<1>8. SentInv'
  <2>1. \A t \in Targets : \A m \in Range(queue'[t]) : m \in 1..Len(sent') /\ Target(m)' = t
    <3>1. \A m \in Range(queue'[k]) : m \in 1..Len(sent') /\ Target(m)' = k
      <4>1. ASSUME NEW m \in Range(queue[k]) PROVE m \in 1..Len(sent') /\ Target(m)' = k
        <5>1. m \in 1..Len(sent) /\ Target(m) = k
          BY <1>1, <1>6 DEF Ordered, SentInv
        <5> QED BY <1>1, <1>2, <1>b, <5>1
      <4>2. new \in 1..Len(sent') /\ Target(new)' = k
        BY <1>1, <1>2
      <4> QED BY <1>7, <4>1, <4>2
    <3>2. \A t \in Targets \ {k} : \A m \in Range(queue'[t]) : m \in 1..Len(sent') /\ Target(m)' = t
      BY <1>1, <1>2, <1>3, <1>b DEF Ordered, SentInv
    <3> QED BY <3>1, <3>2
  <2>2. \A c \in Callers : Range(hand'[c]) \subseteq 0..Len(sent')
    <3>1. 0..Len(sent) \subseteq 0..Len(sent')
      BY <1>1, <1>b
    <3> QED BY <1>4, <3>1 DEF Ordered, SentInv
  <2>3. Range(admitted') \subseteq 1..Len(sent')
    BY <1>1, <1>b, <1>4 DEF Ordered, SentInv
  <2> QED BY <2>1, <2>2, <2>3 DEF SentInv
<1>9. OrderInv'
  <2>0. admitted \in Seq(Nat) /\ \A i \in 1..Len(admitted) : admitted[i] \in 1..Len(sent)
    BY Typed, InRange DEF Ordered, SentInv
  <2>1. \A t \in Targets : Sorted(queue'[t])
    BY <1>3, <1>7 DEF Ordered, OrderInv
  <2>2. \A i, j \in 1..Len(admitted') :
          i < j /\ Target(admitted[i])' = Target(admitted[j])' => admitted'[i] < admitted'[j]
    BY <1>2, <1>4, <2>0 DEF Ordered, OrderInv
  <2>3. \A m \in Range(admitted'), c \in Callers : \A n \in Range(hand'[c]) \ {Own} :
          m \in 1..Len(sent) /\ n \in 1..Len(sent)
    BY <1>1, <1>4 DEF Ordered, SentInv, Own
  <2>4. \A m \in Range(admitted'), c \in Callers : \A n \in Range(hand'[c]) \ {Own} :
          Target(m)' = Target(n)' => m < n
    BY <1>2, <1>4, <2>3 DEF Ordered, OrderInv
  <2>5. \A m \in 1..Len(sent) : Target(m) \in Targets
    BY DEF Target, TargetOf, Targets
  <2>6. \A m \in Range(admitted') : \A n \in Range(queue'[Target(m)']) : m < n
    <3> SUFFICES ASSUME NEW m \in Range(admitted'), NEW n \in Range(queue'[Target(m)'])
                 PROVE  m < n
      OBVIOUS
    <3>1. m \in 1..Len(sent) /\ m \in Range(admitted)
      BY <1>4 DEF Ordered, SentInv
    <3>2. CASE n \in Range(queue[Target(m)])
      BY <3>1, <3>2 DEF Ordered, OrderInv
    <3>3. CASE n = new
      BY <1>1, <1>b, <3>1, <3>3
    <3> QED BY <1>2, <1>3, <1>7, <2>5, <3>1, <3>2, <3>3
  <2>7. \A c \in Callers : \A m \in Range(hand'[c]) \ {Own} : \A n \in Range(queue'[Target(m)']) : m < n
    <3> SUFFICES ASSUME NEW c \in Callers, NEW m \in Range(hand'[c]) \ {Own},
                        NEW n \in Range(queue'[Target(m)'])
                 PROVE  m < n
      OBVIOUS
    <3>1. m \in 1..Len(sent) /\ m \in Range(hand[c]) \ {Own}
      BY <1>1, <1>4 DEF Ordered, SentInv, Own
    <3>2. CASE n \in Range(queue[Target(m)])
      BY <3>1, <3>2 DEF Ordered, OrderInv
    <3>3. CASE n = new
      BY <1>1, <1>b, <3>1, <3>3
    <3>4. Target(m)' = Target(m) /\ Target(m) \in Targets
      BY <1>2, <2>5, <3>1
    <3>5. n \in Range(queue[Target(m)]) \/ n = new
      BY <1>3, <1>7, <3>4
    <3> QED BY <3>2, <3>3, <3>5
  <2>8. \A c \in Callers : Sorted(hand'[c])
    BY <1>4 DEF Ordered, OrderInv
  <2> QED BY <2>1, <2>2, <2>4, <2>6, <2>7, <2>8 DEF OrderInv, Target
<1> QED BY <1>8, <1>9 DEF Placed

\* Removing envelopes from the queues and the hands.
LEMMA PlacedShrinks ==
  ASSUME Ordered, UNCHANGED <<sent, admitted>>,
         \A t \in Targets : Range(queue'[t]) \subseteq Range(queue[t]) /\ Sorted(queue'[t]),
         \A c \in Callers : Range(hand'[c]) \subseteq Range(hand[c]) \cup {Own} /\ Sorted(hand'[c])
  PROVE  Placed'
<1>1. \A m : Target(m)' = Target(m)
  BY DEF Target
<1>2. Len(sent) \in Nat /\ Own \in 0..Len(sent)
  BY Typed DEF Ordered, Own
<1>3. \A m \in Range(admitted) : Target(m) \in Targets
  BY DEF Target, TargetOf, Targets
<1>4. \A m : Target(m) \in Targets
  BY DEF Target, TargetOf, Targets
<1>5. SentInv'
  BY <1>1, <1>2 DEF Ordered, SentInv
<1>6. OrderInv'
  <2>1. \A i, j \in 1..Len(admitted') :
          i < j /\ Target(admitted[i])' = Target(admitted[j])' => admitted'[i] < admitted'[j]
    BY <1>1 DEF Ordered, OrderInv
  <2>2. \A m \in Range(admitted'), c \in Callers : \A n \in Range(hand'[c]) \ {Own} :
          Target(m)' = Target(n)' => m < n
    BY <1>1 DEF Ordered, OrderInv
  <2>3. \A m \in Range(admitted') : \A n \in Range(queue'[Target(m)']) : m < n
    BY <1>1, <1>4 DEF Ordered, OrderInv
  <2>4. \A c \in Callers : \A m \in Range(hand'[c]) \ {Own} : \A n \in Range(queue'[Target(m)']) : m < n
    BY <1>1, <1>4 DEF Ordered, OrderInv
  <2> QED BY <2>1, <2>2, <2>3, <2>4 DEF OrderInv, Target
<1> QED BY <1>5, <1>6 DEF Placed

\* Clearing queues, losing a batch, dropping from a hand, bringing one's own message.
LEMMA PlacedRemovals ==
  ASSUME Ordered, Stays \/ Clears \/ Loses \/ \E c \in Callers : Discards(c) \/ Brings(c)
  PROVE  Placed'
<1>0. Loses => UNCHANGED <<sent, hand, admitted>> /\ \E t \in Targets : Claim(t)
  BY DEF Loses, RunUntilIdleRefused, Targets, callerVars, logVars
<1>1. UNCHANGED <<sent, admitted>>
  BY <1>0 DEF Stays, Clears, Discards, Brings
<1>2. \A t \in Targets : Range(queue'[t]) \subseteq Range(queue[t]) /\ Sorted(queue'[t])
  <2>0. \A t \in Targets : Sorted(queue[t])
    BY DEF Ordered, OrderInv
  <2>1. CASE queue' = queue
    BY <2>0, <2>1
  <2>2. CASE \E ts \in SUBSET Targets : Clear(ts)
    <3>1. \A t \in Targets : queue'[t] \in {<<>>, queue[t]}
      BY <2>2 DEF Clear
    <3> QED BY <2>0, <3>1, NoneInOrder
  <2>3. CASE \E t \in Targets : Claim(t)
    <3>1. PICK k \in Targets : queue'[k] = Rest(k) /\ \A t \in Targets \ {k} : queue'[t] = queue[t]
      BY <2>3 DEF Claim, Ordered, TypeOK, InboxTypeOK
    <3> QED BY <2>0, <3>1, Split DEF Ordered
  <2> QED BY <1>0, <2>1, <2>2, <2>3 DEF Stays, Clears, Discards, Brings
<1>3. \A d \in Callers : Range(hand'[d]) \subseteq Range(hand[d]) \cup {Own} /\ Sorted(hand'[d])
  <2>0. \A d \in Callers : Sorted(hand[d])
    BY DEF Ordered, OrderInv
  <2>1. CASE hand' = hand
    BY <2>0, <2>1
  <2>2. CASE \E c \in Callers : \E b \in {<<>>, <<Own>>} : hand' = [hand EXCEPT ![c] = b]
    <3>1. \A d \in Callers : hand'[d] \in {hand[d], <<>>, <<Own>>}
      BY <2>2 DEF Ordered, TypeOK
    <3>2. Range(<<Own>>) = {Own} /\ Sorted(<<Own>>)
      BY Single
    <3> QED BY <2>0, <3>1, <3>2, NoneInOrder
  <2>3. ASSUME NEW c \in Callers, Discards(c), NEW d \in Callers
        PROVE  Range(hand'[d]) \subseteq Range(hand[d]) \cup {Own} /\ Sorted(hand'[d])
    BY <2>0, <2>3 DEF Discards, Ordered, TypeOK
  <2> QED BY <1>0, <2>1, <2>2, <2>3 DEF Stays, Clears, Brings
<1> QED BY <1>1, <1>2, <1>3, PlacedShrinks

\* Claiming: what is held comes before what stays queued.
LEMMA PlacedTakes == ASSUME Ordered, NEW c \in Callers, Takes(c) PROVE Placed'
<1>0. PICK k \in Targets : Claim(k) /\ hand' = [hand EXCEPT ![c] = Batch(k)]
  BY DEF Takes
<1>1. /\ UNCHANGED <<sent, admitted>>
      /\ hand'[c] = Batch(k) /\ \A d \in Callers \ {c} : hand'[d] = <<>>
      /\ queue'[k] = Rest(k) /\ \A t \in Targets \ {k} : queue'[t] = queue[t]
  BY <1>0 DEF Takes, NoHands, Claim, Ordered, TypeOK, InboxTypeOK
<1>2. \A m : Target(m)' = Target(m) /\ Target(m) \in Targets
  BY <1>1 DEF Target, TargetOf, Targets
<1>3. /\ Range(queue[k]) = Range(Batch(k)) \cup Range(Rest(k))
      /\ Sorted(Batch(k)) /\ Sorted(Rest(k))
      /\ \A m \in Range(Batch(k)), n \in Range(Rest(k)) : m < n
  BY Split DEF Ordered, OrderInv
<1>4. \A m \in Range(Batch(k)) \cup Range(Rest(k)) : m \in 1..Len(sent) /\ Target(m) = k
  BY <1>3 DEF Ordered, SentInv
<1>5. \A d \in Callers : \A m \in Range(hand'[d]) : d = c /\ m \in Range(Batch(k))
  BY <1>1, NoneInOrder
<1>6. \A t \in Targets : Range(queue'[t]) \subseteq Range(queue[t])
  BY <1>1, <1>3
<1>7. SentInv'
  <2>1. \A d \in Callers : Range(hand'[d]) \subseteq 0..Len(sent')
    BY <1>1, <1>4, <1>5
  <2> QED BY <1>1, <1>2, <1>6, <2>1 DEF Ordered, SentInv
<1>8. OrderInv'
  <2>1. \A t \in Targets : Sorted(queue'[t])
    BY <1>1, <1>3 DEF Ordered, OrderInv
  <2>2. \A d \in Callers : Sorted(hand'[d])
    BY <1>1, <1>3, NoneInOrder
  <2>3. \A i, j \in 1..Len(admitted') :
          i < j /\ Target(admitted[i])' = Target(admitted[j])' => admitted'[i] < admitted'[j]
    BY <1>1, <1>2 DEF Ordered, OrderInv
  <2>4. \A m \in Range(admitted), n \in Range(Batch(k)) : Target(m) = k => m < n
    BY <1>3 DEF Ordered, OrderInv
  <2>5. \A m \in Range(admitted'), d \in Callers : \A n \in Range(hand'[d]) \ {Own} :
          Target(m)' = Target(n)' => m < n
    BY <1>1, <1>2, <1>4, <1>5, <2>4
  <2>6. \A m \in Range(admitted') : \A n \in Range(queue'[Target(m)']) : m < n
    BY <1>1, <1>2, <1>6 DEF Ordered, OrderInv
  <2>7. \A d \in Callers : \A m \in Range(hand'[d]) \ {Own} : \A n \in Range(queue'[Target(m)']) : m < n
    BY <1>1, <1>2, <1>3, <1>4, <1>5
  <2> QED BY <2>1, <2>2, <2>3, <2>5, <2>6, <2>7 DEF OrderInv, Target
<1> QED BY <1>7, <1>8 DEF Placed

\* Rolling back: what was held comes before what was queued.
LEMMA PlacedReturns == ASSUME Ordered, NEW c \in Callers, Returns(c) PROVE Placed'
<1>0. PICK k \in Targets :
        Rollback(k, hand[c]) /\ hand[c] \in Seq(1..MaxSent) /\ \A m \in Range(hand[c]) : Target(m) = k
  BY DEF Returns
<1>1. /\ UNCHANGED <<sent, admitted>>
      /\ \A d \in Callers : hand'[d] = <<>>
      /\ queue'[k] = hand[c] \o queue[k] /\ \A t \in Targets \ {k} : queue'[t] = queue[t]
  BY <1>0 DEF Returns, NoHands, Rollback, Ordered, TypeOK, InboxTypeOK
<1>2. \A m : Target(m)' = Target(m) /\ Target(m) \in Targets
  BY <1>1 DEF Target, TargetOf, Targets
<1>3. Range(hand[c]) \subseteq 1..MaxSent
  BY <1>0, RangeType
<1>4. \A m \in Range(hand[c]) : m \in 1..Len(sent) /\ m # Own /\ Target(m) = k
  BY <1>0, <1>3 DEF Ordered, SentInv, Own
<1>5. \A m \in Range(hand[c]), n \in Range(queue[k]) : m < n
  BY <1>4 DEF Ordered, OrderInv
<1>6. hand[c] \in Seq(Nat) /\ queue[k] \in Seq(Nat)
  BY Typed DEF Ordered
<1>7. Range(queue'[k]) = Range(hand[c]) \cup Range(queue[k]) /\ Sorted(queue'[k])
  BY <1>1, <1>5, <1>6, ConcatSorted DEF Ordered, OrderInv
<1>8. SentInv'
  <2>1. \A t \in Targets : \A m \in Range(queue'[t]) : m \in 1..Len(sent) /\ Target(m) = t
    BY <1>1, <1>4, <1>7 DEF Ordered, SentInv
  <2> QED BY <1>1, <1>2, <2>1, NoneInOrder DEF Ordered, SentInv
<1>9. OrderInv'
  <2>1. \A t \in Targets : Sorted(queue'[t])
    BY <1>1, <1>7 DEF Ordered, OrderInv
  <2>2. \A d \in Callers : Sorted(hand'[d]) /\ Range(hand'[d]) = {}
    BY <1>1, NoneInOrder
  <2>3. \A i, j \in 1..Len(admitted') :
          i < j /\ Target(admitted[i])' = Target(admitted[j])' => admitted'[i] < admitted'[j]
    BY <1>1, <1>2 DEF Ordered, OrderInv
  <2>4. \A m \in Range(admitted), n \in Range(hand[c]) : Target(m) = k => m < n
    BY <1>4 DEF Ordered, OrderInv
  <2>5. \A m \in Range(admitted') : \A n \in Range(queue'[Target(m)']) : m < n
    BY <1>1, <1>2, <1>7, <2>4 DEF Ordered, OrderInv
  <2> QED BY <2>1, <2>2, <2>3, <2>5 DEF OrderInv, Target
<1> QED BY <1>8, <1>9 DEF Placed

\* Admitting: the first envelope held comes after all of the transcript.
LEMMA PlacedAdmits == ASSUME Ordered, NEW c \in Callers, Admits(c) PROVE Placed'
<1>1. /\ UNCHANGED <<sent, queue>>
      /\ hand[c] # <<>> /\ hand'[c] = Tail(hand[c])
      /\ \A d \in Callers \ {c} : hand'[d] = <<>>
  BY DEF Admits, NoHands, Ordered, TypeOK
<1>2. \A m : Target(m)' = Target(m) /\ Target(m) \in Targets
  BY <1>1 DEF Target, TargetOf, Targets
<1>3. PICK h \in Nat : h = Head(hand[c])
  BY <1>1, Typed, HeadSorted DEF Ordered
<1>4. /\ Range(hand[c]) = {h} \cup Range(hand'[c])
      /\ Sorted(hand'[c]) /\ \A n \in Range(hand'[c]) : h < n
  <2>1. hand[c] \in Seq(Nat) /\ Sorted(hand[c])
    BY Typed DEF Ordered, OrderInv
  <2> QED BY <1>1, <1>3, <2>1, HeadSorted
<1>5. \A d \in Callers : \A m \in Range(hand'[d]) : d = c /\ m \in Range(hand[c]) /\ h < m
  BY <1>1, <1>4, NoneInOrder
<1>6. CASE h = Own
  <2>1. admitted' = admitted
    BY <1>3, <1>6 DEF Admits
  <2>2. \A d \in Callers : Range(hand'[d]) \subseteq Range(hand[d]) /\ Sorted(hand'[d])
    BY <1>1, <1>4, NoneInOrder
  <2>3. \A t \in Targets : Sorted(queue'[t])
    BY <1>1 DEF Ordered, OrderInv
  <2> QED BY <1>1, <2>1, <2>2, <2>3, PlacedShrinks
<1>7. CASE h # Own
  <2>1. admitted' = Append(admitted, h)
    BY <1>3, <1>7 DEF Admits
  <2>2. admitted \in Seq(Nat) /\ Len(admitted) \in Nat
    BY Typed, LenProperties DEF Ordered
  <2>3. /\ Range(admitted') = Range(admitted) \cup {h}
        /\ Len(admitted') = Len(admitted) + 1 /\ admitted'[Len(admitted) + 1] = h
        /\ \A i \in 1..Len(admitted) : admitted'[i] = admitted[i]
    BY <2>1, <2>2, AppendSorted, AppendProperties
  <2>4. h \in 1..Len(sent)
    BY <1>4, <1>7 DEF Ordered, SentInv, Own
  <2>5. \A m \in Range(admitted) : Target(m) = Target(h) => m < h
    BY <1>4, <1>7 DEF Ordered, OrderInv
  <2>6. SentInv'
    <3>1. Range(admitted') \subseteq 1..Len(sent)
      BY <2>3, <2>4 DEF Ordered, SentInv
    <3>2. \A d \in Callers : Range(hand'[d]) \subseteq 0..Len(sent)
      BY <1>5 DEF Ordered, SentInv
    <3> QED BY <1>1, <1>2, <3>1, <3>2 DEF Ordered, SentInv
  <2>7. \A i, j \in 1..Len(admitted') :
          i < j /\ Target(admitted'[i]) = Target(admitted'[j]) => admitted'[i] < admitted'[j]
    <3> SUFFICES ASSUME NEW i \in 1..Len(admitted'), NEW j \in 1..Len(admitted'),
                        i < j, Target(admitted'[i]) = Target(admitted'[j])
                 PROVE  admitted'[i] < admitted'[j]
      OBVIOUS
    <3>1. i \in 1..Len(admitted) /\ admitted'[i] = admitted[i]
      BY <2>2, <2>3
    <3>2. CASE j \in 1..Len(admitted)
      BY <2>3, <3>1, <3>2 DEF Ordered, OrderInv
    <3>3. CASE j = Len(admitted) + 1
      <4>1. admitted[i] \in Range(admitted)
        BY <2>2, <3>1, InRange
      <4> QED BY <2>3, <2>5, <3>1, <3>3, <4>1
    <3> QED BY <2>2, <2>3, <3>2, <3>3
  <2>8. \A m \in Range(admitted'), d \in Callers : \A n \in Range(hand'[d]) \ {Own} :
          Target(m) = Target(n) => m < n
    BY <1>5, <2>3 DEF Ordered, OrderInv
  <2>9. \A n \in Range(queue[Target(h)]) : h < n
    BY <1>4, <1>7 DEF Ordered, OrderInv
  <2>10. \A m \in Range(admitted') : \A n \in Range(queue[Target(m)]) : m < n
    BY <2>3, <2>9 DEF Ordered, OrderInv
  <2>11. \A d \in Callers : \A m \in Range(hand'[d]) \ {Own} : \A n \in Range(queue[Target(m)]) : m < n
    BY <1>5 DEF Ordered, OrderInv
  <2>12. \A t \in Targets : Sorted(queue[t])
    BY DEF Ordered, OrderInv
  <2>13. \A d \in Callers : Sorted(hand'[d])
    BY <1>1, <1>4, NoneInOrder
  <2>14. OrderInv'
    BY <1>1, <1>2, <2>7, <2>8, <2>10, <2>11, <2>12, <2>13 DEF OrderInv, Target
  <2> QED BY <2>6, <2>14 DEF Placed
<1> QED BY <1>6, <1>7

\* Every move keeps what was sent where it belongs.
LEMMA PlacedMoves == ASSUME Ordered, Moved PROVE Placed'
<1>1. CASE Sends
  BY <1>1, PlacedSends
<1>2. ASSUME NEW c \in Callers, Takes(c) \/ Brings(c) \/ Returns(c) \/ Discards(c) \/ Admits(c)
      PROVE Placed'
  BY <1>2, PlacedTakes, PlacedReturns, PlacedAdmits, PlacedRemovals
<1>3. CASE Stays \/ Clears \/ Loses
  BY <1>3, PlacedRemovals
<1> QED BY <1>1, <1>2, <1>3 DEF Moved

-----------------------------------------------------------------------------
(* Every step is one of the moves, and keeps HandInv.                      *)

\* When nobody holds anything, HandInv holds.
LEMMA HandsEmpty == ASSUME NoHands(Callers)' PROVE HandInv'
BY NoneInOrder DEF NoHands, HandInv

\* When only c does, HandInv is about c.
LEMMA HandOf ==
  ASSUME NEW c \in Callers, NoHands(Callers \ {c})', pc'[c] \in HoldPCs,
         Own \in Range(hand'[c]) => hand'[c] = <<Own>>,
         pc'[c] = "run_notify" => \A m \in Range(hand'[c]) :
            IF resv'[c] = "none" THEN m = Own ELSE m # Own /\ Target(m)' = resv'[c]
  PROVE  HandInv'
<1>1. \A d \in Callers \ {c} : Range(hand'[d]) = {} /\ hand'[d] = <<>>
  BY NoneInOrder DEF NoHands
<1> QED BY <1>1 DEF HandInv, Target

\* The caller that takes a step is the only one that may hold input, and holds
\* none at an await where nobody does.
LEMMA OwnHand ==
  ASSUME HandInv, NEW c \in Callers, Others(c)
  PROVE  NoHands(Callers \ {c}) /\ (pc[c] \notin HoldPCs => hand[c] = <<>> /\ NoHands(Callers))
<1>1. "out" \notin HoldPCs
  BY DEF HoldPCs
<1> QED BY <1>1 DEF HandInv, Others, NoHands

\* What any task may do moves no hand.
LEMMA MovesAnyone ==
  ASSUME TypeOK, HandInv, SentInv, Anyone \/ UNCHANGED vars
  PROVE  Moved /\ HandInv'
<1>1. UNCHANGED <<hand, pc, resv>>
  BY DEF Anyone, SendInput, ClearQueues, Abort, Reset, DetachedToolEnds, callerVars, vars
<1>2. Stays \/ Sends \/ Clears
  <2>1. CASE SendInput
    <3>0. /\ TargetOf("followup") = "next_turn"
          /\ TargetOf("steer") = "next_step" /\ TargetOf("inject") = "next_step"
      BY DEF TargetOf
    <3>1. \/ Send("followup", TargetOf("followup"), TRUE)
          \/ Send("steer", TargetOf("steer"), TRUE)
          \/ Send("inject", TargetOf("inject"), FALSE)
      BY <2>1, <3>0, Zenon DEF SendInput, Followup, Steer, Inject
    <3>2. \E alias \in Aliases, wakeup \in BOOLEAN : Send(alias, TargetOf(alias), wakeup)
      BY <3>1 DEF Aliases
    <3> QED BY <1>1, <2>1, <3>2 DEF SendInput, Sends, logVars
  <2>2. CASE ClearQueues
    BY <1>1, <2>2 DEF ClearQueues, Clears, logVars
  <2>3. CASE Reset
    <3>1. Targets \in SUBSET Targets
      OBVIOUS
    <3> QED BY <1>1, <2>3, <3>1 DEF Reset, Clears
  <2>4. CASE Abort \/ DetachedToolEnds \/ UNCHANGED vars
    BY <1>1, <2>4 DEF Abort, DetachedToolEnds, Stays, logVars, inboxVars, vars
  <2> QED BY <2>1, <2>2, <2>3, <2>4 DEF Anyone
<1>3. \A m \in 1..Len(sent) : Target(m)' = Target(m)
  <2>1. CASE sent' = sent
    BY <2>1 DEF Target
  <2>2. CASE Sends
    <3>1. PICK alias \in Aliases : sent' = Append(sent, alias)
      BY <2>2 DEF Sends, Send
    <3>2. sent \in Seq(Aliases)
      BY Typed
    <3>3. \A m \in 1..Len(sent) : sent'[m] = sent[m]
      BY <3>1, <3>2, AppendProperties
    <3> QED BY <3>3 DEF Target
  <2> QED BY <1>2, <2>1, <2>2 DEF Stays, Clears
<1>4. \A c \in Callers : \A m \in Range(hand[c]) \ {Own} : m \in 1..Len(sent)
  <2>1. \A c \in Callers : Range(hand[c]) \subseteq 0..Len(sent)
    BY DEF SentInv
  <2>2. (0..Len(sent)) \ {Own} \subseteq 1..Len(sent)
    BY Typed DEF Own
  <2> QED BY <2>1, <2>2
<1>5. HandInv'
  BY <1>1, <1>3, <1>4 DEF HandInv
<1> QED BY <1>2, <1>5 DEF Moved

\* Claiming a batch, on entry to a run or within it.
LEMMA MovesTakes ==
  ASSUME TypeOK, HandInv, SentInv, NEW c \in Callers, Others(c), pc[c] \notin HoldPCs \/ hand[c] = <<>>,
         NEW t \in Targets, Claim(t), hand' = [hand EXCEPT ![c] = Batch(t)],
         UNCHANGED <<sent, admitted, dropped>>,
         pc'[c] \in HoldPCs, pc'[c] = "run_notify" => resv'[c] = t
  PROVE  Moved /\ HandInv'
<1>1. NoHands(Callers)
  BY OwnHand DEF NoHands
<1>2. hand'[c] = Batch(t) /\ NoHands(Callers \ {c})'
  BY <1>1 DEF NoHands, TypeOK
<1>3. Batch(t) \in Seq(1..MaxSent) /\ Range(Batch(t)) \subseteq Range(queue[t])
  BY BatchType, Split DEF TypeOK
<1>4. \A m \in Range(Batch(t)) : m # Own /\ Target(m) = t
  <2>1. Range(Batch(t)) \subseteq 1..MaxSent
    BY <1>3, RangeType
  <2>2. Own \notin 1..MaxSent
    BY InboxAssumption DEF Own
  <2> QED BY <1>3, <2>1, <2>2 DEF SentInv
<1>5. \A m : Target(m)' = Target(m)
  BY DEF Target
<1>6. t # "none"
  BY DEF Targets
<1>7. HandInv'
  BY <1>2, <1>4, <1>5, <1>6, HandOf
<1> QED BY <1>1, <1>7 DEF Moved, Takes

\* Bringing one's own message, or nothing, into a run.
LEMMA MovesBrings ==
  ASSUME TypeOK, HandInv, NEW c \in Callers, Others(c), pc[c] \notin HoldPCs,
         NEW b \in {<<>>, <<Own>>}, hand' = [hand EXCEPT ![c] = b],
         UNCHANGED <<queue, sent, admitted, dropped>>,
         pc'[c] = "run_notify", resv'[c] = "none"
  PROVE  Moved /\ HandInv'
<1>1. NoHands(Callers)
  BY OwnHand
<1>2. hand'[c] = b /\ NoHands(Callers \ {c})'
  BY <1>1 DEF NoHands, TypeOK
<1>3. \A m \in Range(b) : m = Own /\ b = <<Own>>
  BY NoneInOrder, Single
<1>4. HandInv'
  BY <1>2, <1>3, HandOf DEF HoldPCs
<1> QED BY <1>1, <1>4 DEF Moved, Brings

\* Letting go of what is held.
LEMMA MovesDiscards ==
  ASSUME TypeOK, HandInv, NEW c \in Callers, Others(c), DropHand(c), UNCHANGED <<queue, sent, admitted>>
  PROVE  Moved /\ HandInv'
<1>1. NoHands(Callers)'
  BY OwnHand DEF DropHand, NoHands, TypeOK
<1>2. <<>> \in Seq(0..MaxSent)
  OBVIOUS
<1>3. Discards(c)
  BY <1>2, NoneInOrder DEF DropHand, Discards
<1> QED BY <1>1, <1>3, HandsEmpty DEF Moved

\* Leaving out of a sorted batch keeps it sorted, and adds nothing to it.
LEMMA RemovedSorted ==
  ASSUME NEW s \in Seq(Nat), NEW i \in DOMAIN s
  PROVE  /\ Range(RemoveAt(s, i)) \subseteq Range(s)
         /\ Sorted(s) => Sorted(RemoveAt(s, i))
         /\ Len(s) = 1 => RemoveAt(s, i) = <<>>
<1> DEFINE r == RemoveAt(s, i)
<1>1. /\ Len(s) \in Nat /\ i \in 1..Len(s) /\ r \in Seq(Nat) /\ Len(r) = Len(s) - 1
      /\ \A j \in 1..(Len(s) - 1) : r[j] = s[IF j < i THEN j ELSE j + 1]
  BY KeptType, LenProperties
<1> HIDE DEF r
<1>2. Range(r) \subseteq Range(s)
  <2>1. ASSUME NEW j \in 1..Len(r) PROVE r[j] \in Range(s)
    <3>1. (IF j < i THEN j ELSE j + 1) \in 1..Len(s)
      BY <1>1
    <3> QED BY <1>1, <3>1, InRange
  <2> QED BY <1>1, <2>1, InRange
<1>3. Sorted(s) => Sorted(r)
  <2> SUFFICES ASSUME Sorted(s), NEW j \in 1..Len(r), NEW k \in 1..Len(r), j < k PROVE r[j] < r[k]
    BY DEF Sorted
  <2>1. (IF j < i THEN j ELSE j + 1) \in 1..Len(s) /\ (IF k < i THEN k ELSE k + 1) \in 1..Len(s)
    BY <1>1
  <2>2. (IF j < i THEN j ELSE j + 1) < (IF k < i THEN k ELSE k + 1)
    <3>1. i \in Nat /\ j \in Nat /\ k \in Nat /\ j < k
      BY <1>1
    <3> QED BY <3>1
  <2>3. r[j] = s[IF j < i THEN j ELSE j + 1] /\ r[k] = s[IF k < i THEN k ELSE k + 1]
    BY <1>1
  <2> QED BY <2>1, <2>2, <2>3 DEF Sorted
<1>4. Len(s) = 1 => r = <<>>
  BY <1>1, EmptySeq
<1> QED BY <1>2, <1>3, <1>4 DEF r

\* Deciding on other messages than were claimed.
LEMMA MovesSubstitutes ==
  ASSUME TypeOK, HandInv, \A d \in Callers : Sorted(hand[d]),
         NEW c \in Callers, Others(c), PreStepSubstitutes(c)
  PROVE  Moved /\ HandInv'
<1>1. PICK kept \in {<<Own>>} \cup {RemoveAt(hand[c], i) : i \in DOMAIN hand[c]} :
        /\ hand' = [hand EXCEPT ![c] = kept]
        /\ dropped' = dropped \cup (Range(hand[c]) \ (Range(kept) \cup {Own}))
  BY DEF PreStepSubstitutes
<1>2. pc[c] = "pre_step" /\ UNCHANGED <<queue, sent, admitted, pc, resv>>
  BY DEF PreStepSubstitutes, At, inboxVars, logVars
<1>3. hand[c] \in Seq(0..MaxSent) /\ hand[c] \in Seq(Nat) /\ <<Own>> \in Seq(0..MaxSent)
  BY Typed, InboxAssumption DEF Own
<1>4. /\ kept \in Seq(0..MaxSent) /\ Range(kept) \subseteq Range(hand[c]) \cup {Own} /\ Sorted(kept)
      /\ Own \in Range(kept) => kept = <<Own>>
  <2>1. CASE kept = <<Own>>
    BY <1>3, <2>1, Single
  <2>2. CASE kept # <<Own>>
    <3>1. PICK i \in DOMAIN hand[c] : kept = RemoveAt(hand[c], i)
      BY <2>2
    <3>2. kept \in Seq(0..MaxSent) /\ Range(kept) \subseteq Range(hand[c]) /\ Sorted(kept)
      BY <1>3, <3>1, KeptType, RemovedSorted
    <3>3. Own \notin Range(kept)
      <4>1. SUFFICES ASSUME hand[c] = <<Own>> PROVE Range(kept) = {}
        BY <3>2 DEF HandInv
      <4>2. Len(hand[c]) = 1
        BY <4>1
      <4> QED BY <1>3, <3>1, <4>2, RemovedSorted, NoneInOrder
    <3> QED BY <3>2, <3>3
  <2> QED BY <2>1, <2>2
<1>5. Discards(c)
  BY <1>1, <1>2, <1>4 DEF Discards
<1>6. NoHands(Callers \ {c})' /\ hand'[c] = kept
  BY <1>1, OwnHand DEF NoHands, TypeOK
<1>7. pc'[c] = "pre_step" /\ "pre_step" \in HoldPCs
  BY <1>2 DEF HoldPCs
<1>8. HandInv'
  BY <1>4, <1>6, <1>7, HandOf
<1> QED BY <1>5, <1>8 DEF Moved

\* Carrying it, or nothing, to the next await.
LEMMA MovesStays ==
  ASSUME TypeOK, HandInv, NEW c \in Callers, Others(c), UNCHANGED <<queue, sent, hand, admitted, dropped>>,
         \/ pc[c] \notin HoldPCs
         \/ hand[c] = <<>>
         \/ pc'[c] \in HoldPCs /\ pc'[c] # "run_notify"
  PROVE  Moved /\ HandInv'
<1>1. Moved
  BY DEF Moved, Stays
<1>2. CASE hand[c] = <<>>
  <2>1. NoHands(Callers)'
    BY <1>2, OwnHand DEF NoHands
  <2> QED BY <1>1, <2>1, HandsEmpty
<1>3. CASE hand[c] # <<>>
  <2>1. pc'[c] \in HoldPCs /\ pc'[c] # "run_notify"
    BY <1>3, OwnHand
  <2>2. NoHands(Callers \ {c})'
    BY OwnHand DEF NoHands
  <2> QED BY <1>1, <2>1, <2>2, HandOf DEF HandInv
<1> QED BY <1>2, <1>3

\* Entering a run by run_until_idle().
LEMMA MovesPump ==
  ASSUME TypeOK, HandInv, SentInv, NEW c \in Callers, Others(c), pc[c] \notin HoldPCs,
         PumpClaims(c), UNCHANGED <<sent, admitted, dropped>>
  PROVE  Moved /\ HandInv'
<1>1. /\ Claim("next_turn") /\ hand' = [hand EXCEPT ![c] = Batch("next_turn")]
      /\ resv' = [resv EXCEPT ![c] = "next_turn"] /\ Goto(c, "run_notify")
  BY DEF PumpClaims, Enter
<1>2. pc'[c] = "run_notify" /\ resv'[c] = "next_turn" /\ "run_notify" \in HoldPCs
  BY <1>1, Moves, PCsMembers DEF HoldPCs, TypeOK
<1>3. "next_turn" \in Targets
  BY DEF Targets
<1> QED BY <1>1, <1>2, <1>3, MovesTakes

\* The entry points.
LEMMA MovesEntry ==
  ASSUME IndInv, HandInv, SentInv, NEW c \in Callers, EntryPoint(c)
  PROVE  Moved /\ HandInv'
<1>0. TypeOK /\ "out" \notin HoldPCs /\ "run_notify" \in HoldPCs
  BY DEF IndInv, HoldPCs
<1>1. CASE Prompt(c)
  <2>1. Others(c) /\ pc[c] = "out"
    BY <1>1, Alone DEF Prompt, At, Enter
  <2>2. /\ hand' = [hand EXCEPT ![c] = <<Own>>] /\ UNCHANGED <<queue, sent, admitted, dropped>>
        /\ resv' = [resv EXCEPT ![c] = "none"] /\ Goto(c, "run_notify")
    BY <1>1 DEF Prompt, Enter, inboxVars, logVars
  <2>3. pc'[c] = "run_notify" /\ resv'[c] = "none"
    BY <1>0, <2>2, Moves, PCsMembers DEF TypeOK
  <2> QED BY <1>0, <2>1, <2>2, <2>3, MovesBrings
<1>2. CASE Continue(c)
  <2>1. Others(c) /\ pc[c] = "out"
    BY <1>2, Alone DEF Continue, At, Enter
  <2>2. UNCHANGED <<sent, admitted, dropped>>
    BY <1>2 DEF Continue, logVars
  <2>3. CASE \E t \in Targets, k \in BOOLEAN : Claim(t) /\ Enter(c, "continue", Batch(t), t, k)
    <3>1. PICK t \in Targets, k \in BOOLEAN : Claim(t) /\ Enter(c, "continue", Batch(t), t, k)
      BY <2>3
    <3>2. /\ hand' = [hand EXCEPT ![c] = Batch(t)]
          /\ resv' = [resv EXCEPT ![c] = t] /\ Goto(c, "run_notify")
      BY <3>1 DEF Enter
    <3>3. pc'[c] = "run_notify" /\ resv'[c] = t
      BY <1>0, <3>2, Moves, PCsMembers DEF TypeOK
    <3> QED BY <1>0, <2>1, <2>2, <3>1, <3>2, <3>3, MovesTakes
  <2>4. CASE Enter(c, "continue", <<>>, "none", FALSE) /\ UNCHANGED queue
    <3>1. /\ hand' = [hand EXCEPT ![c] = <<>>]
          /\ resv' = [resv EXCEPT ![c] = "none"] /\ Goto(c, "run_notify")
      BY <2>4 DEF Enter
    <3>2. pc'[c] = "run_notify" /\ resv'[c] = "none"
      BY <1>0, <3>1, Moves, PCsMembers DEF TypeOK
    <3> QED BY <1>0, <2>1, <2>2, <2>4, <3>1, <3>2, MovesBrings
  <2>5. \/ Claim("next_step") /\ Enter(c, "continue", Batch("next_step"), "next_step", TRUE)
        \/ Claim("next_turn") /\ Enter(c, "continue", Batch("next_turn"), "next_turn", FALSE)
        \/ Enter(c, "continue", <<>>, "none", FALSE) /\ UNCHANGED queue
    BY <1>2 DEF Continue
  <2>6. "next_step" \in Targets /\ "next_turn" \in Targets
    BY DEF Targets
  <2> QED BY <2>3, <2>4, <2>5, <2>6
<1>3. CASE RunUntilIdle(c) /\ PumpClaims(c)
  <2>1. Others(c) /\ pc[c] = "out"
    BY <1>3, Alone DEF RunUntilIdle, PumpClaims, At, Enter
  <2>2. UNCHANGED <<sent, admitted, dropped>>
    BY <1>3 DEF RunUntilIdle, logVars
  <2> QED BY <1>0, <1>3, <2>1, <2>2, MovesPump
<1>4. CASE RunUntilIdle(c) /\ PumpSettles(c)
  <2>1. pc' = pc
    BY <1>0, <1>4 DEF RunUntilIdle, PumpSettles, At, Goto, TypeOK
  <2>2. UNCHANGED <<queue, sent, hand, resv, admitted, dropped>>
    BY <1>4 DEF RunUntilIdle, PumpSettles, logVars
  <2>3. HandInv'
    BY <2>1, <2>2 DEF HandInv, Target
  <2> QED BY <2>2, <2>3 DEF Moved, Stays
<1>5. CASE RunUntilIdleRefused(c)
  <2>1. UNCHANGED <<sent, hand, pc, resv, admitted, dropped>> /\ Claim("next_turn")
    BY <1>5 DEF RunUntilIdleRefused, callerVars, logVars
  <2>2. HandInv'
    BY <2>1 DEF HandInv, Target
  <2>3. Loses
    BY <1>5 DEF Loses
  <2> QED BY <2>2, <2>3 DEF Moved
<1> QED BY <1>1, <1>2, <1>3, <1>4, <1>5 DEF EntryPoint, RunUntilIdle

\* Every way a run is left by an exception.
LEMMA MovesIntervenes ==
  ASSUME IndInv, HandInv, \A d \in Callers : Sorted(hand[d]), NEW c \in Callers, Intervenes(c)
  PROVE  Moved /\ HandInv'
<1>0. TypeOK /\ Others(c) /\ Local(c)
  BY Busy, Alone DEF IndInv, Support
<1>1. CASE RunNotifyRaised(c)
  <2>1. /\ pc[c] = "run_notify" /\ hand' = [hand EXCEPT ![c] = <<>>]
        /\ UNCHANGED <<sent, admitted, dropped>>
    BY <1>1 DEF RunNotifyRaised, logVars
  <2>2. NoHands(Callers)' /\ NoHands(Callers \ {c})
    BY <1>0, <2>1, OwnHand DEF NoHands, TypeOK
  <2>3. CASE resv[c] = "none"
    <3>1. queue' = queue
      BY <1>1, <2>3 DEF RunNotifyRaised
    <3>2. Range(hand[c]) \ {Own} = {}
      BY <2>1, <2>3 DEF HandInv
    <3>3. DropHand(c)
      BY <2>1, <3>2 DEF DropHand
    <3> QED BY <1>0, <2>1, <3>1, <3>3, MovesDiscards
  <2>4. CASE resv[c] # "none"
    <3>1. Rollback(resv[c], hand[c]) /\ hand[c] \in Seq(1..MaxSent) /\ resv[c] \in Targets
      BY <1>0, <1>1, <2>4 DEF RunNotifyRaised, Local, TypeOK
    <3>2. \A m \in Range(hand[c]) : Target(m) = resv[c]
      BY <2>1, <2>4 DEF HandInv
    <3>3. Returns(c)
      BY <2>1, <2>2, <3>1, <3>2 DEF Returns
    <3> QED BY <2>2, <3>3, HandsEmpty DEF Moved
  <2> QED BY <2>3, <2>4
<1>2. CASE IdleNotifyRaised(c)
  <2>1. pc[c] \notin HoldPCs /\ UNCHANGED <<queue, sent, hand, admitted, dropped>>
    BY <1>2 DEF IdleNotifyRaised, HoldPCs, inboxVars, logVars
  <2> QED BY <1>0, <2>1, MovesStays
<1>3. CASE ListenerRaises(c) \/ BatchRaises(c) \/ RunEscapes(c)
  <2>1. DropHand(c) /\ UNCHANGED <<queue, sent, admitted>>
    BY <1>3 DEF ListenerRaises, BatchRaises, RunEscapes, Fail, Finish, inboxVars, logVars
  <2> QED BY <1>0, <2>1, MovesDiscards
<1>4. CASE PreStepSubstitutes(c)
  BY <1>0, <1>4, MovesSubstitutes
<1> QED BY <1>1, <1>2, <1>3, <1>4 DEF Intervenes

\* Admitting the next message, or going on to the steering poll or the model.
LEMMA MovesAdmit ==
  ASSUME IndInv, HandInv, SentInv, NEW c \in Callers, Others(c), AdmitNext(c),
         UNCHANGED <<sent, admitted, resv, dropped>>
  PROVE  Moved /\ HandInv'
<1>0. TypeOK
  BY DEF IndInv
<1>1. CASE hand[c] # <<>>
  <2>1. UNCHANGED <<queue, hand>> /\ Goto(c, "user_start")
    BY <1>1 DEF AdmitNext
  <2>2. "user_start" \in PCs /\ "user_start" \in HoldPCs
    BY DEF PCs, AwaitPCs, ListenerPCs, HoldPCs
  <2>3. pc'[c] = "user_start"
    BY <1>0, <2>1, <2>2, Moves
  <2> QED BY <1>0, <2>1, <2>2, <2>3, MovesStays
<1>2. CASE hand[c] = <<>> /\ queue' = queue /\ hand' = hand
  BY <1>0, <1>2, MovesStays
<1>3. CASE /\ hand[c] = <<>> /\ Claim("next_step")
           /\ hand' = [hand EXCEPT ![c] = Batch("next_step")] /\ Goto(c, "pre_step")
  <2>1. "pre_step" \in PCs /\ "pre_step" \in HoldPCs /\ "next_step" \in Targets
    BY DEF PCs, AwaitPCs, ListenerPCs, HoldPCs, Targets
  <2>2. pc'[c] = "pre_step"
    BY <1>0, <1>3, <2>1, Moves
  <2> QED BY <1>0, <1>3, <2>1, <2>2, MovesTakes
<1> QED BY <1>1, <1>2, <1>3 DEF AdmitNext, Admitted

\* The step of the transcript.
LEMMA MovesUser ==
  ASSUME IndInv, HandInv, NEW c \in Callers, Others(c), UserMessageStarted(c)
  PROVE  Moved /\ HandInv'
<1>0. TypeOK /\ pc[c] = "user_start" /\ hand[c] # <<>>
  BY DEF IndInv, Support, Local, UserMessageStarted, At
<1>1. /\ hand' = [hand EXCEPT ![c] = Tail(hand[c])] /\ UNCHANGED <<queue, sent, dropped>>
      /\ admitted' = IF Head(hand[c]) = Own THEN admitted ELSE Append(admitted, Head(hand[c]))
      /\ Goto(c, "user_end")
  BY <1>0 DEF UserMessageStarted, inboxVars, TypeOK
<1>2. "user_end" \in PCs /\ "user_end" \in HoldPCs
  BY DEF PCs, AwaitPCs, ListenerPCs, HoldPCs
<1>3. pc'[c] = "user_end"
  BY <1>0, <1>1, <1>2, Moves
<1>4. NoHands(Callers \ {c}) /\ NoHands(Callers \ {c})' /\ hand'[c] = Tail(hand[c])
  BY <1>0, <1>1, OwnHand DEF NoHands, TypeOK
<1>5. ASSUME Own \in Range(hand'[c]) PROVE FALSE
  <2>1. Range(hand[c]) = {Head(hand[c])} \cup Range(Tail(hand[c]))
    BY <1>0, Typed, HeadSorted
  <2>2. hand[c] = <<Own>>
    BY <1>4, <1>5, <2>1 DEF HandInv
  <2>3. Tail(<<Own>>) = <<>>
    OBVIOUS
  <2> QED BY <1>4, <1>5, <2>2, <2>3, NoneInOrder
<1>6. HandInv'
  BY <1>2, <1>3, <1>4, <1>5, HandOf
<1>7. Admits(c)
  BY <1>0, <1>1, <1>4 DEF Admits
<1> QED BY <1>6, <1>7 DEF Moved

\* The steps of a run that move no input, most of them where none is held.
LEMMA MovesElsewhere ==
  ASSUME TypeOK, HandInv, NEW c \in Callers, Others(c),
         \/ RunNotified(c) \/ AgentStarted(c) \/ InitialTurnStarted(c)
         \/ TurnStarted(c) \/ ContextTransformed(c)
         \/ StreamChunk(c) \/ ChunkDispatched(c) \/ StreamEnds(c)
         \/ LateStartDispatched(c) \/ MessageEnded(c) \/ ErrorTurnEnded(c)
         \/ ToolStarts(c) \/ ToolEnds(c) \/ BatchEnds(c)
         \/ ResultStarted(c) \/ ResultEnded(c) \/ TurnEnded(c)
         \/ NextTurnPrepared(c) \/ TurnStops(c)
         \/ FailureStarted(c) \/ FailureEnded(c) \/ FailureTurnEnded(c)
  PROVE  Moved /\ HandInv'
<1>1. CASE RunNotified(c) \/ AgentStarted(c) \/ InitialTurnStarted(c)
  <2>1. UNCHANGED <<queue, sent, hand, admitted, dropped>>
    BY <1>1 DEF RunNotified, AgentStarted, InitialTurnStarted, inboxVars, logVars
  <2>2. \E w \in {"agent_start", "turn_start0", "pre_step"} : Goto(c, w)
    BY <1>1 DEF RunNotified, AgentStarted, InitialTurnStarted
  <2>3. {"agent_start", "turn_start0", "pre_step"} \subseteq PCs
    BY DEF PCs, AwaitPCs, ListenerPCs
  <2>4. pc'[c] \in {"agent_start", "turn_start0", "pre_step"}
    BY <2>2, <2>3, Moves
  <2> QED BY <2>1, <2>4, MovesStays DEF HoldPCs
<1>2. CASE TurnStarted(c) \/ ContextTransformed(c)
  <2>1. UNCHANGED <<queue, sent, hand, admitted, dropped>> /\ pc[c] \notin HoldPCs
    BY <1>2 DEF TurnStarted, ContextTransformed, At, HoldPCs, inboxVars, logVars
  <2> QED BY <2>1, MovesStays
<1>3. CASE StreamChunk(c) \/ ChunkDispatched(c) \/ StreamEnds(c)
  <2>1. CASE StreamChunk(c)
    <3>1. UNCHANGED <<queue, sent, hand, admitted, dropped>>
      BY <2>1 DEF StreamChunk, inboxVars, logVars
    <3>2. pc[c] \notin HoldPCs
      BY <2>1 DEF StreamChunk, At, HoldPCs
    <3> QED BY <3>1, <3>2, MovesStays
  <2>2. CASE ChunkDispatched(c)
    <3>1. UNCHANGED <<queue, sent, hand, admitted, dropped>>
      BY <2>2 DEF ChunkDispatched, inboxVars, logVars
    <3>2. pc[c] \notin HoldPCs
      BY <2>2 DEF ChunkDispatched, At, HoldPCs
    <3> QED BY <3>1, <3>2, MovesStays
  <2>3. CASE StreamEnds(c)
    <3>0. At(c, "stream") /\ UNCHANGED <<inboxVars, hand, dropped>> /\ UNCHANGED admitted
      BY <2>3, Zenon DEF StreamEnds
    <3>1. UNCHANGED <<queue, sent, hand, admitted, dropped>>
      BY <3>0 DEF inboxVars
    <3>2. pc[c] \notin HoldPCs
      BY <3>0 DEF At, HoldPCs
    <3> QED BY <3>1, <3>2, MovesStays
  <2> QED BY <1>3, <2>1, <2>2, <2>3
<1>4. CASE LateStartDispatched(c) \/ MessageEnded(c) \/ ErrorTurnEnded(c)
  <2>1. UNCHANGED <<queue, sent, hand, admitted, dropped>> /\ pc[c] \notin HoldPCs
    BY <1>4 DEF LateStartDispatched, MessageEnded, ErrorTurnEnded, At, HoldPCs, inboxVars, logVars
  <2> QED BY <2>1, MovesStays
<1>5. CASE ToolStarts(c) \/ ToolEnds(c) \/ BatchEnds(c)
  <2>1. CASE ToolStarts(c)
    <3>1. UNCHANGED <<queue, sent, hand, admitted, dropped>>
      BY <2>1 DEF ToolStarts, inboxVars, logVars
    <3>2. pc[c] \notin HoldPCs
      BY <2>1 DEF ToolStarts, At, HoldPCs
    <3> QED BY <3>1, <3>2, MovesStays
  <2>2. CASE ToolEnds(c)
    <3>1. UNCHANGED <<queue, sent, hand, admitted, dropped>>
      BY <2>2 DEF ToolEnds, inboxVars, logVars, callerVars
    <3>2. pc[c] \notin HoldPCs
      BY <2>2 DEF ToolEnds, At, HoldPCs
    <3> QED BY <3>1, <3>2, MovesStays
  <2>3. CASE BatchEnds(c)
    <3>0. At(c, "tools") /\ UNCHANGED <<inboxVars, hand, dropped>> /\ UNCHANGED logVars
      BY <2>3, Zenon DEF BatchEnds
    <3>1. UNCHANGED <<queue, sent, hand, admitted, dropped>>
      BY <3>0 DEF inboxVars, logVars
    <3>2. pc[c] \notin HoldPCs
      BY <3>0 DEF At, HoldPCs
    <3> QED BY <3>1, <3>2, MovesStays
  <2> QED BY <1>5, <2>1, <2>2, <2>3
<1>6. CASE ResultStarted(c) \/ ResultEnded(c) \/ TurnEnded(c)
  <2>1. UNCHANGED <<queue, sent, hand, admitted, dropped>> /\ pc[c] \notin HoldPCs
    BY <1>6 DEF ResultStarted, ResultEnded, TurnEnded, At, HoldPCs, inboxVars, logVars
  <2> QED BY <2>1, MovesStays
<1>7. CASE NextTurnPrepared(c) \/ TurnStops(c)
  <2>1. UNCHANGED <<queue, sent, hand, admitted, dropped>> /\ pc[c] \notin HoldPCs
    BY <1>7 DEF NextTurnPrepared, TurnStops, At, HoldPCs, inboxVars, logVars
  <2> QED BY <2>1, MovesStays
<1>8. CASE FailureStarted(c) \/ FailureEnded(c) \/ FailureTurnEnded(c)
  <2>1. UNCHANGED <<queue, sent, hand, admitted, dropped>> /\ pc[c] \notin HoldPCs
    BY <1>8 DEF FailureStarted, FailureEnded, FailureTurnEnded, At, HoldPCs, inboxVars, logVars
  <2> QED BY <2>1, MovesStays
<1> QED BY <1>1, <1>2, <1>3, <1>4, <1>5, <1>6, <1>7, <1>8

\* The steps of a run.
LEMMA MovesRunStep ==
  ASSUME IndInv, HandInv, SentInv, NEW c \in Callers, RunStep(c)
  PROVE  Moved /\ HandInv'
<1>0. TypeOK /\ Others(c)
  BY Busy, Alone DEF IndInv
<1>1. CASE PreStepEnters(c) \/ UserMessageEnded(c)
  BY <1>0, <1>1, MovesAdmit DEF PreStepEnters, UserMessageEnded
<1>2. CASE PreStepRejects(c) \/ AgentEnded(c) \/ FailureAgentEnded(c)
  <2>1. DropHand(c) /\ UNCHANGED <<queue, sent, admitted>>
    BY <1>2 DEF PreStepRejects, AgentEnded, FailureAgentEnded, Finish, inboxVars, logVars
  <2> QED BY <1>0, <2>1, MovesDiscards
<1>3. CASE UserMessageStarted(c)
  BY <1>0, <1>3, MovesUser
<1>4. CASE TurnContinues(c)
  <2>1. pc[c] \notin HoldPCs /\ UNCHANGED <<sent, admitted, resv, dropped>>
    BY <1>4 DEF TurnContinues, At, HoldPCs
  <2>2. CASE \E t \in Targets : ClaimsNext(c, t)
    <3>1. PICK t \in Targets : ClaimsNext(c, t)
      BY <2>2
    <3>2. Claim(t) /\ hand' = [hand EXCEPT ![c] = Batch(t)] /\ Goto(c, "pre_step")
      BY <3>1 DEF ClaimsNext
    <3>3. "pre_step" \in PCs /\ "pre_step" \in HoldPCs
      BY DEF PCs, AwaitPCs, ListenerPCs, HoldPCs
    <3>4. pc'[c] = "pre_step"
      BY <1>0, <3>2, <3>3, Moves
    <3> QED BY <1>0, <2>1, <3>2, <3>3, <3>4, MovesTakes
  <2>3. CASE UNCHANGED <<queue, hand>>
    BY <1>0, <2>1, <2>3, MovesStays
  <2> QED BY <1>4, <2>2, <2>3 DEF TurnContinues, Targets
<1>5. CASE IdleNotified(c)
  <2>1. pc[c] \notin HoldPCs /\ UNCHANGED <<sent, admitted, dropped>>
    BY <1>5 DEF IdleNotified, HoldPCs, logVars
  <2>2. CASE PumpClaims(c)
    BY <1>0, <2>1, <2>2, MovesPump
  <2>3. CASE UNCHANGED <<queue, hand>>
    BY <1>0, <2>1, <2>3, MovesStays
  <2> QED BY <1>5, <2>2, <2>3 DEF IdleNotified, PumpSettles
<1> QED BY <1>0, <1>1, <1>2, <1>3, <1>4, <1>5, MovesElsewhere DEF RunStep

\* The invariant holds initially.
LEMMA InputInit == Init => InputInv
<1> SUFFICES ASSUME Init PROVE InputInv
  OBVIOUS
<1>1. /\ \A t \in Targets : queue[t] = <<>>
      /\ \A c \in Callers : hand[c] = <<>>
      /\ admitted = <<>> /\ \A i, j \in 1..Len(admitted) : FALSE
  <2>1. 1..Len(<<>>) = {}
    OBVIOUS
  <2> QED BY <2>1 DEF Init, InboxInit
<1>2. \A m : Target(m) \in Targets
  BY DEF Target, TargetOf, Targets
<1>3. HandInv
  BY <1>1, NoneInOrder DEF HandInv
<1>4. SentInv
  BY <1>1, NoneInOrder DEF SentInv
<1>5. OrderInv
  BY <1>1, <1>2, NoneInOrder DEF OrderInv
<1> QED BY <1>3, <1>4, <1>5 DEF InputInv

\* Every step moves envelopes in one of the ways above.
LEMMA InputMoves == IndInv /\ InputInv /\ [Next]_vars => Moved /\ HandInv'
<1> SUFFICES ASSUME IndInv, InputInv, [Next]_vars PROVE Moved /\ HandInv'
  OBVIOUS
<1>0. TypeOK /\ HandInv /\ SentInv /\ \A d \in Callers : Sorted(hand[d])
  BY DEF IndInv, InputInv, OrderInv
<1>1. CASE Anyone \/ UNCHANGED vars
  BY <1>0, <1>1, MovesAnyone
<1>2. ASSUME NEW c \in Callers, EntryPoint(c) \/ RunStep(c) \/ Intervenes(c) PROVE Moved /\ HandInv'
  BY <1>0, <1>2, MovesEntry, MovesRunStep, MovesIntervenes
<1> QED BY <1>1, <1>2 DEF Next

\* So every step keeps the invariant.
LEMMA InputNext == IndInv /\ InputInv /\ [Next]_vars => InputInv'
<1> SUFFICES ASSUME IndInv, InputInv, [Next]_vars PROVE InputInv'
  OBVIOUS
<1>1. Moved /\ HandInv'
  BY InputMoves
<1>2. Ordered
  BY DEF Ordered, IndInv, InputInv, HandInv
<1> QED BY <1>1, <1>2, PlacedMoves DEF InputInv, Placed

\* The order of input holds in every state: the lemmas above, for each action.
LEMMA InputInvariance == Spec => []InputInv
BY Invariance, InputInit, InputNext, PTL DEF Spec

\* An envelope that is queued or held has everything admitted of its target
\* before it; in the transcript, smaller ones come first.
LEMMA OrderedPlaces == TypeOK /\ InputInv => InputInOrder
<1> SUFFICES ASSUME TypeOK, InputInv,
                    NEW i \in DOMAIN admitted, NEW m \in 1..(admitted[i] - 1),
                    TargetOf(sent[m]) = TargetOf(sent[admitted[i]]), NEW p \in Places(m)
             PROVE  p[1] = "log" /\ p[3] < i
  BY DEF InputInOrder
<1>0. /\ DOMAIN admitted = 1..Len(admitted) /\ Len(admitted) \in Nat
      /\ admitted[i] \in Nat /\ admitted[i] \in Range(admitted)
      /\ \A j \in DOMAIN admitted : admitted[j] \in Nat
  <2>1. admitted \in Seq(Nat)
    BY Typed
  <2> QED BY <2>1, LenProperties, ElementOfSeq, InRange
<1>1. m \in Nat /\ m < admitted[i] /\ m # Own /\ Target(m) = Target(admitted[i])
  BY <1>0 DEF Own, Target
<1>2. ASSUME NEW t \in Targets, NEW k \in 1..MaxSent, k <= Len(queue[t]), queue[t][k] = m PROVE FALSE
  <2>1. queue[t] \in Seq(Nat) /\ k \in 1..Len(queue[t])
    BY <1>2, Typed, LenProperties
  <2>2. m \in Range(queue[t])
    BY <1>2, <2>1, InRange
  <2>3. admitted[i] < m
    BY <1>0, <1>1, <2>2 DEF InputInv, SentInv, OrderInv
  <2> QED BY <1>0, <1>1, <2>3
<1>3. ASSUME NEW c \in Callers, NEW k \in 1..MaxSent, k <= Len(hand[c]), hand[c][k] = m PROVE FALSE
  <2>1. hand[c] \in Seq(Nat) /\ k \in 1..Len(hand[c])
    BY <1>3, Typed, LenProperties
  <2>2. m \in Range(hand[c]) \ {Own}
    BY <1>1, <1>3, <2>1, InRange
  <2>3. admitted[i] < m
    BY <1>0, <1>1, <2>2 DEF InputInv, OrderInv
  <2> QED BY <1>0, <1>1, <2>3
<1>4. ASSUME NEW j \in DOMAIN admitted, admitted[j] = m PROVE j < i
  <2>1. ASSUME i < j PROVE FALSE
    <3>1. admitted[i] < admitted[j]
      BY <1>0, <1>1, <1>4, <2>1 DEF InputInv, OrderInv
    <3> QED BY <1>0, <1>1, <1>4, <3>1
  <2>2. i # j
    BY <1>0, <1>1, <1>4
  <2> QED BY <1>0, <2>1, <2>2
<1>5. PICK j \in DOMAIN admitted : p = <<"log", "log", j>> /\ admitted[j] = m
  BY <1>2, <1>3 DEF Places
<1> QED BY <1>4, <1>5

\* Envelopes of one queue enter the transcript in the order they were sent,
\* and none is overtaken while it waits: rollbacks of a refused RUNNING
\* notification, claims and sends in between included.
THEOREM InputEntersInOrder == Spec => []InputInOrder
<1>1. IndInv /\ InputInv => InputInOrder
  BY OrderedPlaces DEF IndInv
<1> QED BY <1>1, Invariance, InputInvariance, PTL

-----------------------------------------------------------------------------
(* None is lost or doubled.  An envelope has at most one place, because    *)
(* places are ordered; so it is accounted for if it is somewhere exactly   *)
(* while it was not discarded on purpose, and every move but Loses keeps   *)
(* that (Ledger).                                                          *)

InQueue(m) == \E t \in Targets : m \in Range(queue[t])

InHand(m) == \E c \in Callers : m \in Range(hand[c])

InLog(m) == m \in Range(admitted)

Somewhere(m) == InQueue(m) \/ InHand(m) \/ InLog(m)

Ledger == \A m \in 1..Len(sent) : Accounted(m) <=> (m \in dropped <=> ~Somewhere(m))

\* A sorted sequence names no envelope twice, so it is not longer than their
\* number.
LEMMA SortedOnce ==
  ASSUME NEW s \in Seq(Nat), Sorted(s)
  PROVE  /\ \A i, j \in 1..Len(s) : s[i] = s[j] => i = j
         /\ Range(s) \subseteq 1..MaxSent => Len(s) <= MaxSent
<1>0. Len(s) \in Nat /\ DOMAIN s = 1..Len(s) /\ \A i \in 1..Len(s) : s[i] \in Nat
  BY LenProperties, ElementOfSeq
<1>1. \A i, j \in 1..Len(s) : s[i] = s[j] => i = j
  <2> SUFFICES ASSUME NEW i \in 1..Len(s), NEW j \in 1..Len(s), s[i] = s[j], i # j PROVE FALSE
    OBVIOUS
  <2>1. i < j => s[i] < s[j]
    BY DEF Sorted
  <2>2. j < i => s[j] < s[i]
    BY DEF Sorted
  <2> QED BY <1>0, <2>1, <2>2
<1>2. ASSUME Range(s) \subseteq 1..MaxSent, Len(s) > MaxSent PROVE FALSE
  <2>1. s \in [1..Len(s) -> 1..MaxSent]
    <3>1. \A i \in 1..Len(s) : s[i] \in 1..MaxSent
      BY <1>2, InRange
    <3>2. s = [i \in 1..Len(s) |-> s[i]]
      BY <1>0, LenProperties
    <3> QED BY <3>1, <3>2
  <2>2. /\ IsFiniteSet(1..Len(s)) /\ IsFiniteSet(1..MaxSent)
        /\ Cardinality(1..MaxSent) < Cardinality(1..Len(s))
    <3>1. MaxSent \in Int /\ Len(s) \in Int /\ 1 \in Int /\ MaxSent >= 0
      BY <1>0, InboxAssumption
    <3>2. IsFiniteSet(1..Len(s)) /\ Cardinality(1..Len(s)) = IF 1 > Len(s) THEN 0 ELSE Len(s) - 1 + 1
      BY <3>1, FS_Interval
    <3>3. IsFiniteSet(1..MaxSent) /\ Cardinality(1..MaxSent) = IF 1 > MaxSent THEN 0 ELSE MaxSent - 1 + 1
      BY <3>1, FS_Interval
    <3> QED BY <1>0, <1>2, <3>1, <3>2, <3>3
  <2>3. \E x, y \in 1..Len(s) : x # y /\ s[x] = s[y]
    BY <2>1, <2>2, FS_PigeonHole
  <2> QED BY <1>1, <2>3
<1> QED BY <1>0, <1>1, <1>2, InboxAssumption

\* At most one caller holds input.
LEMMA OneHand ==
  ASSUME IndInv, InputInv, NEW c \in Callers, NEW d \in Callers, hand[c] # <<>>, hand[d] # <<>>
  PROVE  c = d
<1>1. "out" \notin HoldPCs
  BY DEF HoldPCs
<1> QED BY <1>1 DEF IndInv, Solo, InputInv, HandInv

\* Queue, hand and transcript exclude each other, one queue the other, and one
\* hand another.
LEMMA Apart ==
  ASSUME IndInv, InputInv, NEW m \in 1..Len(sent)
  PROVE  /\ \A t \in Targets : m \in Range(queue[t]) => t = Target(m)
         /\ \A c, d \in Callers : m \in Range(hand[c]) /\ m \in Range(hand[d]) => c = d
         /\ ~(InQueue(m) /\ InHand(m)) /\ ~(InQueue(m) /\ InLog(m)) /\ ~(InHand(m) /\ InLog(m))
<1>0. TypeOK /\ Len(sent) \in Nat /\ m \in Nat /\ m # Own /\ ~(m < m)
  <2>1. TypeOK
    BY DEF IndInv
  <2>2. Len(sent) \in Nat
    BY <2>1, Typed
  <2> QED BY <2>1, <2>2 DEF Own
<1>1. \A t \in Targets : m \in Range(queue[t]) => t = Target(m)
  BY DEF InputInv, SentInv
<1>2. \A c, d \in Callers : m \in Range(hand[c]) /\ m \in Range(hand[d]) => c = d
  BY OneHand, NoneInOrder
<1>3. ~(InQueue(m) /\ InHand(m))
  BY <1>0, <1>1 DEF InputInv, OrderInv, InQueue, InHand
<1>4. ~(InQueue(m) /\ InLog(m))
  BY <1>0, <1>1 DEF InputInv, OrderInv, InQueue, InLog
<1>5. ~(InHand(m) /\ InLog(m))
  BY <1>0 DEF InputInv, OrderInv, InHand, InLog
<1> QED BY <1>1, <1>2, <1>3, <1>4, <1>5

\* Every place is in a sequence that holds the envelope, and the other way
\* round.
LEMMA PlacesAre ==
  ASSUME IndInv, InputInv, NEW m \in 1..Len(sent)
  PROVE  /\ \A p : p \in Places(m) <=>
               \/ \E t \in Targets : \E i \in 1..Len(queue[t]) : queue[t][i] = m /\ p = <<"queue", t, i>>
               \/ \E c \in Callers : \E i \in 1..Len(hand[c]) : hand[c][i] = m /\ p = <<"hand", c, i>>
               \/ \E i \in 1..Len(admitted) : admitted[i] = m /\ p = <<"log", "log", i>>
<1>0. TypeOK /\ Len(sent) \in Nat /\ m \in Nat /\ m # Own
  <2>1. TypeOK
    BY DEF IndInv
  <2>2. Len(sent) \in Nat
    BY <2>1, Typed
  <2> QED BY <2>1, <2>2 DEF Own
<1>1. \A t \in Targets : Len(queue[t]) \in Nat /\ Len(queue[t]) <= MaxSent
  <2> SUFFICES ASSUME NEW t \in Targets PROVE Len(queue[t]) \in Nat /\ Len(queue[t]) <= MaxSent
    OBVIOUS
  <2>1. queue[t] \in Seq(Nat) /\ queue[t] \in Seq(1..MaxSent) /\ Sorted(queue[t])
    BY <1>0, Typed DEF InputInv, OrderInv
  <2>2. Range(queue[t]) \subseteq 1..MaxSent
    BY <2>1, RangeType
  <2> QED BY <2>1, <2>2, SortedOnce, LenProperties
<1>2. ASSUME NEW c \in Callers, NEW i \in 1..Len(hand[c]), hand[c][i] = m
      PROVE  Len(hand[c]) \in Nat /\ Len(hand[c]) <= MaxSent
  <2>1. hand[c] \in Seq(Nat) /\ hand[c] \in Seq(0..MaxSent) /\ Sorted(hand[c])
    BY <1>0, Typed DEF InputInv, OrderInv
  <2>2. m \in Range(hand[c])
    BY <1>2, <2>1, InRange
  <2>3. Own \notin Range(hand[c])
    BY <1>0, <2>2, Single DEF InputInv, HandInv
  <2>4. Range(hand[c]) \subseteq 1..MaxSent
    <3>1. Range(hand[c]) \subseteq 0..MaxSent
      BY <2>1, RangeType
    <3> QED BY <2>3, <3>1, InboxAssumption DEF Own
  <2> QED BY <2>1, <2>4, SortedOnce, LenProperties
<1>3. DOMAIN admitted = 1..Len(admitted)
  BY <1>0, Typed, LenProperties
<1>4. \A c \in Callers : Len(hand[c]) \in Nat
  BY <1>0, Typed, LenProperties
<1> SUFFICES ASSUME NEW p PROVE p \in Places(m) <=>
               \/ \E t \in Targets : \E i \in 1..Len(queue[t]) : queue[t][i] = m /\ p = <<"queue", t, i>>
               \/ \E c \in Callers : \E i \in 1..Len(hand[c]) : hand[c][i] = m /\ p = <<"hand", c, i>>
               \/ \E i \in 1..Len(admitted) : admitted[i] = m /\ p = <<"log", "log", i>>
  OBVIOUS
<1> DEFINE Q == {<<"queue", q[1], q[2]>> : q \in {q \in Targets \X (1..MaxSent) :
                    q[2] <= Len(queue[q[1]]) /\ queue[q[1]][q[2]] = m}}
           H == {<<"hand", q[1], q[2]>> : q \in {q \in Callers \X (1..MaxSent) :
                    q[2] <= Len(hand[q[1]]) /\ hand[q[1]][q[2]] = m}}
           L == {<<"log", "log", i>> : i \in {j \in DOMAIN admitted : admitted[j] = m}}
<1>5. Places(m) = Q \cup H \cup L
  BY DEF Places
<1>6. p \in Q <=> \E t \in Targets : \E i \in 1..Len(queue[t]) : queue[t][i] = m /\ p = <<"queue", t, i>>
  <2>1. ASSUME p \in Q
        PROVE  \E t \in Targets : \E i \in 1..Len(queue[t]) : queue[t][i] = m /\ p = <<"queue", t, i>>
    BY <1>1, <2>1
  <2>2. ASSUME NEW t \in Targets, NEW i \in 1..Len(queue[t]), queue[t][i] = m, p = <<"queue", t, i>>
        PROVE  p \in Q
    <3>1. <<t, i>> \in Targets \X (1..MaxSent) /\ i <= Len(queue[t])
      BY <1>1, <2>2, InboxAssumption
    <3> QED BY <2>2, <3>1
  <2> QED BY <2>1, <2>2
<1>7. p \in H <=> \E c \in Callers : \E i \in 1..Len(hand[c]) : hand[c][i] = m /\ p = <<"hand", c, i>>
  <2>1. ASSUME p \in H
        PROVE  \E c \in Callers : \E i \in 1..Len(hand[c]) : hand[c][i] = m /\ p = <<"hand", c, i>>
    BY <1>4, <2>1
  <2>2. ASSUME NEW c \in Callers, NEW i \in 1..Len(hand[c]), hand[c][i] = m, p = <<"hand", c, i>>
        PROVE  p \in H
    <3>1. <<c, i>> \in Callers \X (1..MaxSent) /\ i <= Len(hand[c])
      BY <1>2, <2>2, InboxAssumption
    <3> QED BY <2>2, <3>1
  <2> QED BY <2>1, <2>2
<1>8. p \in L <=> \E i \in 1..Len(admitted) : admitted[i] = m /\ p = <<"log", "log", i>>
  BY <1>3
<1> HIDE DEF Q, H, L
<1> QED BY <1>5, <1>6, <1>7, <1>8

\* An envelope has one place if it is anywhere, none otherwise.
LEMMA PlaceCount == IndInv /\ InputInv => Ledger
<1> SUFFICES ASSUME IndInv, InputInv, NEW m \in 1..Len(sent)
             PROVE  Accounted(m) <=> (m \in dropped <=> ~Somewhere(m))
  BY DEF Ledger
<1>0. TypeOK
  BY DEF IndInv
<1>1. /\ \A t \in Targets : queue[t] \in Seq(Nat) /\ Sorted(queue[t])
      /\ \A c \in Callers : hand[c] \in Seq(Nat) /\ Sorted(hand[c])
      /\ admitted \in Seq(Nat)
  BY <1>0, Typed DEF InputInv, OrderInv
<1>2. CASE ~Somewhere(m)
  <2>1. Places(m) = {}
    <3> SUFFICES ASSUME NEW p \in Places(m) PROVE FALSE
      OBVIOUS
    <3>1. \/ \E t \in Targets : \E i \in 1..Len(queue[t]) : queue[t][i] = m
          \/ \E c \in Callers : \E i \in 1..Len(hand[c]) : hand[c][i] = m
          \/ \E i \in 1..Len(admitted) : admitted[i] = m
      BY PlacesAre
    <3>2. Somewhere(m)
      BY <1>1, <3>1, InRange DEF Somewhere, InQueue, InHand, InLog
    <3> QED BY <1>2, <3>2
  <2>2. Cardinality(Places(m)) = 0
    BY <2>1, FS_EmptySet
  <2> QED BY <1>2, <2>2 DEF Accounted
<1>3. CASE Somewhere(m)
  <2>1. PICK p : Places(m) = {p}
    <3>1. CASE InQueue(m)
      <4>1. PICK t \in Targets : m \in Range(queue[t])
        BY <3>1 DEF InQueue
      <4>2. PICK i \in 1..Len(queue[t]) : queue[t][i] = m
        BY <1>1, <4>1, InRange
      <4>3. \A u \in Targets : \A j \in 1..Len(queue[u]) : queue[u][j] = m => u = t /\ j = i
        <5> SUFFICES ASSUME NEW u \in Targets, NEW j \in 1..Len(queue[u]), queue[u][j] = m
                     PROVE  u = t /\ j = i
          OBVIOUS
        <5>1. m \in Range(queue[u])
          BY <1>1, InRange
        <5>2. u = t
          BY <4>1, <5>1, Apart
        <5>3. queue[t] \in Seq(Nat) /\ Sorted(queue[t])
          BY <1>1
        <5> QED BY <4>2, <5>2, <5>3, SortedOnce
      <4>4. /\ \A c \in Callers : \A j \in 1..Len(hand[c]) : hand[c][j] # m
            /\ \A j \in 1..Len(admitted) : admitted[j] # m
        <5>1. ~InHand(m) /\ ~InLog(m)
          BY <3>1, Apart
        <5> QED BY <1>1, <5>1, InRange DEF InHand, InLog
      <4>5. \A p : p \in Places(m) <=> p = <<"queue", t, i>>
        BY <4>2, <4>3, <4>4, PlacesAre
      <4>6. Places(m) = {<<"queue", t, i>>}
        BY <4>5
      <4> QED BY <4>6
    <3>2. CASE InHand(m)
      <4>1. PICK c \in Callers : m \in Range(hand[c])
        BY <3>2 DEF InHand
      <4>2. PICK i \in 1..Len(hand[c]) : hand[c][i] = m
        BY <1>1, <4>1, InRange
      <4>3. \A d \in Callers : \A j \in 1..Len(hand[d]) : hand[d][j] = m => d = c /\ j = i
        <5> SUFFICES ASSUME NEW d \in Callers, NEW j \in 1..Len(hand[d]), hand[d][j] = m
                     PROVE  d = c /\ j = i
          OBVIOUS
        <5>1. m \in Range(hand[d])
          BY <1>1, InRange
        <5>2. d = c
          BY <4>1, <5>1, Apart
        <5>3. hand[c] \in Seq(Nat) /\ Sorted(hand[c])
          BY <1>1
        <5> QED BY <4>2, <5>2, <5>3, SortedOnce
      <4>4. /\ \A t \in Targets : \A j \in 1..Len(queue[t]) : queue[t][j] # m
            /\ \A j \in 1..Len(admitted) : admitted[j] # m
        <5>1. ~InQueue(m) /\ ~InLog(m)
          BY <3>2, Apart
        <5> QED BY <1>1, <5>1, InRange DEF InQueue, InLog
      <4>5. \A p : p \in Places(m) <=> p = <<"hand", c, i>>
        BY <4>2, <4>3, <4>4, PlacesAre
      <4>6. Places(m) = {<<"hand", c, i>>}
        BY <4>5
      <4> QED BY <4>6
    <3>3. CASE InLog(m)
      <4>2. PICK i \in 1..Len(admitted) : admitted[i] = m
        BY <1>1, <3>3, InRange DEF InLog
      <4>3. \A j \in 1..Len(admitted) : admitted[j] = m => j = i
        <5> SUFFICES ASSUME NEW j \in 1..Len(admitted), admitted[j] = m, j # i PROVE FALSE
          OBVIOUS
        <5>1. Len(admitted) \in Nat /\ i \in Nat /\ j \in Nat /\ m \in Nat
          BY <1>1, <4>2, ElementOfSeq, LenProperties
        <5>2. CASE i < j
          BY <4>2, <5>1, <5>2 DEF InputInv, OrderInv
        <5>3. CASE j < i
          BY <4>2, <5>1, <5>3 DEF InputInv, OrderInv
        <5> QED BY <5>1, <5>2, <5>3
      <4>4. /\ \A t \in Targets : \A j \in 1..Len(queue[t]) : queue[t][j] # m
            /\ \A c \in Callers : \A j \in 1..Len(hand[c]) : hand[c][j] # m
        <5>1. ~InQueue(m) /\ ~InHand(m)
          BY <3>3, Apart
        <5> QED BY <1>1, <5>1, InRange DEF InQueue, InHand
      <4>5. \A p : p \in Places(m) <=> p = <<"log", "log", i>>
        BY <4>2, <4>3, <4>4, PlacesAre
      <4>6. Places(m) = {<<"log", "log", i>>}
        BY <4>5
      <4> QED BY <4>6
    <3> QED BY <1>3, <3>1, <3>2, <3>3 DEF Somewhere
  <2>2. Cardinality(Places(m)) = 1
    BY <2>1, FS_Singleton
  <2> QED BY <1>3, <2>2 DEF Accounted
<1> QED BY <1>2, <1>3

\* An envelope that was not discarded stays somewhere, one that was stays
\* nowhere.
LEMMA KeptSomewhere ==
  ASSUME NEW m, dropped' = dropped, Somewhere(m)' <=> Somewhere(m), m \in dropped <=> ~Somewhere(m)
  PROVE  (m \in dropped <=> ~Somewhere(m))'
OBVIOUS

\* A send puts a new envelope into one place and moves none.
LEMMA KeptSends ==
  ASSUME TypeOK, Sends, NEW m \in 1..Len(sent)
  PROVE  dropped' = dropped /\ (Somewhere(m)' <=> Somewhere(m))
<1>0. PICK alias \in Aliases, wakeup \in BOOLEAN : Send(alias, TargetOf(alias), wakeup)
  BY DEF Sends
<1>1. PICK k \in Targets : k = TargetOf(alias)
  BY DEF TargetOf, Targets
<1>2. Len(sent) + 1 \in Nat /\ m # Len(sent) + 1 /\ queue[k] \in Seq(Nat)
  BY Typed
<1>3. /\ queue'[k] = Append(queue[k], Len(sent) + 1)
      /\ \A t \in Targets \ {k} : queue'[t] = queue[t]
  BY <1>0, <1>1 DEF Send, TypeOK, InboxTypeOK
<1>4. Range(queue'[k]) = Range(queue[k]) \cup {Len(sent) + 1}
  BY <1>2, <1>3, AppendSorted
<1>5. UNCHANGED <<hand, admitted, dropped>>
  BY DEF Sends
<1> QED BY <1>2, <1>3, <1>4, <1>5 DEF Somewhere, InQueue, InHand, InLog

\* A clear discards what it removes from a queue on purpose.
LEMMA KeptClears ==
  ASSUME IndInv, InputInv, Clears, NEW m \in 1..Len(sent), m \in dropped <=> ~Somewhere(m)
  PROVE  (m \in dropped <=> ~Somewhere(m))'
<1>1. PICK ts \in SUBSET Targets :
        Clear(ts) /\ dropped' = dropped \cup UNION {Range(queue[t]) : t \in ts}
  BY DEF Clears
<1>2. UNCHANGED <<hand, admitted>>
  BY DEF Clears
<1>3. \A t \in Targets : Range(queue'[t]) = IF t \in ts THEN {} ELSE Range(queue[t])
  BY <1>1, NoneInOrder DEF Clear
<1>4. CASE \E t \in ts : m \in Range(queue[t])
  <2>1. InQueue(m) /\ m \in dropped'
    BY <1>1, <1>4 DEF InQueue
  <2>2. ~InHand(m) /\ ~InLog(m)
    BY <2>1, Apart
  <2>3. \A t \in Targets : m \in Range(queue[t]) => t \in ts
    BY <1>4, Apart
  <2>4. ~Somewhere(m)'
    BY <1>2, <1>3, <2>2, <2>3 DEF Somewhere, InQueue, InHand, InLog
  <2> QED BY <2>1, <2>4
<1>5. CASE ~\E t \in ts : m \in Range(queue[t])
  <2>1. m \in dropped' <=> m \in dropped
    BY <1>1, <1>5
  <2>2. Somewhere(m)' <=> Somewhere(m)
    BY <1>2, <1>3, <1>5 DEF Somewhere, InQueue, InHand, InLog
  <2> QED BY <2>1, <2>2
<1> QED BY <1>4, <1>5

\* A claim moves the head of a queue into the hand of its caller.
LEMMA KeptTakes ==
  ASSUME TypeOK, NEW c \in Callers, Takes(c) \/ Brings(c), NEW m \in 1..Len(sent)
  PROVE  dropped' = dropped /\ (Somewhere(m)' <=> Somewhere(m))
<1>0. UNCHANGED <<admitted, dropped>> /\ \A d \in Callers : hand[d] = <<>>
  BY DEF Takes, Brings, NoHands
<1>1. ~InHand(m)
  BY <1>0, NoneInOrder DEF InHand
<1>2. CASE Takes(c)
  <2>1. PICK k \in Targets : Claim(k) /\ hand' = [hand EXCEPT ![c] = Batch(k)]
    BY <1>2 DEF Takes
  <2>2. /\ queue'[k] = Rest(k) /\ hand'[c] = Batch(k)
        /\ \A t \in Targets \ {k} : queue'[t] = queue[t]
        /\ \A d \in Callers \ {c} : Range(hand'[d]) = {}
    BY <1>0, <2>1, NoneInOrder DEF Claim, TypeOK, InboxTypeOK
  <2>3. Range(queue[k]) = Range(Batch(k)) \cup Range(Rest(k))
    BY Split
  <2>4. InHand(m)' <=> m \in Range(Batch(k))
    BY <2>2 DEF InHand
  <2>5. InQueue(m) <=> InQueue(m)' \/ m \in Range(Batch(k))
    BY <2>2, <2>3 DEF InQueue
  <2> QED BY <1>0, <1>1, <2>4, <2>5 DEF Somewhere, InLog
<1>3. CASE Brings(c)
  <2>1. PICK b \in {<<>>, <<Own>>} : hand' = [hand EXCEPT ![c] = b]
    BY <1>3 DEF Brings
  <2>2. m # Own
    BY DEF Own
  <2>3. m \notin Range(b)
    BY <2>2, NoneInOrder, Single
  <2>4. hand'[c] = b /\ \A d \in Callers \ {c} : Range(hand'[d]) = {}
    BY <1>0, <2>1, NoneInOrder DEF TypeOK
  <2>5. ~InHand(m)'
    BY <2>3, <2>4 DEF InHand
  <2>6. UNCHANGED queue
    BY <1>3 DEF Brings
  <2> QED BY <1>0, <1>1, <2>5, <2>6 DEF Somewhere, InQueue, InLog
<1> QED BY <1>2, <1>3

\* A rollback moves the hand of its caller back to the front of its queue.
LEMMA KeptReturns ==
  ASSUME TypeOK, NEW c \in Callers, Returns(c), NEW m
  PROVE  dropped' = dropped /\ (Somewhere(m)' <=> Somewhere(m))
<1>0. PICK k \in Targets : Rollback(k, hand[c])
  BY DEF Returns
<1>1. /\ queue'[k] = hand[c] \o queue[k] /\ \A t \in Targets \ {k} : queue'[t] = queue[t]
      /\ \A d \in Callers : Range(hand'[d]) = {}
      /\ \A d \in Callers \ {c} : Range(hand[d]) = {}
      /\ UNCHANGED <<admitted, dropped>>
  BY <1>0, NoneInOrder DEF Returns, NoHands, Rollback, TypeOK, InboxTypeOK
<1>2. Range(queue'[k]) = Range(hand[c]) \cup Range(queue[k])
  BY <1>1, Typed, ConcatSorted
<1>3. InHand(m) <=> m \in Range(hand[c])
  BY <1>1 DEF InHand
<1>4. InQueue(m)' <=> InQueue(m) \/ m \in Range(hand[c])
  BY <1>1, <1>2 DEF InQueue
<1>5. ~InHand(m)' /\ (InLog(m)' <=> InLog(m))
  BY <1>1 DEF InHand, InLog
<1> QED BY <1>1, <1>3, <1>4, <1>5 DEF Somewhere

\* What a caller gives up of its input is recorded as dropped.
LEMMA KeptDiscards ==
  ASSUME IndInv, InputInv, NEW c \in Callers, Discards(c), NEW m \in 1..Len(sent),
         m \in dropped <=> ~Somewhere(m)
  PROVE  (m \in dropped <=> ~Somewhere(m))'
<1>1. /\ UNCHANGED <<queue, admitted>>
      /\ dropped' = dropped \cup (Range(hand[c]) \ (Range(hand'[c]) \cup {Own}))
      /\ Range(hand'[c]) \subseteq Range(hand[c]) \cup {Own}
      /\ \A d \in Callers \ {c} : hand'[d] = hand[d]
  BY DEF Discards, IndInv, TypeOK
<1>2. m # Own
  BY DEF Own
<1>3. CASE m \in Range(hand[c]) /\ m \notin Range(hand'[c])
  <2>1. InHand(m) /\ m \in dropped'
    BY <1>1, <1>2, <1>3 DEF InHand
  <2>2. ~InQueue(m) /\ ~InLog(m)
    BY <2>1, Apart
  <2>3. ~InHand(m)'
    BY <1>1, <1>3, Apart DEF InHand
  <2>4. ~Somewhere(m)'
    BY <1>1, <2>2, <2>3 DEF Somewhere, InQueue, InLog
  <2> QED BY <2>1, <2>4
<1>4. CASE m \in Range(hand[c]) <=> m \in Range(hand'[c])
  <2>1. m \in dropped' <=> m \in dropped
    BY <1>1, <1>4
  <2>2. InHand(m)' <=> InHand(m)
    BY <1>1, <1>4 DEF InHand
  <2>3. Somewhere(m)' <=> Somewhere(m)
    BY <1>1, <2>2 DEF Somewhere, InQueue, InLog
  <2> QED BY <2>1, <2>3
<1> QED BY <1>1, <1>2, <1>3, <1>4

\* An admission moves the first envelope of a hand to the end of the log.
LEMMA KeptAdmits ==
  ASSUME TypeOK, NEW c \in Callers, Admits(c), NEW m \in 1..Len(sent)
  PROVE  dropped' = dropped /\ (Somewhere(m)' <=> Somewhere(m))
<1>1. /\ UNCHANGED <<queue, dropped>>
      /\ hand[c] # <<>> /\ hand'[c] = Tail(hand[c])
      /\ \A d \in Callers \ {c} : hand'[d] = hand[d]
  BY DEF Admits, TypeOK
<1>2. PICK h \in Nat : h = Head(hand[c])
  BY <1>1, Typed, HeadSorted
<1>3. Range(hand[c]) = {h} \cup Range(hand'[c])
  BY <1>1, <1>2, Typed, HeadSorted
<1>4. m # Own
  BY DEF Own
<1>5. InHand(m) <=> InHand(m)' \/ m = h
  BY <1>1, <1>3 DEF InHand
<1>6. m = h \/ InLog(m) <=> m = h \/ InLog(m)'
  <2>1. CASE h = Own
    BY <1>2, <2>1 DEF Admits, InLog
  <2>2. CASE h # Own
    <3>1. admitted' = Append(admitted, h) /\ admitted \in Seq(Nat)
      BY <1>2, <2>2, Typed DEF Admits
    <3>2. Range(admitted') = Range(admitted) \cup {h}
      BY <3>1, AppendSorted
    <3> QED BY <3>2 DEF InLog
  <2> QED BY <2>1, <2>2
<1>7. m = h => InLog(m)'
  <2>1. ASSUME m = h PROVE InLog(m)'
    <3>1. admitted' = Append(admitted, h) /\ admitted \in Seq(Nat)
      BY <1>2, <1>4, <2>1, Typed DEF Admits
    <3>2. Range(admitted') = Range(admitted) \cup {h}
      BY <3>1, AppendSorted
    <3> QED BY <2>1, <3>2 DEF InLog
  <2> QED BY <2>1
<1>8. InQueue(m)' <=> InQueue(m)
  BY <1>1 DEF InQueue
<1> QED BY <1>1, <1>5, <1>6, <1>7, <1>8 DEF Somewhere

\* Every step but a refused run_until_idle() keeps every envelope accounted for.
LEMMA KeptNext ==
  ASSUME IndInv, InputInv, Ledger, Ledger', [Next]_vars,
         ~\E c \in Callers : RunUntilIdleRefused(c),
         NEW m \in DOMAIN sent, Accounted(m)
  PROVE  Accounted(m)'
<1>0. /\ TypeOK /\ DOMAIN sent = 1..Len(sent) /\ Moved /\ ~Loses
      /\ m \in 1..Len(sent) /\ m \in 1..Len(sent')
  <2>1. TypeOK /\ Moved /\ ~Loses
    BY InputMoves DEF IndInv, Loses
  <2>2. DOMAIN sent = 1..Len(sent) /\ Len(sent) \in Nat
    BY <2>1, Typed, LenProperties
  <2>3. sent' = sent \/ \E alias \in Aliases : sent' = Append(sent, alias)
    BY <2>1 DEF Moved, Stays, Sends, Send, Clears, Takes, Brings, Returns, Discards, Admits
  <2>4. Len(sent') = Len(sent) \/ Len(sent') = Len(sent) + 1
    BY <2>1, <2>3, Typed, AppendProperties
  <2> QED BY <2>1, <2>2, <2>4
<1>1. m \in dropped <=> ~Somewhere(m)
  BY <1>0 DEF Ledger
<1>2. (m \in dropped <=> ~Somewhere(m))'
  <2>1. CASE Stays
    BY <1>1, <2>1 DEF Stays, Somewhere, InQueue, InHand, InLog
  <2>2. CASE Sends
    BY <1>0, <1>1, <2>2, KeptSends
  <2>3. CASE Clears
    BY <1>0, <1>1, <2>3, KeptClears
  <2>4. ASSUME NEW c \in Callers, Takes(c) \/ Brings(c) \/ Returns(c) \/ Discards(c) \/ Admits(c)
        PROVE  (m \in dropped <=> ~Somewhere(m))'
    BY <1>0, <1>1, <2>4, KeptTakes, KeptReturns, KeptDiscards, KeptAdmits
  <2> QED BY <1>0, <2>1, <2>2, <2>3, <2>4 DEF Moved
<1>3. (Accounted(m) <=> (m \in dropped <=> ~Somewhere(m)))'
  BY <1>0 DEF Ledger
<1> QED BY <1>2, <1>3

\* No run entry, rollback, steering poll, admission, failure or cancellation
\* loses an envelope or enters it twice, for any interleaving of callers with
\* senders; the one step that may is a refused run_until_idle().
THEOREM InputIsKept == Spec => InputKept
<1>1. IndInv /\ InputInv /\ Ledger /\ Ledger' /\ [Next]_vars =>
        [\/ \E c \in Callers : RunUntilIdleRefused(c)
         \/ \A m \in DOMAIN sent : Accounted(m) => Accounted(m)']_vars
  BY KeptNext
<1> QED BY <1>1, PlaceCount, Invariance, InputInvariance, PTL DEF Spec, InputKept

-----------------------------------------------------------------------------
(* Without a refused run_until_idle() nothing is lost.                     *)

DroppedInv == dropped \subseteq 1..Len(sent)

\* Only what was sent is discarded.
LEMMA DroppedNext ==
  ASSUME IndInv, InputInv, DroppedInv, [Next]_vars, ~Loses
  PROVE  DroppedInv'
<1>1. TypeOK /\ Moved /\ sent \in Seq(Aliases) /\ Len(sent) \in Nat
  BY InputMoves, Typed DEF IndInv
<1>2. CASE Stays
  BY <1>2 DEF Stays, DroppedInv
<1>3. CASE Sends
  <2>1. PICK alias \in Aliases : sent' = Append(sent, alias) /\ dropped' = dropped
    BY <1>3 DEF Sends, Send
  <2>2. Len(sent') = Len(sent) + 1
    BY <1>1, <2>1, AppendProperties
  <2> QED BY <1>1, <2>1, <2>2 DEF DroppedInv
<1>4. CASE Clears
  <2>1. PICK ts \in SUBSET Targets :
          Clear(ts) /\ dropped' = dropped \cup UNION {Range(queue[t]) : t \in ts}
    BY <1>4 DEF Clears
  <2>2. \A t \in ts : Range(queue[t]) \subseteq 1..Len(sent)
    BY DEF InputInv, SentInv
  <2>3. sent' = sent
    BY <1>4 DEF Clears
  <2> QED BY <2>1, <2>2, <2>3 DEF DroppedInv
<1>5. ASSUME NEW c \in Callers, Takes(c) \/ Brings(c) \/ Returns(c) \/ Admits(c)
      PROVE  DroppedInv'
  <2>1. UNCHANGED <<sent, dropped>>
    BY <1>5 DEF Takes, Brings, Returns, Admits
  <2> QED BY <2>1 DEF DroppedInv
<1>6. ASSUME NEW c \in Callers, Discards(c) PROVE DroppedInv'
  <2>1. sent' = sent /\ dropped' \subseteq dropped \cup (Range(hand[c]) \ {Own})
    BY <1>6 DEF Discards
  <2>2. \A m \in Range(hand[c]) \ {Own} : m \in 1..Len(sent)
    <3>1. \A m \in Range(hand[c]) : m \in 0..Len(sent)
      BY DEF InputInv, SentInv
    <3> QED BY <1>1, <3>1 DEF Own
  <2> QED BY <2>1, <2>2 DEF DroppedInv
<1> QED BY <1>1, <1>2, <1>3, <1>4, <1>5, <1>6 DEF Moved

\* A new envelope is in the queue it was sent to, and is accounted for there.
LEMMA SentAccounted ==
  ASSUME IndInv, DroppedInv, Sends, Ledger', NEW m, m = Len(sent')
  PROVE  Accounted(m)'
<1>0. PICK alias \in Aliases, wakeup \in BOOLEAN : Send(alias, TargetOf(alias), wakeup)
  BY DEF Sends
<1>1. PICK k \in Targets : k = TargetOf(alias)
  BY DEF TargetOf, Targets
<1>2. sent \in Seq(Aliases) /\ Len(sent) \in Nat /\ queue[k] \in Seq(Nat)
  BY Typed DEF IndInv
<1>3. PICK new \in Nat : new = Len(sent) + 1
  BY <1>2
<1>4. Len(sent') = new /\ new \notin dropped' /\ new \in 1..Len(sent')
  <2>1. sent' = Append(sent, alias) /\ dropped' = dropped
    BY <1>0 DEF Sends, Send
  <2>2. Len(sent') = new
    BY <1>2, <1>3, <2>1, AppendProperties
  <2> QED BY <1>2, <1>3, <2>1, <2>2 DEF DroppedInv
<1>5. queue'[k] = Append(queue[k], new)
  BY <1>0, <1>1, <1>3 DEF Send, IndInv, TypeOK, InboxTypeOK
<1>6. new \in Range(queue'[k])
  BY <1>2, <1>3, <1>5, AppendSorted
<1>7. Somewhere(new)'
  BY <1>6 DEF Somewhere, InQueue
<1>8. (Accounted(new) <=> (new \in dropped <=> ~Somewhere(new)))'
  BY <1>4 DEF Ledger
<1>9. Accounted(new)'
  BY <1>4, <1>7, <1>8
<1> QED BY <1>4, <1>9

\* InputConserved is kept by every step if run_until_idle() is never refused.
LEMMA ConservedNext ==
  ASSUME PumpWhileActive = FALSE, IndInv, InputInv, Ledger, Ledger', [Next]_vars,
         DroppedInv, InputConserved
  PROVE  DroppedInv' /\ InputConserved'
<1>1. ~\E c \in Callers : RunUntilIdleRefused(c)
  BY DEF RunUntilIdleRefused
<1>2. TypeOK /\ Moved /\ ~Loses
  BY <1>1, InputMoves DEF IndInv, Loses
<1>3. DroppedInv'
  BY <1>2, DroppedNext
<1>4. \A m \in DOMAIN sent : Accounted(m)'
  BY <1>1, KeptNext DEF InputConserved
<1>5. CASE Sends
  <2>1. PICK alias \in Aliases : sent' = Append(sent, alias)
    BY <1>5 DEF Sends, Send
  <2>2. sent \in Seq(Aliases) /\ Len(sent) \in Nat
    BY <1>2, Typed
  <2>3. DOMAIN sent = 1..Len(sent) /\ DOMAIN sent' = 1..(Len(sent) + 1) /\ Len(sent') = Len(sent) + 1
    BY <2>1, <2>2, AppendProperties, LenProperties
  <2>4. \A m : m = Len(sent') => Accounted(m)'
    BY <1>5, SentAccounted
  <2>5. \A m \in DOMAIN sent' : m \in DOMAIN sent \/ m = Len(sent')
    BY <2>2, <2>3
  <2> QED BY <1>3, <1>4, <2>4, <2>5 DEF InputConserved
<1>6. CASE ~Sends
  <2>1. sent' = sent
    BY <1>2, <1>6 DEF Moved, Stays, Clears, Takes, Brings, Returns, Discards, Admits
  <2> QED BY <1>3, <1>4, <2>1 DEF InputConserved
<1> QED BY <1>5, <1>6

\* As long as nobody calls run_until_idle() while a run is active, every envelope
\* that was sent is accounted for in every state: that call is the only way the
\* driver has of losing one.
THEOREM InputIsConserved ==
  ASSUME PumpWhileActive = FALSE
  PROVE  Spec => []InputConserved
<1>1. Init => DroppedInv /\ InputConserved
  <2> SUFFICES ASSUME Init PROVE DroppedInv /\ InputConserved
    OBVIOUS
  <2>1. sent = <<>> /\ dropped = {}
    BY DEF Init, InboxInit
  <2> QED BY <2>1 DEF DroppedInv, InputConserved
<1>2. IndInv /\ InputInv /\ Ledger /\ Ledger' /\ [Next]_vars /\ DroppedInv /\ InputConserved
        => DroppedInv' /\ InputConserved'
  BY ConservedNext
<1> QED BY <1>1, <1>2, PlaceCount, Invariance, InputInvariance, PTL DEF Spec
=============================================================================
