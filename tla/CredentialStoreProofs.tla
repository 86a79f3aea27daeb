----------------------- MODULE CredentialStoreProofs -----------------------
(***************************************************************************)
(* Safety of the credential chain for any set of calls.  The tails that    *)
(* are over are the front of the line, and only the task at the front has  *)
(* left the queue (FrontInv): a task whose turn has come is at the front   *)
(* because it found the tail before it, or no tail because that one was    *)
(* pruned (PrevInv).  So one callback runs at a time, undisturbed, and the *)
(* credential a refresh replaces was never replaced before (RotationInv).  *)
(***************************************************************************)
EXTENDS CredentialStore, TLAPS

\* The line holds each queued call once.
LineInv ==
    /\ \A i, j \in 1..Len(line) : line[i] = line[j] => i = j
    /\ \A o \in Ops : /\ (\E i \in 1..Len(line) : line[i] = o) <=> tail[o] # "none"
                      /\ pc[o] = "idle" <=> tail[o] = "none"

\* The stages of a task, of its tail and of its caller go together.
StageInv ==
    \A o \in Ops :
        /\ tail[o] \in {"done", "cancelled"} => pc[o] \in Ended
        /\ o \in pruned => tail[o] \in {"done", "cancelled"}
        /\ caller[o] = "idle" => pc[o] = "idle"
        /\ caller[o] = "waiting" => pc[o] # "idle"
        /\ caller[o] = "aborted" /\ pc[o] # "idle" =>
              pc[o] # "value" /\ (pc[o] \notin Ended => signal[o] = "aborted")

\* The tails that are over come first, and at most the next task is under way.
FrontInv ==
    \E k \in 0..Len(line) : \A i \in 1..Len(line) :
        /\ tail[line[i]] # "pending" <=> i <= k
        /\ pc[line[i]] # "queued" => i <= k + 1

\* Every task found the tail before it, unless that one was pruned.
PrevInv ==
    \A i \in 1..Len(line) :
        IF i = 1 THEN prev[line[i]] = None
        ELSE \/ prev[line[i]] = line[i - 1]
             \/ prev[line[i]] = None /\ line[i - 1] \in pruned

\* The chain ends with the last tail, unless that one was pruned.
ChainInv ==
    IF chain = None THEN line = <<>> \/ line[Len(line)] \in pruned
    ELSE line # <<>> /\ chain = line[Len(line)] /\ chain \notin pruned

\* A credential is issued once, and the stored one was not replaced yet.
RotationInv ==
    /\ store # None => store.gen <= issued
    /\ \A i \in 1..Len(spent) : spent[i] <= issued /\ (store # None => spent[i] # store.gen)
    /\ \A o \in Ops : pc[o] = "running" =>
          /\ store = snapshot[o]
          /\ kind[o] = "refresh" => snapshot[o] # None

IndInv == /\ TypeOK /\ LineInv /\ StageInv /\ FrontInv /\ PrevInv /\ ChainInv
          /\ RotationInv /\ RefreshedOnce

\* The operation at the front: the first of the line whose tail is not over.
Front(o) ==
    \E i \in 1..Len(line) :
        /\ line[i] = o /\ tail[o] = "pending"
        /\ \A j \in 1..Len(line) : j < i => tail[line[j]] # "pending"

\* A task that has left the queue, its tail not over, is at the front.
LEMMA StartedIsFront ==
  ASSUME IndInv, NEW o \in Ops, tail[o] = "pending", pc[o] # "queued"
  PROVE  Front(o)
<1> USE DEF IndInv
<1>1. PICK i \in 1..Len(line) : line[i] = o
  BY DEF LineInv
<1>2. PICK k \in 0..Len(line) : \A j \in 1..Len(line) :
        /\ tail[line[j]] # "pending" <=> j <= k
        /\ pc[line[j]] # "queued" => j <= k + 1
  BY DEF FrontInv
<1>3. Len(line) \in Nat /\ i \in Nat /\ k \in Nat
  BY DEF TypeOK
<1>4. \A j \in 1..Len(line) : j < i => j <= k
  BY <1>1, <1>2, <1>3
<1>5. \A j \in 1..Len(line) : j < i => tail[line[j]] # "pending"
  BY <1>2, <1>4
<1> QED BY <1>1, <1>5 DEF Front

\* So is a task that sees the tail it awaits over, or awaits none.
LEMMA TurnIsFront ==
  ASSUME IndInv, NEW o \in Ops, pc[o] = "queued",
         TurnOf(o) \/ (prev[o] # None /\ tail[prev[o]] = "cancelled")
  PROVE  Front(o)
<1> USE DEF IndInv
<1>1. tail[o] = "pending" /\ Len(line) \in Nat
  <2>1. tail[o] # "none" /\ tail[o] \notin {"done", "cancelled"}
    BY DEF LineInv, StageInv, Ended
  <2> QED BY <2>1 DEF TypeOK
<1>2. PICK i \in 1..Len(line) : line[i] = o
  BY <1>1 DEF LineInv
<1>3. PICK k \in 0..Len(line) : \A j \in 1..Len(line) : tail[line[j]] # "pending" <=> j <= k
  BY DEF FrontInv
<1>4. CASE i = 1
  BY <1>1, <1>2, <1>4 DEF Front
<1>5. CASE i # 1
  <2>1. i - 1 \in 1..Len(line) /\ line[i - 1] \in Ops
    BY <1>1, <1>5 DEF TypeOK
  <2>2. tail[line[i - 1]] # "pending"
    <3>1. prev[o] = line[i - 1] \/ (prev[o] = None /\ line[i - 1] \in pruned)
      BY <1>2, <1>5 DEF PrevInv
    <3>2. CASE prev[o] = line[i - 1]
      BY <2>1, <3>2, StoreAssumption DEF TurnOf
    <3>3. CASE line[i - 1] \in pruned
      BY <2>1, <3>3 DEF StageInv
    <3> QED BY <3>1, <3>2, <3>3
  <2>3. \A j \in 1..Len(line) : j < i => j <= k
    BY <1>1, <1>3, <2>1, <2>2
  <2>4. \A j \in 1..Len(line) : j < i => tail[line[j]] # "pending"
    BY <1>3, <2>3
  <2> QED BY <1>1, <1>2, <2>4 DEF Front
<1> QED BY <1>4, <1>5

\* Only one operation is at the front.
LEMMA FrontUnique ==
  ASSUME IndInv, NEW o \in Ops, NEW p \in Ops, Front(o), Front(p)
  PROVE  o = p
<1>1. PICK i \in 1..Len(line) : /\ line[i] = o /\ tail[o] = "pending"
                                /\ \A j \in 1..Len(line) : j < i => tail[line[j]] # "pending"
  BY DEF Front
<1>2. PICK k \in 1..Len(line) : /\ line[k] = p /\ tail[p] = "pending"
                                /\ \A j \in 1..Len(line) : j < k => tail[line[j]] # "pending"
  BY DEF Front
<1>3. ~(i < k) /\ ~(k < i)
  BY <1>1, <1>2
<1> QED BY <1>1, <1>2, <1>3 DEF IndInv, TypeOK

\* The cancellation of a waiting task reaches the operation at the front.
LEMMA RootIsFront ==
  ASSUME IndInv, NEW o \in Ops, tail[o] = "pending"
  PROVE  Root \in Ops /\ Front(Root)
<1> USE DEF IndInv
<1>1. Len(line) \in Nat /\ DOMAIN line = 1..Len(line) /\ \A j \in 1..Len(line) : line[j] \in Ops
  BY DEF TypeOK
<1>2. PICK k \in 0..Len(line) : \A j \in 1..Len(line) : tail[line[j]] # "pending" <=> j <= k
  BY DEF FrontInv
<1>3. PICK i \in 1..Len(line) : line[i] = o
  BY DEF LineInv
<1>4. k + 1 \in 1..Len(line)
  BY <1>1, <1>2, <1>3
<1> DEFINE P(j) == /\ tail[line[j]] = "pending"
                   /\ \A n \in 1..(j - 1) : tail[line[n]] # "pending"
<1>5. P(k + 1)
  BY <1>1, <1>2, <1>4
<1> DEFINE f == CHOOSE j \in DOMAIN line : P(j)
<1>6. f \in DOMAIN line /\ P(f)
  BY <1>1, <1>4, <1>5
<1>7. Root = line[f]
  BY DEF Root
<1>8. \A n \in 1..Len(line) : n < f => tail[line[n]] # "pending"
  BY <1>1, <1>6
<1> QED BY <1>1, <1>6, <1>7, <1>8 DEF Front

\* Nobody but the front runs.
LEMMA RunsAlone ==
  ASSUME IndInv, NEW o \in Ops, Front(o)
  PROVE  \A p \in Ops \ {o} : pc[p] # "running"
<1> SUFFICES ASSUME NEW p \in Ops, pc[p] = "running" PROVE p = o
  OBVIOUS
<1>1. tail[p] = "pending"
  BY DEF IndInv, TypeOK, LineInv, StageInv, Ended
<1> QED BY <1>1, StartedIsFront, FrontUnique

\* The task at the front leaves the queue or ends.
LEMMA TaskMoves ==
  ASSUME IndInv, NEW o \in Ops, Front(o), NEW to \in {"running"} \cup Ended,
         pc' = [pc EXCEPT ![o] = to], UNCHANGED <<line, tail, prev, chain, pruned>>
  PROVE  LineInv' /\ FrontInv' /\ PrevInv' /\ ChainInv'
<1> USE DEF IndInv
<1>1. /\ pc'[o] = to /\ \A p \in Ops \ {o} : pc'[p] = pc[p]
      /\ to \notin {"idle", "queued"} /\ tail[o] # "none"
  BY DEF TypeOK, Ended, Front
<1>2. LineInv'
  BY <1>1 DEF LineInv
<1>3. PrevInv' /\ ChainInv'
  BY DEF PrevInv, ChainInv
<1>4. FrontInv'
  <2>1. PICK i \in 1..Len(line) : /\ line[i] = o /\ tail[o] = "pending"
                                  /\ \A j \in 1..Len(line) : j < i => tail[line[j]] # "pending"
    BY DEF Front
  <2>2. PICK k \in 0..Len(line) : \A j \in 1..Len(line) :
          /\ tail[line[j]] # "pending" <=> j <= k
          /\ pc[line[j]] # "queued" => j <= k + 1
    BY DEF FrontInv
  <2>3. Len(line) \in Nat /\ \A j \in 1..Len(line) : line[j] \in Ops
    BY DEF TypeOK
  <2>4. i <= k + 1
    <3>1. CASE i = 1
      BY <3>1
    <3>2. CASE i > 1
      <4>1. i - 1 \in 1..Len(line) /\ i - 1 < i
        BY <2>3, <3>2
      <4>2. i - 1 <= k
        BY <2>1, <2>2, <4>1
      <4> QED BY <2>3, <4>2
    <3> QED BY <2>3, <3>1, <3>2
  <2>5. \A j \in 1..Len(line) : pc'[line[j]] # "queued" => j <= k + 1
    <3> SUFFICES ASSUME NEW j \in 1..Len(line), pc'[line[j]] # "queued" PROVE j <= k + 1
      OBVIOUS
    <3>1. CASE line[j] = o
      BY <2>1, <2>4, <3>1 DEF LineInv
    <3>2. CASE line[j] # o
      BY <1>1, <2>2, <2>3, <3>2
    <3> QED BY <3>1, <3>2
  <2> QED BY <2>2, <2>5 DEF FrontInv
<1> QED BY <1>2, <1>3, <1>4

\* The tail at the front is over.
LEMMA TailMoves ==
  ASSUME IndInv, NEW o \in Ops, Front(o), NEW to \in {"done", "cancelled"},
         tail' = [tail EXCEPT ![o] = to], UNCHANGED <<line, pc, prev, chain, pruned>>
  PROVE  LineInv' /\ FrontInv' /\ PrevInv' /\ ChainInv'
<1> USE DEF IndInv
<1>1. tail'[o] = to /\ tail[o] # "none" /\ \A p \in Ops \ {o} : tail'[p] = tail[p]
  BY DEF TypeOK, Front
<1>2. LineInv'
  BY <1>1 DEF LineInv
<1>3. PrevInv' /\ ChainInv'
  BY DEF PrevInv, ChainInv
<1>4. FrontInv'
  <2>1. PICK i \in 1..Len(line) : /\ line[i] = o /\ tail[o] = "pending"
                                  /\ \A j \in 1..Len(line) : j < i => tail[line[j]] # "pending"
    BY DEF Front
  <2>2. PICK k \in 0..Len(line) : \A j \in 1..Len(line) :
          /\ tail[line[j]] # "pending" <=> j <= k
          /\ pc[line[j]] # "queued" => j <= k + 1
    BY DEF FrontInv
  <2>3. Len(line) \in Nat /\ \A j \in 1..Len(line) : line[j] \in Ops
    BY DEF TypeOK
  <2>4. i = k + 1
    <3>1. ~(i <= k)
      BY <2>1, <2>2
    <3>2. k + 1 <= i
      BY <2>3, <3>1
    <3>3. ~(k + 1 < i)
      <4>1. k + 1 < i => k + 1 \in 1..Len(line)
        BY <2>3
      <4>2. k + 1 < i => k + 1 <= k
        BY <2>1, <2>2, <4>1
      <4> QED BY <4>2
    <3> QED BY <3>2, <3>3
  <2>5. ASSUME NEW j \in 1..Len(line)
        PROVE  /\ tail'[line[j]] # "pending" <=> j <= k + 1
               /\ pc[line[j]] # "queued" => j <= (k + 1) + 1
    <3>1. pc[line[j]] # "queued" => j <= (k + 1) + 1
      BY <2>2, <2>3
    <3>2. CASE j = i
      BY <1>1, <2>1, <2>4, <3>1, <3>2
    <3>3. CASE j # i
      <4>1. line[j] # o /\ line[j] \in Ops
        BY <2>1, <2>3, <3>3 DEF LineInv
      <4>2. j <= k + 1 <=> j <= k
        BY <2>3, <2>4, <3>3
      <4> QED BY <1>1, <2>2, <3>1, <4>1, <4>2
    <3> QED BY <3>2, <3>3
  <2>6. k + 1 \in 0..Len(line)
    BY <2>3, <2>4
  <2> QED BY <2>5, <2>6 DEF FrontInv
<1> QED BY <1>2, <1>3, <1>4

-----------------------------------------------------------------------------
(* Each action keeps the invariant.                                        *)

\* A call, queued behind the tail of the chain or answered at once.
LEMMA BeginKeeps ==
  ASSUME IndInv, NEW o \in Ops, Begin(o)
  PROVE  IndInv'
<1> USE DEF IndInv
<1>1. PICK k \in Kinds, s \in Signals :
        /\ kind' = [kind EXCEPT ![o] = k] /\ signal' = [signal EXCEPT ![o] = s]
        /\ IF k = "refresh" /\ (s = "aborted" \/ ~ExpiresSoon)
           THEN /\ caller' = [caller EXCEPT ![o] = IF s = "aborted" THEN "aborted" ELSE "returned"]
                /\ UNCHANGED <<pc, tail, prev, chain, line>>
           ELSE /\ Enqueue(o)
                /\ caller' = [caller EXCEPT ![o] = IF s = "aborted" THEN "aborted" ELSE "waiting"]
  BY DEF Begin
<1>2. /\ caller[o] = "idle" /\ UNCHANGED <<store, expiring, issued, spent, snapshot, cancelled, pruned>>
      /\ pc[o] = "idle" /\ tail[o] = "none" /\ o \notin pruned
  BY DEF Begin, storeVars, StageInv, LineInv
<1>3. /\ kind' \in [Ops -> {"none", "refresh", "login", "logout"}]
      /\ signal' \in [Ops -> {"none", "live", "aborted"}]
      /\ \A p \in Ops \ {o} : kind'[p] = kind[p] /\ signal'[p] = signal[p]
      /\ signal'[o] = s
  BY <1>1, StoreAssumption DEF TypeOK
<1>4. RefreshedOnce'
  BY <1>2 DEF RefreshedOnce
<1>5. CASE UNCHANGED <<pc, tail, prev, chain, line>>
           /\ caller' = [caller EXCEPT ![o] = IF s = "aborted" THEN "aborted" ELSE "returned"]
  <2>1. TypeOK'
    BY <1>2, <1>3, <1>5 DEF TypeOK
  <2>2. LineInv' /\ FrontInv' /\ PrevInv' /\ ChainInv'
    BY <1>2, <1>5 DEF LineInv, FrontInv, PrevInv, ChainInv
  <2>3. StageInv'
    BY <1>2, <1>3, <1>5 DEF StageInv, TypeOK
  <2>4. RotationInv'
    BY <1>2, <1>3, <1>5 DEF RotationInv
  <2> QED BY <1>4, <2>1, <2>2, <2>3, <2>4
<1>6. CASE Enqueue(o) /\ caller' = [caller EXCEPT ![o] = IF s = "aborted" THEN "aborted" ELSE "waiting"]
  <2>1. /\ pc' = [pc EXCEPT ![o] = "queued"] /\ tail' = [tail EXCEPT ![o] = "pending"]
        /\ prev' = [prev EXCEPT ![o] = chain] /\ chain' = o /\ line' = Append(line, o)
    BY <1>6 DEF Enqueue
  <2>2. TypeOK'
    BY <1>2, <1>3, <1>6, <2>1 DEF TypeOK
  <2>3. /\ pc'[o] = "queued" /\ tail'[o] = "pending" /\ prev'[o] = chain
        /\ \A p \in Ops \ {o} : pc'[p] = pc[p] /\ tail'[p] = tail[p] /\ prev'[p] = prev[p]
    BY <2>1 DEF TypeOK
  <2>4. /\ Len(line) \in Nat /\ Len(line') = Len(line) + 1
        /\ \A i \in 1..Len(line) : line'[i] = line[i] /\ line[i] \in Ops \ {o}
        /\ line'[Len(line) + 1] = o
    <3>1. line \in Seq(Ops)
      BY DEF TypeOK
    <3>2. \A i \in 1..Len(line) : line[i] # o
      BY <1>2 DEF LineInv
    <3> QED BY <2>1, <3>1, <3>2
  <2>5. 1..Len(line') = 1..Len(line) \cup {Len(line) + 1}
    BY <2>4
  <2>6. LineInv'
    <3>1. \A i, j \in 1..Len(line') : line'[i] = line'[j] => i = j
      BY <2>4, <2>5 DEF LineInv
    <3>2. ASSUME NEW p \in Ops
          PROVE  /\ (\E i \in 1..Len(line') : line'[i] = p) <=> tail'[p] # "none"
                 /\ pc'[p] = "idle" <=> tail'[p] = "none"
      <4>1. CASE p = o
        BY <4>1, <2>3, <2>4, <2>5
      <4>2. CASE p # o
        <5>1. (\E i \in 1..Len(line') : line'[i] = p) <=> (\E i \in 1..Len(line) : line[i] = p)
          BY <2>4, <2>5, <4>2
        <5> QED BY <2>3, <4>2, <5>1 DEF LineInv
      <4> QED BY <4>1, <4>2
    <3> QED BY <3>1, <3>2 DEF LineInv
  <2>7. StageInv'
    BY <1>2, <1>3, <1>6, <2>3 DEF StageInv, TypeOK, Ended
  <2>8. FrontInv'
    <3>1. PICK f \in 0..Len(line) : \A j \in 1..Len(line) :
            /\ tail[line[j]] # "pending" <=> j <= f
            /\ pc[line[j]] # "queued" => j <= f + 1
      BY DEF FrontInv
    <3>2. \A j \in 1..Len(line') :
            /\ tail'[line'[j]] # "pending" <=> j <= f
            /\ pc'[line'[j]] # "queued" => j <= f + 1
      BY <2>3, <2>4, <2>5, <3>1
    <3>3. f \in 0..Len(line')
      BY <2>4
    <3> QED BY <3>2, <3>3 DEF FrontInv
  <2>9. PrevInv'
    <3> SUFFICES ASSUME NEW i \in 1..Len(line')
                 PROVE  IF i = 1 THEN prev'[line'[i]] = None
                        ELSE \/ prev'[line'[i]] = line'[i - 1]
                             \/ prev'[line'[i]] = None /\ line'[i - 1] \in pruned'
      BY DEF PrevInv
    <3>1. CASE i \in 1..Len(line)
      <4>1. prev'[line'[i]] = prev[line[i]]
        BY <2>3, <2>4, <3>1
      <4>2. i # 1 => line'[i - 1] = line[i - 1]
        BY <2>4, <3>1
      <4> QED BY <1>2, <3>1, <4>1, <4>2 DEF PrevInv
    <3>2. CASE i = Len(line) + 1
      <4>1. prev'[line'[i]] = chain
        BY <2>3, <2>4, <3>2
      <4>2. CASE i = 1
        <5>1. line = <<>>
          BY <2>4, <3>2, <4>2 DEF TypeOK
        <5> QED BY <4>1, <4>2, <5>1 DEF ChainInv
      <4>3. CASE i # 1
        <5>1. line # <<>> /\ line'[i - 1] = line[Len(line)]
          BY <2>4, <3>2, <4>3
        <5> QED BY <1>2, <4>1, <4>3, <5>1 DEF ChainInv
      <4> QED BY <4>2, <4>3
    <3> QED BY <2>5, <3>1, <3>2
  <2>10. ChainInv'
    BY <1>2, <2>1, <2>4, StoreAssumption DEF ChainInv
  <2>11. RotationInv'
    <3> SUFFICES ASSUME NEW p \in Ops, pc'[p] = "running"
                 PROVE  store' = snapshot'[p] /\ (kind'[p] = "refresh" => snapshot'[p] # None)
      BY <1>2 DEF RotationInv
    <3>1. p # o
      BY <2>3
    <3> QED BY <1>2, <1>3, <2>3, <3>1 DEF RotationInv
  <2> QED BY <1>4, <2>2, <2>6, <2>7, <2>8, <2>9, <2>10, <2>11
<1> QED BY <1>1, <1>5, <1>6

\* A task whose turn has come runs its callback, removes the entry, or ends.
LEMMA TaskRunsKeeps ==
  ASSUME IndInv, NEW o \in Ops, TaskRuns(o)
  PROVE  IndInv'
<1> USE DEF IndInv
<1>1. /\ pc[o] = "queued" /\ Front(o)
      /\ UNCHANGED <<expiring, issued, spent, kind, signal, prev, chain, line, tail, caller, cancelled, pruned>>
  BY TurnIsFront DEF TaskRuns
<1> DEFINE to == pc'[o]
<1>2. /\ to \in {"running"} \cup Ended /\ pc' = [pc EXCEPT ![o] = to]
      /\ pc'[o] = to /\ \A p \in Ops \ {o} : pc'[p] = pc[p]
      /\ to = "value" => signal[o] # "aborted"
      /\ to \notin Ended => signal[o] # "aborted"
      /\ tail[o] = "pending"
  BY <1>1 DEF TaskRuns, End, TypeOK, Ended, Front
<1>3. /\ store' \in {store, None} /\ snapshot' \in [Ops -> Credentials \cup {None}]
      /\ \A p \in Ops \ {o} : snapshot'[p] = snapshot[p]
      /\ to = "running" => /\ store' = store /\ snapshot'[o] = store
                           /\ kind[o] = "refresh" => store # None
  BY <1>1 DEF TaskRuns, End, TypeOK, Ended, ExpiresSoon, IsOAuth
<1>4. LineInv' /\ FrontInv' /\ PrevInv' /\ ChainInv'
  BY <1>1, <1>2, TaskMoves
<1>5. TypeOK'
  <2>1. pc' \in [Ops -> {"idle", "queued", "running"} \cup Ended]
    BY <1>2 DEF TypeOK
  <2>2. store' \in Credentials \cup {None}
    BY <1>3 DEF TypeOK
  <2> QED BY <1>1, <1>3, <2>1, <2>2 DEF TypeOK
<1>6. StageInv'
  <2> SUFFICES ASSUME NEW p \in Ops
               PROVE  /\ tail'[p] \in {"done", "cancelled"} => pc'[p] \in Ended
                      /\ p \in pruned' => tail'[p] \in {"done", "cancelled"}
                      /\ caller'[p] = "idle" => pc'[p] = "idle"
                      /\ caller'[p] = "waiting" => pc'[p] # "idle"
                      /\ caller'[p] = "aborted" /\ pc'[p] # "idle" =>
                            pc'[p] # "value" /\ (pc'[p] \notin Ended => signal'[p] = "aborted")
    BY DEF StageInv
  <2>1. CASE p # o
    BY <1>1, <1>2, <2>1 DEF StageInv
  <2>2. CASE p = o
    BY <1>1, <1>2, <2>2 DEF StageInv, Ended
  <2> QED BY <2>1, <2>2
<1>7. RotationInv' /\ RefreshedOnce'
  <2>1. \A p \in Ops \ {o} : pc'[p] # "running"
    BY <1>1, <1>2, RunsAlone
  <2>2. /\ store' # None => store'.gen <= issued
        /\ \A i \in 1..Len(spent) : spent[i] <= issued /\ (store' # None => spent[i] # store'.gen)
    BY <1>3 DEF RotationInv
  <2>3. RotationInv'
    BY <1>1, <1>2, <1>3, <2>1, <2>2 DEF RotationInv
  <2> QED BY <1>1, <2>3 DEF RefreshedOnce
<1> QED BY <1>4, <1>5, <1>6, <1>7

\* A task ends without touching the store.
LEMMA TaskEndsKeeps ==
  ASSUME IndInv, NEW o \in Ops, Front(o), pc[o] \in {"queued", "running"},
         NEW to \in Ended \ {"value"}, pc' = [pc EXCEPT ![o] = to],
         UNCHANGED <<storeVars, callVars, chain, line, tail, caller, pruned>>, cancelled' \subseteq Ops
  PROVE  IndInv'
<1> USE DEF IndInv, storeVars, callVars
<1>1. LineInv' /\ FrontInv' /\ PrevInv' /\ ChainInv'
  BY TaskMoves
<1>2. pc'[o] = to /\ \A p \in Ops \ {o} : pc'[p] = pc[p]
  BY DEF TypeOK
<1>3. TypeOK'
  BY DEF TypeOK, Ended
<1>4. StageInv'
  BY <1>2 DEF StageInv, Ended
<1>5. RotationInv' /\ RefreshedOnce'
  BY <1>2 DEF RotationInv, RefreshedOnce, Ended
<1> QED BY <1>1, <1>3, <1>4, <1>5

\* The credential the callback returned is stored.
LEMMA CommitsKeeps ==
  ASSUME IndInv, NEW o \in Ops, Commits(o)
  PROVE  IndInv'
<1> USE DEF IndInv
<1>1. /\ pc[o] = "running" /\ signal[o] # "aborted" /\ pc' = [pc EXCEPT ![o] = "value"]
      /\ issued' = issued + 1 /\ expiring' \in BOOLEAN
      /\ UNCHANGED <<kind, signal, prev, snapshot, chain, line, tail, caller, cancelled, pruned>>
      /\ spent' = IF kind[o] = "refresh" THEN Append(spent, snapshot[o].gen) ELSE spent
  BY DEF Commits, End, Commit, callVars
<1>2. PICK type \in {"oauth", "api_key"} : store' = [type |-> type, gen |-> issued + 1]
  BY DEF Commits, Commit
<1>3. tail[o] = "pending" /\ Front(o)
  <2>1. tail[o] = "pending"
    BY <1>1 DEF TypeOK, LineInv, StageInv, Ended
  <2> QED BY <1>1, <2>1, StartedIsFront
<1>4. LineInv' /\ FrontInv' /\ PrevInv' /\ ChainInv'
  BY <1>1, <1>3, TaskMoves DEF Ended
<1>5. pc'[o] = "value" /\ \A p \in Ops \ {o} : pc'[p] = pc[p]
  BY <1>1 DEF TypeOK
<1>6. issued \in Nat /\ store'.gen = issued + 1 /\ store' \in Credentials
  BY <1>2 DEF TypeOK, Credentials
<1>7. kind[o] = "refresh" =>
         /\ snapshot[o].gen \in Nat /\ snapshot[o].gen <= issued
         /\ \A i \in 1..Len(spent) : spent[i] # snapshot[o].gen
  BY <1>1 DEF RotationInv, TypeOK, Credentials
<1>8. /\ spent' \in Seq(Nat)
      /\ \A i \in 1..Len(spent') : spent'[i] <= issued
      /\ \A i, j \in 1..Len(spent') : spent'[i] = spent'[j] => i = j
  <2>1. spent \in Seq(Nat) /\ DOMAIN spent = 1..Len(spent)
    BY DEF TypeOK
  <2>2. CASE kind[o] = "refresh"
    <3>1. /\ spent' \in Seq(Nat) /\ Len(spent') = Len(spent) + 1
          /\ spent'[Len(spent) + 1] = snapshot[o].gen
          /\ \A i \in 1..Len(spent) : spent'[i] = spent[i]
      BY <1>1, <1>7, <2>1, <2>2
    <3>2. \A i \in 1..Len(spent') : i \in 1..Len(spent) \/ i = Len(spent) + 1
      BY <2>1, <3>1
    <3>3. \A i \in 1..Len(spent') : spent'[i] <= issued
      BY <1>7, <2>2, <3>1, <3>2 DEF RotationInv
    <3>4. \A i, j \in 1..Len(spent') : spent'[i] = spent'[j] => i = j
      BY <1>7, <2>1, <2>2, <3>1, <3>2 DEF RefreshedOnce
    <3> QED BY <3>1, <3>3, <3>4
  <2>3. CASE kind[o] # "refresh"
    BY <1>1, <2>1, <2>3 DEF RotationInv, RefreshedOnce
  <2> QED BY <2>2, <2>3
<1>9. TypeOK'
  BY <1>1, <1>6, <1>8 DEF TypeOK, Ended
<1>10. StageInv'
  BY <1>1, <1>5 DEF StageInv, Ended
<1>11. RefreshedOnce'
  <2>1. DOMAIN spent' = 1..Len(spent')
    BY <1>8
  <2> QED BY <1>8, <2>1 DEF RefreshedOnce
<1>12. RotationInv'
  <2>1. \A p \in Ops : pc'[p] # "running"
    BY <1>3, <1>5, RunsAlone
  <2>2. \A i \in 1..Len(spent') : spent'[i] <= issued + 1 /\ spent'[i] # issued + 1
    <3> SUFFICES ASSUME NEW i \in 1..Len(spent') PROVE spent'[i] <= issued + 1 /\ spent'[i] # issued + 1
      OBVIOUS
    <3>1. spent'[i] \in Nat /\ spent'[i] <= issued
      BY <1>8
    <3> QED BY <1>6, <3>1
  <2> QED BY <1>1, <1>6, <2>1, <2>2 DEF RotationInv
<1> QED BY <1>4, <1>9, <1>10, <1>11, <1>12

\* A tail is over: its own task has ended, or its caller was cancelled.
LEMMA TailKeeps ==
  ASSUME IndInv, NEW o \in Ops, Front(o), pc[o] \in Ended, NEW to \in {"done", "cancelled"},
         tail' = [tail EXCEPT ![o] = to],
         UNCHANGED <<storeVars, callVars, chain, line, pc, caller, pruned>>, cancelled' \subseteq Ops
  PROVE  IndInv'
<1> USE DEF IndInv, storeVars, callVars
<1>1. LineInv' /\ FrontInv' /\ PrevInv' /\ ChainInv'
  BY TailMoves
<1>2. tail'[o] = to /\ \A p \in Ops \ {o} : tail'[p] = tail[p]
  BY DEF TypeOK
<1>3. TypeOK'
  BY DEF TypeOK
<1>4. StageInv'
  BY <1>2 DEF StageInv
<1>5. RotationInv' /\ RefreshedOnce'
  BY DEF RotationInv, RefreshedOnce
<1> QED BY <1>1, <1>3, <1>4, <1>5

\* The done callback drops the chain only when nobody joined it.
LEMMA PruneKeeps ==
  ASSUME IndInv, NEW o \in Ops, Prune(o)
  PROVE  IndInv'
<1> USE DEF IndInv, storeVars, callVars, Prune
<1>1. TypeOK'
  <2>1. chain' \in Ops \cup {None} /\ pruned' \subseteq Ops
    BY DEF TypeOK
  <2> QED BY <2>1 DEF TypeOK
<1>2. LineInv' /\ FrontInv' /\ RotationInv' /\ RefreshedOnce'
  BY DEF LineInv, FrontInv, RotationInv, RefreshedOnce
<1>3. StageInv'
  BY DEF StageInv
<1>4. PrevInv'
  BY DEF PrevInv
<1>5. ChainInv'
  BY StoreAssumption DEF ChainInv, TypeOK
<1> QED BY <1>1, <1>2, <1>3, <1>4, <1>5

\* A caller is answered or leaves.
LEMMA CallerKeeps ==
  ASSUME IndInv, NEW o \in Ops, caller[o] = "waiting",
         NEW told \in {"returned", "error", "aborted", "cancelled"},
         caller' = [caller EXCEPT ![o] = told], cancelled' \subseteq Ops,
         told = "aborted" => pc[o] # "value" /\ (pc[o] \notin Ended => signal[o] = "aborted"),
         UNCHANGED <<storeVars, callVars, chain, line, pc, tail, pruned>>
  PROVE  IndInv'
<1> USE DEF IndInv, storeVars, callVars
<1>1. TypeOK' /\ LineInv' /\ FrontInv' /\ PrevInv' /\ ChainInv' /\ RotationInv' /\ RefreshedOnce'
  BY DEF TypeOK, LineInv, FrontInv, PrevInv, ChainInv, RotationInv, RefreshedOnce
<1>2. caller'[o] = told /\ \A p \in Ops \ {o} : caller'[p] = caller[p]
  BY DEF TypeOK
<1>3. StageInv'
  BY <1>2 DEF StageInv
<1> QED BY <1>1, <1>3

\* Cancelling a caller reaches its own wait or the front of the line.
LEMMA CancelKeeps ==
  ASSUME IndInv, NEW o \in Ops, CallerCancelled(o)
  PROVE  IndInv'
<1>1. /\ caller[o] = "waiting" /\ pc[o] \notin Ended /\ cancelled' \subseteq Ops
      /\ UNCHANGED <<storeVars, callVars, chain, line, pruned>>
  BY DEF CallerCancelled, IndInv, TypeOK
<1>2. CASE signal[o] # "none"
  BY <1>1, <1>2, CallerKeeps DEF CallerCancelled
<1>3. CASE signal[o] = "none"
  <2>1. /\ UNCHANGED caller
        /\ IF pc[Root] \in Ended THEN tail' = [tail EXCEPT ![Root] = "cancelled"] /\ UNCHANGED pc
           ELSE pc' = [pc EXCEPT ![Root] = "cancelled"] /\ UNCHANGED tail
    BY <1>3 DEF CallerCancelled, End
  <2>2. tail[o] = "pending"
    <3>1. pc[o] # "idle"
      BY <1>1 DEF IndInv, StageInv
    <3>2. tail[o] # "none" /\ tail[o] \notin {"done", "cancelled"}
      BY <1>1, <3>1 DEF IndInv, LineInv, StageInv
    <3> QED BY <3>2 DEF IndInv, TypeOK
  <2>3. Root \in Ops /\ Front(Root)
    BY <2>2, RootIsFront
  <2>4. CASE pc[Root] \in Ended
    BY <1>1, <2>1, <2>3, <2>4, TailKeeps
  <2>5. CASE pc[Root] \notin Ended
    <3>1. pc[Root] \in {"queued", "running"}
      BY <2>3, <2>5 DEF Front, IndInv, TypeOK, LineInv
    <3>2. "cancelled" \in Ended \ {"value"}
      BY DEF Ended
    <3> QED BY <1>1, <2>1, <2>3, <2>5, <3>1, <3>2, TaskEndsKeeps
  <2> QED BY <2>4, <2>5
<1> QED BY <1>2, <1>3

\* The order of the chain is an inductive invariant.
LEMMA IndInvInductive == Spec => []IndInv
<1>1. Init => IndInv
  <2> SUFFICES ASSUME Init PROVE IndInv
    OBVIOUS
  <2> USE DEF Init
  <2>1. TypeOK
    BY DEF TypeOK, Credentials
  <2>2. LineInv /\ StageInv /\ PrevInv /\ ChainInv /\ RotationInv /\ RefreshedOnce
    BY DEF LineInv, StageInv, PrevInv, ChainInv, RotationInv, RefreshedOnce
  <2>3. FrontInv
    BY DEF FrontInv
  <2> QED BY <2>1, <2>2, <2>3 DEF IndInv
<1>2. IndInv /\ [Next]_vars => IndInv'
  <2> SUFFICES ASSUME IndInv, [Next]_vars PROVE IndInv'
    OBVIOUS
  <2>1. CASE UNCHANGED vars
    BY <2>1 DEF vars, storeVars, callVars, IndInv, TypeOK, LineInv, StageInv, FrontInv, PrevInv, ChainInv,
                RotationInv, RefreshedOnce
  <2>2. CASE Expire
    BY <2>2 DEF Expire, callVars, IndInv, TypeOK, LineInv, StageInv, FrontInv, PrevInv, ChainInv,
                RotationInv, RefreshedOnce
  <2>3. CASE \E o \in Ops : Begin(o) \/ TaskStep(o) \/ CallerStep(o) \/ CallerCancelled(o) \/ Abort(o)
    <3>1. PICK o \in Ops : Begin(o) \/ TaskStep(o) \/ CallerStep(o) \/ CallerCancelled(o) \/ Abort(o)
      BY <2>3
    <3>2. CASE TaskSoured(o)
      <4>1. Front(o)
        BY <3>2, TurnIsFront DEF TaskSoured
      <4> QED BY <3>2, <4>1, TaskEndsKeeps DEF TaskSoured, End, Ended, IndInv, TypeOK
    <3>3. CASE DoesNotCommit(o)
      <4>1. tail[o] = "pending" /\ pc[o] = "running"
        BY <3>3 DEF DoesNotCommit, IndInv, TypeOK, LineInv, StageInv, Ended
      <4>2. Front(o)
        BY <4>1, StartedIsFront
      <4>3. \E to \in Ended \ {"value"} : pc' = [pc EXCEPT ![o] = to]
        <5>1. {"aborted", "error"} \subseteq Ended \ {"value"}
          BY DEF Ended
        <5>2. pc' = [pc EXCEPT ![o] = "aborted"] \/ pc' = [pc EXCEPT ![o] = "error"]
          BY <3>3 DEF DoesNotCommit, End
        <5> QED BY <5>1, <5>2
      <4> QED BY <3>3, <4>1, <4>2, <4>3, TaskEndsKeeps DEF DoesNotCommit, IndInv, TypeOK
    <3>4. CASE TailEnds(o)
      <4>1. Front(o)
        BY <3>4, StartedIsFront DEF TailEnds, Ended
      <4> QED BY <3>4, <4>1, TailKeeps DEF TailEnds, IndInv, TypeOK
    <3>5. CASE CallerReturns(o)
      <4>1. \E told \in {"returned", "error", "aborted", "cancelled"} :
              /\ caller' = [caller EXCEPT ![o] = told]
              /\ told = "aborted" => pc[o] # "value"
        BY <3>5 DEF CallerReturns, Ended
      <4> QED BY <3>5, <4>1, CallerKeeps DEF CallerReturns, IndInv, TypeOK
    <3>6. CASE CallerGivesUp(o)
      BY <3>6, CallerKeeps DEF CallerGivesUp, Ended, IndInv, TypeOK
    <3>7. CASE Abort(o)
      <4>1. /\ signal' = [signal EXCEPT ![o] = "aborted"]
            /\ UNCHANGED <<storeVars, kind, prev, snapshot, chain, line, pc, tail, caller, cancelled, pruned>>
        BY <3>7 DEF Abort
      <4>2. TypeOK'
        <5>1. signal' \in [Ops -> {"none", "live", "aborted"}]
          BY <4>1 DEF IndInv, TypeOK
        <5> QED BY <4>1, <5>1 DEF storeVars, IndInv, TypeOK
      <4>3. LineInv' /\ FrontInv' /\ PrevInv' /\ ChainInv'
        BY <4>1 DEF IndInv, LineInv, FrontInv, PrevInv, ChainInv
      <4>4. RotationInv' /\ RefreshedOnce'
        BY <4>1 DEF storeVars, IndInv, RotationInv, RefreshedOnce
      <4>5. StageInv'
        BY <4>1 DEF IndInv, TypeOK, StageInv
      <4> QED BY <4>2, <4>3, <4>4, <4>5 DEF IndInv
    <3> QED BY <3>1, <3>2, <3>3, <3>4, <3>5, <3>6, <3>7, BeginKeeps, TaskRunsKeeps, CommitsKeeps,
               PruneKeeps, CancelKeeps DEF TaskStep, CallerStep
  <2> QED BY <2>1, <2>2, <2>3 DEF Next
<1> QED BY <1>1, <1>2, PTL DEF Spec

\* modify() is a serialized read-modify-write whoever is aborted or cancelled:
\* the stored credential stays what the callback was given until its result is
\* committed, and no token is rotated twice.
THEOREM RefreshesAreIsolated == Spec => []RefreshIsolated
<1>1. IndInv => RefreshIsolated
  BY DEF IndInv, RotationInv, ModifyIsolated, RefreshIsolated
<1> QED BY <1>1, IndInvInductive, PTL

\* What was reported to a caller as aborted takes no effect, then or later.
THEOREM AbortsAreTrue == Spec => []ToldAbortedNeverCommits
<1>1. IndInv => ToldAbortedNeverCommits
  BY DEF IndInv, StageInv, ToldAbortedNeverCommits
<1> QED BY <1>1, IndInvInductive, PTL

\* A provider with no operation under way has no chain.
THEOREM ChainsArePruned == Spec => []ChainPruned
<1>1. IndInv => ChainPruned
  <2> SUFFICES ASSUME IndInv, \A o \in Ops : tail[o] = "none" \/ o \in pruned, chain # None
               PROVE  FALSE
    BY DEF ChainPruned
  <2>1. chain \in Ops /\ chain \notin pruned /\ line # <<>> /\ chain = line[Len(line)] /\ line \in Seq(Ops)
    BY DEF IndInv, TypeOK, ChainInv
  <2>2. Len(line) \in 1..Len(line)
    BY <2>1
  <2>3. tail[chain] # "none"
    BY <2>1, <2>2 DEF IndInv, LineInv
  <2> QED BY <2>1, <2>3
<1> QED BY <1>1, IndInvInductive, PTL

=============================================================================
