------------------------ MODULE MutationQueueProofs ------------------------
(***************************************************************************)
(* Safety of the mutation queue for any set of calls and of scopes.  The   *)
(* tail of a scope is its latest unreleased entry (TailInv), an entry      *)
(* waits for its immediate predecessor (ChainInv), and entries are         *)
(* released in order (DoneInv): so an entry whose turn has come is the     *)
(* only unreleased one at the head of its scope.  Registrations form a     *)
(* chain of their own, in the order of the calls (RegInv), in which one    *)
(* that was not given up has seen all before it settle.  The last part is  *)
(* about the edit and write tools, whose work on a file is in turn because *)
(* of that: no edit is lost.                                               *)
(***************************************************************************)
EXTENDS FileTools, TLAPS

\* Tickets number the entries.
TicketInv ==
    /\ \A c \in Calls : ticket[c] <= entries
    /\ \A c, d \in Entered : ticket[c] = ticket[d] => c = d

\* What the stage of a call says of its entry.
StageInv ==
    /\ released \subseteq Entered
    /\ \A c \in Calls :
         /\ pc[c] \in {"idle", "registering", "resolving"} => c \notin Entered
         /\ pc[c] \in {"waiting", "running", "deferred"} => c \in Entered \ released
         /\ pc[c] = "done" /\ c \in Entered => c \in released
         /\ pc[c] = "running" => TurnOf(c)
         /\ c \in Entered => scope[c] \in Scopes

TailInv ==
    \A s \in Scopes :
        /\ tails[s] = None => \A c \in Entered : scope[c] = s => c \in released
        /\ tails[s] # None =>
             /\ tails[s] \in Entered \ released /\ scope[tails[s]] = s
             /\ \A c \in Entered : scope[c] = s => ticket[c] <= ticket[tails[s]]

ChainInv ==
    \A d \in Entered :
        /\ current[d] # None => current[d] \in Entered
        /\ \A c \in Entered :
             scope[c] = scope[d] /\ ticket[c] < ticket[d] =>
                IF current[d] = None THEN c \in released
                ELSE /\ scope[current[d]] = scope[d]
                     /\ ticket[c] <= ticket[current[d]]

DoneInv ==
    \A c, d \in Entered :
        scope[c] = scope[d] /\ ticket[c] < ticket[d] /\ d \in released => c \in released

IndInv == TypeOK /\ TicketInv /\ StageInv /\ TailInv /\ ChainInv /\ DoneInv

\* Before an entry whose turn has come every entry of the scope is released.
LEMMA TurnMeansHead ==
  ASSUME IndInv, NEW c \in Entered, NEW d \in Entered, TurnOf(d),
         scope[c] = scope[d], ticket[c] < ticket[d]
  PROVE  c \in released
<1>1. CASE current[d] = None
  BY <1>1 DEF IndInv, ChainInv
<1>2. CASE current[d] # None
  <2>1. /\ current[d] \in released /\ current[d] \in Entered
        /\ scope[current[d]] = scope[d] /\ ticket[c] <= ticket[current[d]]
    BY <1>2 DEF IndInv, ChainInv, TurnOf
  <2>2. CASE ticket[c] = ticket[current[d]]
    BY <2>1, <2>2 DEF IndInv, TicketInv
  <2>3. CASE ticket[c] # ticket[current[d]]
    <3>1. ticket[c] < ticket[current[d]]
      BY <2>1, <2>3 DEF IndInv, TypeOK, Entered
    <3> QED BY <2>1, <3>1 DEF IndInv, DoneInv
  <2> QED BY <2>2, <2>3
<1> QED BY <1>1, <1>2

\* Releasing an entry whose turn has come keeps the queue in order.
LEMMA ReleaseKeeps ==
  ASSUME IndInv, NEW c \in Entered, c \notin released, TurnOf(c), Release(c),
         UNCHANGED <<called, registered, scope, current, entries, ticket>>
  PROVE  IndInv'
<1> USE DEF IndInv, Release
<1>1. Entered' = Entered /\ c \in Calls /\ scope[c] \in Scopes
  BY DEF Entered, StageInv
<1>2. TypeOK'
  BY <1>1 DEF TypeOK, Stages
<1>3. TicketInv'
  BY <1>1 DEF TicketInv
<1>4. StageInv'
  <2>1. released' \subseteq Entered'
    BY <1>1 DEF StageInv
  <2>2. ASSUME NEW d \in Calls
        PROVE  /\ (pc[d] \in {"idle", "registering", "resolving"} => d \notin Entered)'
               /\ (pc[d] \in {"waiting", "running", "deferred"} => d \in Entered \ released)'
               /\ (pc[d] = "done" /\ d \in Entered => d \in released)'
               /\ (pc[d] = "running" => TurnOf(d))'
               /\ (d \in Entered => scope[d] \in Scopes)'
    BY <1>1, <2>2 DEF StageInv, TypeOK, TurnOf
  <2> QED BY <2>1, <2>2 DEF StageInv
<1>5. TailInv'
  <2> SUFFICES ASSUME NEW s \in Scopes
               PROVE  /\ (tails[s] = None => \A d \in Entered : scope[d] = s => d \in released)'
                      /\ (tails[s] # None =>
                            /\ tails[s] \in Entered \ released /\ scope[tails[s]] = s
                            /\ \A d \in Entered : scope[d] = s => ticket[d] <= ticket[tails[s]])'
    BY DEF TailInv
  <2>1. CASE tails[s] = c
    <3>1. s = scope[c] /\ tails'[s] = None
      BY <2>1, QueueAssumption, <1>1 DEF TailInv, TypeOK
    <3>2. ASSUME NEW d \in Entered, scope[d] = s PROVE d \in released'
      <4>1. ticket[d] <= ticket[c]
        BY <2>1, <3>2, QueueAssumption, <1>1 DEF TailInv
      <4>2. CASE ticket[d] = ticket[c]
        BY <4>2 DEF TicketInv
      <4>3. CASE ticket[d] # ticket[c]
        <5>1. ticket[d] < ticket[c]
          BY <4>1, <4>3 DEF TypeOK, Entered
        <5> QED BY <5>1, <3>1, <3>2, TurnMeansHead
      <4> QED BY <4>2, <4>3
    <3> QED BY <1>1, <3>1, <3>2
  <2>2. CASE tails[s] # c
    <3>1. tails'[s] = tails[s]
      BY <2>2, <1>1 DEF TypeOK
    <3> QED BY <1>1, <2>2, <3>1 DEF TailInv
  <2> QED BY <2>1, <2>2
<1>6. ChainInv'
  <2> SUFFICES ASSUME NEW d \in Entered
               PROVE  /\ (current[d] # None => current[d] \in Entered)'
                      /\ (\A e \in Entered :
                            scope[e] = scope[d] /\ ticket[e] < ticket[d] =>
                              IF current[d] = None THEN e \in released
                              ELSE /\ scope[current[d]] = scope[d]
                                   /\ ticket[e] <= ticket[current[d]])'
    BY <1>1 DEF ChainInv
  <2> QED BY <1>1 DEF ChainInv
<1>7. DoneInv'
  <2> SUFFICES ASSUME NEW d \in Entered, NEW e \in Entered,
                      scope[d] = scope[e], ticket[d] < ticket[e], e \in released'
               PROVE  d \in released'
    BY <1>1 DEF DoneInv
  <2>1. CASE e = c
    BY <2>1, TurnMeansHead
  <2>2. CASE e # c
    BY <2>2 DEF DoneInv
  <2> QED BY <2>1, <2>2
<1> QED BY <1>2, <1>3, <1>4, <1>5, <1>6, <1>7

\* Becoming the tail of a scope keeps the queue in order.
LEMMA EnterKeeps ==
  ASSUME IndInv, NEW c \in Calls, NEW s \in Scopes, Enter(c, s)
  PROVE  IndInv'
<1> USE DEF IndInv, Enter
<1>1. c \notin Entered /\ c \notin released
  BY DEF StageInv
<1>2. TypeOK'
  <2>1. {"running", "waiting"} \subseteq Stages
    BY DEF Stages
  <2> QED BY <2>1 DEF TypeOK
<1>3. /\ Entered' = Entered \cup {c}
      /\ scope'[c] = s /\ current'[c] = tails[s] /\ ticket'[c] = entries + 1
      /\ \A d \in Calls \ {c} : /\ scope'[d] = scope[d] /\ current'[d] = current[d]
                                /\ ticket'[d] = ticket[d] /\ pc'[d] = pc[d]
      /\ tails'[s] = c
      /\ \A r \in Scopes \ {s} : tails'[r] = tails[r]
  BY DEF TypeOK, Entered
<1>4. \A d \in Entered : d # c /\ d \in Calls /\ ticket'[d] < ticket'[c]
  BY <1>1, <1>3 DEF TypeOK, TicketInv, Entered
<1>5. TicketInv'
  BY <1>3, <1>4 DEF TypeOK, TicketInv
<1>6. StageInv'
  <2>1. released' \subseteq Entered'
    BY <1>3 DEF StageInv
  <2>2. ASSUME NEW d \in Calls
        PROVE  /\ (pc[d] \in {"idle", "registering", "resolving"} => d \notin Entered)'
               /\ (pc[d] \in {"waiting", "running", "deferred"} => d \in Entered \ released)'
               /\ (pc[d] = "done" /\ d \in Entered => d \in released)'
               /\ (pc[d] = "running" => TurnOf(d))'
               /\ (d \in Entered => scope[d] \in Scopes)'
    <3>1. CASE d = c
      BY <3>1, <1>1, <1>3 DEF TurnOf, TypeOK
    <3>2. CASE d # c
      BY <3>2, <1>3 DEF StageInv, TurnOf
    <3> QED BY <3>1, <3>2
  <2> QED BY <2>1, <2>2 DEF StageInv
<1>7. TailInv'
  <2> SUFFICES ASSUME NEW r \in Scopes
               PROVE  /\ (tails[r] = None => \A d \in Entered : scope[d] = r => d \in released)'
                      /\ (tails[r] # None =>
                            /\ tails[r] \in Entered \ released /\ scope[tails[r]] = r
                            /\ \A d \in Entered : scope[d] = r => ticket[d] <= ticket[tails[r]])'
    BY DEF TailInv
  <2>1. CASE r = s
    BY <2>1, <1>1, <1>2, <1>3, <1>4, QueueAssumption DEF TypeOK
  <2>2. CASE r # s
    BY <2>2, <1>1, <1>3, <1>4 DEF TailInv
  <2> QED BY <2>1, <2>2
<1>8. ChainInv'
  <2> SUFFICES ASSUME NEW d \in Entered'
               PROVE  /\ (current[d] # None => current[d] \in Entered)'
                      /\ (\A e \in Entered :
                            scope[e] = scope[d] /\ ticket[e] < ticket[d] =>
                              IF current[d] = None THEN e \in released
                              ELSE /\ scope[current[d]] = scope[d]
                                   /\ ticket[e] <= ticket[current[d]])'
    BY DEF ChainInv
  <2>1. CASE d = c
    BY <2>1, <1>1, <1>3, <1>4 DEF TailInv, TypeOK
  <2>2. CASE d # c
    <3>1. d \in Entered /\ ~(ticket'[c] < ticket'[d])
      BY <2>2, <1>2, <1>3, <1>4 DEF TypeOK, Entered
    <3> QED BY <2>2, <3>1, <1>1, <1>3, <1>4 DEF ChainInv
  <2> QED BY <2>1, <2>2
<1>9. DoneInv'
  BY <1>1, <1>2, <1>3, <1>4 DEF DoneInv, TypeOK, Entered
<1> QED BY <1>2, <1>5, <1>6, <1>7, <1>8, <1>9

\* A step that only moves a call outside the queue keeps it in order.
LEMMA OutsideKeeps ==
  ASSUME IndInv, NEW c \in Calls, TypeOK',
         UNCHANGED <<tails, scope, current, released, entries, ticket>>,
         \A d \in Calls \ {c} : pc'[d] = pc[d],
         \/ c \notin Entered /\ pc'[c] \in {"registering", "resolving"} \cup Over
         \/ pc[c] = "waiting" /\ pc'[c] = "deferred"
         \/ pc[c] = "waiting" /\ pc'[c] = "running" /\ TurnOf(c)
  PROVE  IndInv'
<1>1. Entered' = Entered
  BY DEF Entered
<1>2. StageInv'
  BY <1>1 DEF IndInv, StageInv, TurnOf, Over
<1>3. TicketInv' /\ TailInv' /\ DoneInv'
  BY <1>1 DEF IndInv, TicketInv, TailInv, DoneInv
<1>4. ChainInv'
  BY <1>1 DEF IndInv, ChainInv
<1> QED BY <1>2, <1>3, <1>4 DEF IndInv

\* The queue in order is an inductive invariant.
LEMMA IndInvInductive == Spec => []IndInv
<1>1. Init => IndInv
  <2> SUFFICES ASSUME Init PROVE IndInv
    OBVIOUS
  <2>1. TypeOK
    BY DEF Init, TypeOK, Stages
  <2>2. Entered = {}
    BY DEF Init, Entered
  <2> QED BY <2>1, <2>2 DEF Init, IndInv, TicketInv, StageInv, TailInv, ChainInv, DoneInv
<1>2. IndInv /\ [Next]_vars => IndInv'
  <2> SUFFICES ASSUME IndInv, [Next]_vars PROVE IndInv'
    OBVIOUS
  <2>1. CASE UNCHANGED vars
    BY <2>1 DEF IndInv, TypeOK, TicketInv, StageInv, TailInv, ChainInv, DoneInv, Entered, TurnOf, vars
  <2>2. CASE Next
    <3>1. PICK c \in Calls : Call(c) \/ Settle(c) \/ RegistrationCancelled(c) \/ WaitCancelled(c)
      BY <2>2 DEF Next
    <3>2. CASE Call(c)
      <4>1. TypeOK'
        <5>1. {"resolving", "registering"} \subseteq Stages
          BY DEF Stages
        <5> QED BY <3>2, <5>1 DEF Call, IndInv, TypeOK
      <4> QED BY <3>2, <4>1, OutsideKeeps DEF Call, IndInv, TypeOK, StageInv
    <3>3. CASE RegistrationTurn(c)
      <4>1. TypeOK'
        BY <3>3 DEF RegistrationTurn, IndInv, TypeOK, Stages
      <4> QED BY <3>3, <4>1, OutsideKeeps DEF RegistrationTurn, IndInv, TypeOK, StageInv
    <3>4. CASE RegistrationFails(c) \/ RegistrationCancelled(c)
      <4>1. TypeOK'
        BY <3>4 DEF RegistrationFails, RegistrationCancelled, RegistrationSettles, IndInv, TypeOK, Stages
      <4> QED BY <3>4, <4>1, OutsideKeeps
              DEF RegistrationFails, RegistrationCancelled, RegistrationSettles, IndInv, TypeOK, StageInv,
                  Over
    <3>5. CASE \E s \in Scopes : Enter(c, s)
      BY <3>5, EnterKeeps
    <3>6. CASE TurnComes(c)
      <4>1. TypeOK'
        BY <3>6 DEF TurnComes, IndInv, TypeOK, Stages
      <4> QED BY <3>6, <4>1, OutsideKeeps DEF TurnComes, IndInv, TypeOK
    <3>7. CASE DeferredRelease(c)
      BY <3>7, ReleaseKeeps DEF DeferredRelease, IndInv, StageInv, TurnOf
    <3>8. CASE FnEnds(c)
      BY <3>8, ReleaseKeeps DEF FnEnds, IndInv, StageInv
    <3>9. CASE WaitCancelled(c) /\ TurnOf(c)
      BY <3>9, ReleaseKeeps DEF WaitCancelled, IndInv, StageInv
    <3>10. CASE WaitCancelled(c) /\ ~TurnOf(c)
      <4>1. TypeOK'
        BY <3>10 DEF WaitCancelled, IndInv, TypeOK, Stages
      <4> QED BY <3>10, <4>1, OutsideKeeps DEF WaitCancelled, IndInv, TypeOK
    <3> QED BY <3>1, <3>2, <3>3, <3>4, <3>5, <3>6, <3>7, <3>8, <3>9, <3>10 DEF Settle
  <2> QED BY <2>1, <2>2
<1> QED BY <1>1, <1>2, PTL DEF Spec

\* Every state the queue reaches is well typed.
THEOREM TypeCorrect == Spec => []TypeOK
<1>1. IndInv => TypeOK
  BY DEF IndInv
<1> QED BY <1>1, IndInvInductive, PTL

\* with_mutation_queue() runs a function only after every earlier entry of the
\* same file was released, whatever was cancelled or failed on the way.
THEOREM EntriesRunInOrder == Spec => []FirstInFirstOut
<1>1. IndInv => FirstInFirstOut
  <2> SUFFICES ASSUME IndInv, NEW c \in Entered, NEW d \in Entered,
                      scope[c] = scope[d], ticket[c] < ticket[d], pc[d] = "running"
               PROVE  c \in released
    BY DEF FirstInFirstOut
  <2>1. TurnOf(d)
    BY DEF IndInv, StageInv, Entered
  <2> QED BY <2>1, TurnMeansHead
<1> QED BY <1>1, IndInvInductive, PTL

\* Two functions of one queue do not run at once.
LEMMA OneRunner ==
  ASSUME IndInv, NEW c \in Calls, NEW d \in Calls, pc[c] = "running", pc[d] = "running",
         scope[c] = scope[d]
  PROVE  c = d
<1>1. /\ c \in Entered \ released /\ TurnOf(c)
      /\ d \in Entered \ released /\ TurnOf(d)
  BY DEF IndInv, StageInv
<1>2. ~(ticket[c] < ticket[d]) /\ ~(ticket[d] < ticket[c])
  BY <1>1, TurnMeansHead
<1>3. ticket[c] = ticket[d]
  BY <1>2 DEF IndInv, TypeOK
<1> QED BY <1>1, <1>3 DEF IndInv, TicketInv

\* Two functions never run on the same file at once.
THEOREM MutualExclusion == Spec => []OneMutationAtATime
<1>1. IndInv => OneMutationAtATime
  BY OneRunner DEF OneMutationAtATime
<1> QED BY <1>1, IndInvInductive, PTL

\* The table of queues holds exactly the files that have a call outstanding.
THEOREM TablePruned == Spec => []QueueDropped
<1>1. IndInv => QueueDropped
  BY DEF IndInv, QueueDropped, TailInv
<1> QED BY <1>1, IndInvInductive, PTL

-----------------------------------------------------------------------------
(* The registration chain.  A registration begins when the one before it   *)
(* has settled, which says nothing of those before that: a registration    *)
(* given up while it waited settled without them.  One that began, whether *)
(* it then made an entry or failed, hands on what it had waited for.       *)

\* The registration of c is under way or has left an entry.
Begun(c) == pc[c] = "resolving" \/ c \in Entered

\* The registration of c is under way, has failed or has left an entry.
Handing(c) == Begun(c) \/ pc[c] = "done"

\* No registration between the i-th and the j-th was given up.
NoneGivenUp(i, j) == \A k \in (i + 1)..(j - 1) : pc[called[k]] # "abandoned"

RegInv ==
    /\ \A i, j \in 1..Len(called) : called[i] = called[j] => i = j
    /\ \A c \in Calls : (\E i \in 1..Len(called) : called[i] = c) <=> pc[c] # "idle"
    /\ \A c \in Calls : pc[c] \in {"idle", "registering", "resolving"} => c \notin registered
    /\ \A c \in Calls : c \in Entered \/ pc[c] \in Over => c \in registered
    /\ \A j \in 1..Len(called) : \A i \in 1..(j - 1) :
          Handing(called[j]) /\ NoneGivenUp(i, j) => called[i] \in registered

\* A registration that begins when the one before it has settled begins when
\* every one has that no given-up one stands behind.
LEMMA SettledHandedOn ==
  ASSUME IndInv, RegInv, NEW j \in 2..(Len(called) + 1), called[j - 1] \in registered,
         NEW i \in 1..(j - 1), NoneGivenUp(i, j)
  PROVE  called[i] \in registered
<1>1. /\ called \in Seq(Calls) /\ Len(called) \in Nat
      /\ j - 1 \in 1..Len(called) /\ called[j - 1] \in Calls
  BY DEF IndInv, TypeOK
<1>2. CASE i = j - 1
  BY <1>2
<1>3. CASE i # j - 1
  <2>1. j - 1 \in (i + 1)..(j - 1) /\ i \in 1..((j - 1) - 1)
    BY <1>1, <1>3
  <2>2. pc[called[j - 1]] # "abandoned" /\ NoneGivenUp(i, j - 1)
    <3>1. \A k \in (i + 1)..((j - 1) - 1) : k \in (i + 1)..(j - 1)
      BY <1>1
    <3> QED BY <2>1, <3>1 DEF NoneGivenUp
  <2>3. pc[called[j - 1]] \in Stages /\ pc[called[j - 1]] \notin {"idle", "registering", "resolving"}
    BY <1>1 DEF RegInv, IndInv, TypeOK
  <2>4. Handing(called[j - 1])
    BY <1>1, <2>2, <2>3 DEF Handing, Begun, IndInv, StageInv, Stages
  <2> QED BY <1>1, <2>1, <2>2, <2>4 DEF RegInv
<1> QED BY <1>2, <1>3

\* A call joins the registration chain.
LEMMA CallKeepsOrder ==
  ASSUME IndInv, RegInv, NEW c \in Calls, Call(c)
  PROVE  RegInv'
<1>1. /\ pc[c] = "idle" /\ called' = Append(called, c)
      /\ UNCHANGED <<registered, ticket>> /\ Entered' = Entered
      /\ pc'[c] = IF called = <<>> \/ called[Len(called)] \in registered THEN "resolving" ELSE "registering"
      /\ \A d \in Calls \ {c} : pc'[d] = pc[d]
  BY DEF Call, IndInv, TypeOK, Entered
<1>2. /\ called \in Seq(Calls) /\ Len(called) \in Nat /\ Len(called') = Len(called) + 1
      /\ \A i \in 1..Len(called) : called'[i] = called[i] /\ called[i] \in Calls /\ called[i] # c
      /\ called'[Len(called) + 1] = c
      /\ \A i \in 1..Len(called') : i \in 1..Len(called) \/ i = Len(called) + 1
  <2>1. called \in Seq(Calls) /\ Len(called) \in Nat
    BY DEF IndInv, TypeOK
  <2>2. \A i \in 1..Len(called) : called[i] # c
    BY <1>1 DEF RegInv
  <2> QED BY <1>1, <2>1, <2>2
<1>3. \A i, j \in 1..Len(called') : called'[i] = called'[j] => i = j
  BY <1>2 DEF RegInv
<1>4. ASSUME NEW d \in Calls
      PROVE  /\ (\E i \in 1..Len(called') : called'[i] = d) <=> pc'[d] # "idle"
             /\ pc'[d] \in {"idle", "registering", "resolving"} => d \notin registered
             /\ d \in Entered \/ pc'[d] \in Over => d \in registered
  <2>1. CASE d = c
    <3>1. pc'[c] \notin Over /\ pc'[c] # "idle" /\ c \notin Entered /\ c \notin registered
      BY <1>1 DEF RegInv, IndInv, StageInv, TypeOK, Over
    <3> QED BY <1>2, <2>1, <3>1
  <2>2. CASE d # c
    <3>1. (\E i \in 1..Len(called') : called'[i] = d) <=> (\E i \in 1..Len(called) : called[i] = d)
      BY <1>2, <2>2
    <3> QED BY <1>1, <2>2, <3>1 DEF RegInv
  <2> QED BY <2>1, <2>2
<1>5. ASSUME NEW j \in 1..Len(called'), NEW i \in 1..(j - 1),
             Handing(called[j])', NoneGivenUp(i, j)'
      PROVE  called'[i] \in registered
  <2>1. \A k \in 1..(j - 1) : k \in 1..Len(called) /\ called'[k] = called[k]
    BY <1>2
  <2>2. NoneGivenUp(i, j)
    <3> SUFFICES ASSUME NEW k \in (i + 1)..(j - 1) PROVE pc[called[k]] # "abandoned"
      BY DEF NoneGivenUp
    <3>1. k \in 1..(j - 1)
      BY <1>2
    <3>2. called'[k] = called[k] /\ called[k] \in Calls \ {c} /\ pc'[called'[k]] # "abandoned"
      BY <1>2, <1>5, <2>1, <3>1 DEF NoneGivenUp
    <3> QED BY <1>1, <3>2
  <2>3. CASE j \in 1..Len(called)
    <3>1. Handing(called[j])
      BY <1>1, <1>2, <1>5, <2>3 DEF Handing, Begun
    <3> QED BY <1>5, <2>1, <2>2, <2>3, <3>1 DEF RegInv
  <2>4. CASE j = Len(called) + 1
    <3>1. called'[j] = c /\ c \notin Entered
      BY <1>1, <1>2, <2>4 DEF IndInv, StageInv
    <3>2. j \in 2..(Len(called) + 1) /\ j - 1 = Len(called) /\ called # <<>>
      BY <1>2, <1>5, <2>4
    <3>3. called[Len(called)] \in registered
      BY <1>1, <1>5, <3>1, <3>2 DEF Handing, Begun
    <3> QED BY <1>5, <2>1, <2>2, <3>2, <3>3, SettledHandedOn
  <2> QED BY <1>2, <2>3, <2>4
<1> QED BY <1>1, <1>3, <1>4, <1>5 DEF RegInv

\* Any other step: registrations only settle, by an entry, a failure or by being
\* given up, and one begins only behind a settled one.
LEMMA SettlingKeepsOrder ==
  ASSUME IndInv, RegInv, NEW c \in Calls, called' = called,
         pc[c] # "idle" /\ pc'[c] # "idle", pc[c] # "abandoned", \A d \in Calls \ {c} : pc'[d] = pc[d],
         registered \subseteq registered', registered' \subseteq registered \cup {c},
         Entered \subseteq Entered', Entered' \subseteq Entered \cup {c},
         pc'[c] \in {"registering", "resolving"} => c \notin registered',
         c \in Entered' \/ pc'[c] \in Over => c \in registered',
         pc'[c] \in {"resolving", "done"} \/ c \in Entered' =>
            \/ pc[c] \in {"resolving", "done"} \/ c \in Entered
            \/ \E i \in 2..Len(called) : called[i] = c /\ called[i - 1] \in registered
  PROVE  RegInv'
<1>1. called \in Seq(Calls) /\ Len(called) \in Nat /\ \A i \in 1..Len(called) : called[i] \in Calls
  BY DEF IndInv, TypeOK
<1>2. ASSUME NEW d \in Calls
      PROVE  /\ (\E i \in 1..Len(called) : called[i] = d) <=> pc'[d] # "idle"
             /\ pc'[d] \in {"idle", "registering", "resolving"} => d \notin registered'
             /\ d \in Entered' \/ pc'[d] \in Over => d \in registered'
  <2>1. CASE d = c
    <3>1. (\E i \in 1..Len(called) : called[i] = d) <=> pc[d] # "idle"
      BY DEF RegInv
    <3>2. pc'[d] = "idle" => d \notin registered'
      BY <2>1
    <3> QED BY <2>1, <3>1, <3>2
  <2>2. CASE d # c
    BY <2>2 DEF RegInv
  <2> QED BY <2>1, <2>2
<1>3. ASSUME NEW j \in 1..Len(called), NEW i \in 1..(j - 1), Handing(called[j])', NoneGivenUp(i, j)'
      PROVE  called[i] \in registered'
  <2>1. NoneGivenUp(i, j)
    <3> SUFFICES ASSUME NEW k \in (i + 1)..(j - 1) PROVE pc[called[k]] # "abandoned"
      BY DEF NoneGivenUp
    <3>1. k \in 1..Len(called)
      BY <1>1, <1>3
    <3>2. called[k] \in Calls /\ pc'[called[k]] # "abandoned"
      BY <1>1, <1>3, <3>1 DEF NoneGivenUp
    <3> QED BY <3>2
  <2>2. CASE Handing(called[j])
    BY <1>1, <1>3, <2>1, <2>2 DEF RegInv
  <2>3. CASE ~Handing(called[j])
    <3>1. called[j] = c
      BY <1>1, <1>3, <2>3 DEF Handing, Begun
    <3>2. PICK k \in 2..Len(called) : called[k] = c /\ called[k - 1] \in registered
      <4>1. /\ pc'[c] \in {"resolving", "done"} \/ c \in Entered'
            /\ pc[c] \notin {"resolving", "done"} /\ c \notin Entered
        BY <1>3, <2>3, <3>1 DEF Handing, Begun
      <4> QED BY <4>1
    <3>3. k = j
      BY <3>1, <3>2 DEF RegInv
    <3> QED BY <1>1, <1>3, <2>1, <3>2, <3>3, SettledHandedOn
  <2> QED BY <2>2, <2>3
<1> QED BY <1>2, <1>3 DEF RegInv

\* The order of registration is an invariant.
LEMMA RegInvInductive == Spec => []RegInv
<1>1. Init => RegInv
  BY DEF Init, RegInv, Entered, Over
<1>2. IndInv /\ RegInv /\ [Next]_vars => RegInv'
  <2> SUFFICES ASSUME IndInv, RegInv, [Next]_vars PROVE RegInv'
    OBVIOUS
  <2>1. CASE UNCHANGED vars
    BY <2>1 DEF vars, RegInv, Handing, Begun, NoneGivenUp, Entered
  <2>2. CASE Next
    <3>1. PICK c \in Calls : Call(c) \/ Settle(c) \/ RegistrationCancelled(c) \/ WaitCancelled(c)
      BY <2>2 DEF Next
    <3>2. CASE Call(c)
      BY <3>2, CallKeepsOrder
    <3>3. CASE RegistrationTurn(c)
      <4>1. /\ pc[c] = "registering" /\ pc' = [pc EXCEPT ![c] = "resolving"]
            /\ \E i \in 2..Len(called) : called[i] = c /\ called[i - 1] \in registered
            /\ UNCHANGED <<called, registered, ticket>> /\ Entered' = Entered
        BY <3>3 DEF RegistrationTurn, Entered
      <4>2. c \notin Entered /\ c \notin registered
        BY <4>1 DEF IndInv, StageInv, RegInv
      <4>3. pc'[c] = "resolving" /\ \A d \in Calls \ {c} : pc'[d] = pc[d]
        BY <4>1 DEF IndInv, TypeOK
      <4> QED BY <4>1, <4>2, <4>3, SettlingKeepsOrder DEF Over
    <3>4. CASE RegistrationFails(c) \/ RegistrationCancelled(c)
      <4>1. \/ pc[c] = "resolving" /\ pc' = [pc EXCEPT ![c] = "done"]
            \/ pc[c] = "registering" /\ pc' = [pc EXCEPT ![c] = "abandoned"]
        BY <3>4 DEF RegistrationFails, RegistrationCancelled, RegistrationSettles
      <4>2. /\ registered' = registered \cup {c} /\ called' = called
            /\ Entered' = Entered /\ pc \in [Calls -> Stages]
        BY <3>4 DEF RegistrationFails, RegistrationCancelled, RegistrationSettles, IndInv, TypeOK, Entered
      <4>3. pc'[c] \in {"resolving", "done"} => pc[c] = "resolving"
        BY <4>1, <4>2
      <4> QED BY <4>1, <4>2, <4>3, SettlingKeepsOrder DEF Over
    <3>5. CASE \E s \in Scopes : Enter(c, s)
      <4>1. PICK s \in Scopes : Enter(c, s)
        BY <3>5
      <4>2. Entered' = Entered \cup {c}
        BY <4>1 DEF Enter, IndInv, TypeOK, Entered
      <4> QED BY <4>1, <4>2, SettlingKeepsOrder DEF Enter, IndInv, TypeOK
    <3>6. CASE TurnComes(c) \/ DeferredRelease(c) \/ FnEnds(c) \/ WaitCancelled(c)
      <4>1. c \in registered /\ c \in Entered
        BY <3>6 DEF TurnComes, DeferredRelease, FnEnds, WaitCancelled, IndInv, StageInv, RegInv
      <4> QED BY <3>6, <4>1, SettlingKeepsOrder
              DEF TurnComes, DeferredRelease, FnEnds, WaitCancelled, Release, IndInv, TypeOK, Entered
    <3> QED BY <3>1, <3>2, <3>3, <3>4, <3>5, <3>6 DEF Settle
  <2> QED BY <2>1, <2>2
<1> QED BY <1>1, <1>2, IndInvInductive, PTL DEF Spec

\* A registration does not begin before an earlier one has settled, by an entry
\* or by a failure, unless one between them was given up while it waited.
THEOREM RegistrationsInOrder == Spec => []RegistrationInOrder
<1>1. IndInv /\ RegInv => RegistrationInOrder
  <2> SUFFICES ASSUME IndInv, RegInv, NEW i \in 1..Len(called), NEW j \in 1..Len(called), i < j,
                      Begun(called[j]), NoneGivenUp(i, j)
               PROVE  called[i] \in registered
    <3>1. DOMAIN called = 1..Len(called)
      BY DEF IndInv, TypeOK
    <3> QED BY <3>1 DEF RegistrationInOrder, NoneGivenUp, Begun
  <2>1. Len(called) \in Nat /\ i \in 1..(j - 1)
    BY DEF IndInv, TypeOK
  <2> QED BY <2>1 DEF RegInv, Handing
<1> QED BY <1>1, IndInvInductive, RegInvInductive, PTL

-----------------------------------------------------------------------------
(* The edit and write tools on one file.  Calls of one queue work in turn,  *)
(* so what an edit has read is what the file holds until its own write is   *)
(* filled (Kept).                                                           *)

\* No write was left behind, and every call enters the same queue.
InTurn == ~orphan /\ OneQueue

Content == [made |-> file.made, edits |-> file.edits]

Logged(c) == \E i \in 1..Len(log) : log[i] = c

\* A call at work has its turn; an edit about to write has read what is there;
\* who has written is in the log.
CallKept(c) ==
    /\ c \in Entered => scope[c] = "direct"
    /\ step[c] \notin {"begin", "ended"} => pc[c] = "running"
    /\ step[c] \in {"open", "fill"} /\ Tool[c] = "edit" => copy[c] = Content
    /\ step[c] = "written" \/ told[c] = "done" => Logged(c)

Kept == Replayed /\ \A c \in ToolCalls : CallKept(c)

WorkInv ==
    /\ WorkTypeOK
    /\ file.was => file.there
    /\ \A c \in ToolCalls : step[c] = "parents" => Tool[c] = "write"
    /\ InTurn => Kept

\* What a step of the tools does to the queue is a step of the queue.
LEMMA ToolStepIsQueueStep ==
  ASSUME ToolsNext
  PROVE  [Next]_vars
<1>1. PICK c \in ToolCalls :
         Queue(c) \/ EnterQueue(c) \/ Work(c) \/ Refused(c) \/ Cancelled(c) \/ Fires(c)
  BY DEF ToolsNext
<1>2. c \in Calls /\ Key(c) \in Scopes
  BY FileToolsAssumption DEF Key
<1>3. CASE Queue(c)
  BY <1>2, <1>3 DEF Queue, Next, Settle
<1>4. CASE EnterQueue(c)
  BY <1>2, <1>4 DEF EnterQueue, Next, Settle
<1>5. CASE Work(c) \/ Refused(c) \/ Cancelled(c) \/ Fires(c)
  <2>1. FnEnds(c) \/ UNCHANGED vars
    BY <1>5 DEF Work, Begin, Access, Read, Parents, Opens, Fills, Written, Refused, Cancelled,
                Fires, Checkpoint, Reports
  <2> QED BY <1>2, <2>1 DEF Next, Settle
<1> QED BY <1>1, <1>3, <1>4, <1>5


\* A call that writes is alone at the file.
LEMMA AloneAtWork ==
  ASSUME IndInv, Kept, NEW c \in ToolCalls, NEW d \in ToolCalls,
         step[c] \notin {"begin", "ended"}, step[d] \notin {"begin", "ended"}
  PROVE  c = d
<1>1. c \in Calls /\ d \in Calls /\ pc[c] = "running" /\ pc[d] = "running"
  BY FileToolsAssumption DEF Kept, CallKept
<1>2. c \in Entered /\ d \in Entered
  BY <1>1 DEF IndInv, StageInv
<1> QED BY <1>1, <1>2, OneRunner DEF Kept, CallKept

\* Only the stage, the scope and the ticket of the call in question change in
\* the queue, and a call that runs is not moved by another.
Others(c) ==
    \A d \in Calls \ {c} : pc'[d] = pc[d] /\ scope'[d] = scope[d] /\ ticket'[d] = ticket[d]

\* A call in the queue moves itself, and the tools stay as they are.
LEMMA QueueMovesOne ==
  ASSUME TypeOK, NEW c \in Calls, Queue(c) \/ EnterQueue(c)
  PROVE  /\ Others(c) /\ pc[c] # "running" /\ UNCHANGED workVars
         /\ pc'[c] # "idle"
         /\ c \in Entered' => scope'[c] = Key(c) \/ (c \in Entered /\ scope'[c] = scope[c])
<1>1. CASE EnterQueue(c)
  <2>1. Enter(c, Key(c)) /\ UNCHANGED workVars
    BY <1>1 DEF EnterQueue
  <2> QED BY <2>1 DEF Enter, Others, TypeOK, Entered
<1>2. CASE Queue(c)
  <2>1. UNCHANGED workVars /\ UNCHANGED <<scope, ticket>>
    BY <1>2 DEF Queue, Call, RegistrationTurn, RegistrationFails, RegistrationCancelled,
                RegistrationSettles, TurnComes, WaitCancelled, DeferredRelease
  <2>2. pc[c] # "running" /\ \E s \in Stages \ {"idle"} : pc' = [pc EXCEPT ![c] = s]
    BY <1>2 DEF Queue, Call, RegistrationTurn, RegistrationFails, RegistrationCancelled,
                RegistrationSettles, TurnComes, WaitCancelled, DeferredRelease, Release, Stages
  <2> QED BY <2>1, <2>2 DEF Others, TypeOK, Entered
<1> QED BY <1>1, <1>2

\* A function goes on or ends: its entry stays as it is.
LEMMA WorkMovesOne ==
  ASSUME TypeOK, NEW c \in Calls, FnEnds(c) \/ UNCHANGED vars
  PROVE  /\ Others(c) /\ scope' = scope /\ ticket' = ticket /\ Entered' = Entered
         /\ \A d \in Calls : pc'[d] = "idle" => pc[d] = "idle"
BY DEF FnEnds, Release, vars, Others, TypeOK, Entered

\* What the tools rely on is not regained once it is lost.
LEMMA InTurnBefore ==
  ASSUME file'.was = file.was, orphan => orphan',
         \A d \in ToolCalls : pc'[d] = "idle" => pc[d] = "idle", InTurn'
  PROVE  InTurn
BY DEF InTurn, OneQueue

\* The calls that have no part in a step.
LEMMA OthersKept ==
  ASSUME NEW c \in ToolCalls, NEW d \in ToolCalls, d # c, Others(c), CallKept(d),
         step'[d] = step[d], copy'[d] = copy[d], told'[d] = told[d],
         Logged(d) => Logged(d)', Content' = Content \/ step[d] \notin {"open", "fill"}
  PROVE  CallKept(d)'
<1>1. d \in Calls \ {c}
  BY FileToolsAssumption
<1>2. /\ pc'[d] = pc[d] /\ scope'[d] = scope[d] /\ ticket'[d] = ticket[d]
  BY <1>1 DEF Others
<1>3. d \in Entered' <=> d \in Entered
  BY <1>1, <1>2 DEF Entered
<1> QED BY <1>2, <1>3 DEF CallKept

\* A step in the queue.
LEMMA QueueKept ==
  ASSUME TypeOK, WorkInv, NEW c \in ToolCalls, Queue(c) \/ EnterQueue(c)
  PROVE  WorkInv'
<1>1. /\ c \in Calls /\ Others(c) /\ pc[c] # "running" /\ UNCHANGED workVars /\ pc'[c] # "idle"
      /\ c \in Entered' => scope'[c] = Key(c) \/ (c \in Entered /\ scope'[c] = scope[c])
  BY FileToolsAssumption, QueueMovesOne
<1>2. UNCHANGED <<step, signal, file, copy, told, log, orphan>>
  BY <1>1 DEF workVars
<1>3. /\ WorkTypeOK' /\ (file.was => file.there)'
      /\ \A d \in ToolCalls : step'[d] = "parents" => Tool[d] = "write"
  BY <1>2 DEF WorkInv, WorkTypeOK
<1>4. ASSUME InTurn' PROVE Kept'
  <2>1. \A d \in ToolCalls : pc'[d] = "idle" => pc[d] = "idle"
    BY <1>1, FileToolsAssumption DEF Others
  <2>2. Kept
    BY <1>2, <1>4, <2>1, InTurnBefore DEF WorkInv
  <2>3. CallKept(c)'
    <3>1. Key(c) = "direct"
      BY <1>1, <1>2, <1>4 DEF Key, InTurn, OneQueue, WorkInv
    <3>2. CallKept(c)
      BY <2>2 DEF Kept
    <3>3. c \in Entered' => scope'[c] = "direct"
      BY <1>1, <3>1, <3>2 DEF CallKept
    <3>4. step[c] \in {"begin", "ended"}
      BY <1>1, <3>2 DEF CallKept
    <3> QED BY <1>2, <3>2, <3>3, <3>4 DEF CallKept, Logged, Content
  <2>4. ASSUME NEW d \in ToolCalls, d # c PROVE CallKept(d)'
    BY <1>1, <1>2, <2>2, <2>4, OthersKept DEF Kept, Logged, Content
  <2>5. Replayed'
    BY <1>2, <2>2 DEF Kept, Replayed
  <2> QED BY <2>3, <2>4, <2>5 DEF Kept
<1> QED BY <1>3, <1>4 DEF WorkInv

\* How a call goes on without touching the file: to a further checkpoint, with
\* the file read before it may write, or to the end of its function.
GoesOn(c) ==
    /\ UNCHANGED <<file, log, vars, told>>
    /\ \E n \in {"access", "read", "parents", "open"} :
          /\ At(c, n)
          /\ n = "parents" => Tool[c] = "write"
          /\ n = "open" /\ Tool[c] = "edit" => copy'[c] = Content

Finishes(c) ==
    /\ UNCHANGED <<file, log>> /\ FnEnds(c) /\ At(c, "ended")
    /\ \E what \in {"done", "failed", "aborted", "cancelled"} :
          Tells(c, what) /\ (what = "done" => step[c] = "written")

Quiet(c) ==
    /\ pc[c] = "running" /\ UNCHANGED <<signal, orphan>>
    /\ \E r \in [made : ToolCalls \cup {Original}, edits : SUBSET ToolCalls] :
          copy' = [copy EXCEPT ![c] = r]
    /\ GoesOn(c) \/ Finishes(c)

\* Such a step keeps the invariant.
LEMMA QuietKept ==
  ASSUME TypeOK, WorkInv, NEW c \in ToolCalls, Quiet(c)
  PROVE  WorkInv'
<1>1. /\ c \in Calls /\ pc[c] = "running" /\ UNCHANGED <<signal, orphan, file, log>>
  BY FileToolsAssumption DEF Quiet, GoesOn, Finishes
<1>2. FnEnds(c) \/ UNCHANGED vars
  BY DEF Quiet, GoesOn, Finishes
<1>3. /\ Others(c) /\ scope' = scope /\ ticket' = ticket /\ Entered' = Entered
      /\ \A d \in Calls : pc'[d] = "idle" => pc[d] = "idle"
  BY <1>1, <1>2, WorkMovesOne
<1>4. PICK n \in Steps : step' = [step EXCEPT ![c] = n]
  BY DEF Quiet, GoesOn, Finishes, At, Steps
<1>5. PICK r \in [made : ToolCalls \cup {Original}, edits : SUBSET ToolCalls] :
        copy' = [copy EXCEPT ![c] = r]
  BY DEF Quiet
<1>6. told' = told \/ \E what \in {"done", "failed", "aborted", "cancelled"} :
        told' = [told EXCEPT ![c] = what]
  BY DEF Quiet, GoesOn, Finishes, Tells
<1>7. WorkTypeOK' /\ (file.was => file.there)'
  BY <1>1, <1>4, <1>5, <1>6 DEF WorkInv, WorkTypeOK
<1>8. \A d \in ToolCalls : step'[d] = "parents" => Tool[d] = "write"
  BY DEF WorkInv, WorkTypeOK, Quiet, GoesOn, Finishes, At
<1>9. ASSUME InTurn' PROVE Kept'
  <2>1. \A d \in ToolCalls : pc'[d] = "idle" => pc[d] = "idle"
    BY <1>3, FileToolsAssumption
  <2>2. Kept /\ CallKept(c) /\ WorkTypeOK
    BY <1>1, <1>9, <2>1, InTurnBefore DEF WorkInv, Kept
  <2>3. CallKept(c)'
    <3>1. c \in Entered' => scope'[c] = "direct"
      BY <1>3, <2>2 DEF CallKept
    <3>2. Content' = Content /\ (Logged(c)' <=> Logged(c))
      BY <1>1 DEF Content, Logged
    <3>3. CASE GoesOn(c)
      <4>1. PICK m \in {"access", "read", "parents", "open"} :
              step' = [step EXCEPT ![c] = m] /\ (m = "open" /\ Tool[c] = "edit" => copy'[c] = Content)
        BY <3>3 DEF GoesOn, At
      <4>2. step'[c] = m
        BY <2>2, <4>1 DEF WorkTypeOK
      <4>3. pc'[c] = "running" /\ told' = told
        BY <1>1, <3>3 DEF GoesOn, vars
      <4> QED BY <2>2, <3>1, <3>2, <4>1, <4>2, <4>3 DEF CallKept
    <3>4. CASE Finishes(c)
      <4>1. step'[c] = "ended"
        BY <2>2, <3>4 DEF Finishes, At, WorkTypeOK
      <4>2. told'[c] = "done" => Logged(c)
        BY <2>2, <3>4 DEF Finishes, Tells, WorkTypeOK, CallKept
      <4> QED BY <3>1, <3>2, <4>1, <4>2 DEF CallKept
    <3> QED BY <3>3, <3>4 DEF Quiet
  <2>4. ASSUME NEW d \in ToolCalls, d # c PROVE CallKept(d)'
    <3>1. step'[d] = step[d] /\ copy'[d] = copy[d] /\ told'[d] = told[d]
      BY <1>4, <1>5, <1>6, <2>2, <2>4 DEF WorkTypeOK
    <3> QED BY <1>1, <1>3, <2>2, <2>4, <3>1, OthersKept DEF Kept, Logged, Content
  <2>5. Replayed'
    BY <1>1, <2>2 DEF Kept, Replayed
  <2> QED BY <2>3, <2>4, <2>5 DEF Kept
<1> QED BY <1>7, <1>8, <1>9 DEF WorkInv

\* The checkpoints, reports and reads are such steps.
LEMMA QuietSteps ==
  ASSUME WorkInv, NEW c \in ToolCalls,
         \/ Begin(c) \/ Access(c) \/ Read(c) \/ Parents(c) \/ Refused(c) \/ Written(c)
         \/ Cancelled(c) /\ step[c] \notin {"open", "fill"}
  PROVE  Quiet(c)
<1>1. /\ copy = [copy EXCEPT ![c] = copy[c]]
      /\ copy[c] \in [made : ToolCalls \cup {Original}, edits : SUBSET ToolCalls]
      /\ WorkTypeOK
  BY DEF WorkInv, WorkTypeOK
<1>2. \A n \in {"access", "read", "parents", "open"} :
        Checkpoint(c, n) /\ UNCHANGED <<file, log>>
        /\ (n = "open" /\ Tool[c] = "edit" => copy'[c] = Content)
        /\ (n = "parents" => Tool[c] = "write")
          => GoesOn(c) \/ Finishes(c)
  BY DEF Checkpoint, Reports, GoesOn, Finishes
<1>3. \A what \in {"failed", "aborted", "cancelled"} :
        Reports(c, what) /\ UNCHANGED <<file, log>> => Finishes(c)
  BY DEF Reports, Finishes
<1>4. CASE Begin(c)
  <2>1. GoesOn(c) \/ Finishes(c)
    BY <1>2, <1>4, FileToolsAssumption DEF Begin
  <2> QED BY <1>1, <1>4, <2>1 DEF Begin, Working, Quiet
<1>5. CASE Access(c)
  <2>1. GoesOn(c) \/ Finishes(c)
    BY <1>2, <1>3, <1>5 DEF Access
  <2> QED BY <1>1, <1>5, <2>1 DEF Access, Working, Quiet
<1>6. CASE Read(c)
  <2>1. copy' = [copy EXCEPT ![c] = Content] /\ copy'[c] = Content
        /\ Content \in [made : ToolCalls \cup {Original}, edits : SUBSET ToolCalls]
    BY <1>1, <1>6 DEF Read, Content, WorkTypeOK
  <2>2. GoesOn(c) \/ Finishes(c)
    BY <1>2, <1>3, <1>6, <2>1 DEF Read
  <2> QED BY <1>6, <2>1, <2>2 DEF Read, Working, Quiet
<1>7. CASE Parents(c)
  <2>1. Tool[c] # "edit"
    BY <1>7 DEF Parents, Working, WorkInv
  <2>2. GoesOn(c) \/ Finishes(c)
    BY <1>2, <1>3, <1>7, <2>1 DEF Parents
  <2> QED BY <1>1, <1>7, <2>2 DEF Parents, Working, Quiet
<1>8. CASE Refused(c)
  <2>1. Finishes(c)
    BY <1>3, <1>8 DEF Refused
  <2> QED BY <1>1, <1>8, <2>1 DEF Refused, Working, Quiet
<1>9. CASE Written(c)
  <2>1. Finishes(c)
    BY <1>9 DEF Written, Working, Reports, Finishes
  <2> QED BY <1>1, <1>9, <2>1 DEF Written, Working, Quiet
<1>10. CASE Cancelled(c) /\ step[c] \notin {"open", "fill"}
  BY <1>1, <1>10 DEF Cancelled, Finishes, Quiet
<1> QED BY <1>4, <1>5, <1>6, <1>7, <1>8, <1>9, <1>10

\* Work that no longer counts: the task is gone and its write goes on.
LEMMA OrphanKept ==
  ASSUME WorkInv, NEW c \in ToolCalls, Cancelled(c), step[c] \in {"open", "fill"}
  PROVE  WorkInv'
<1>1. orphan' = TRUE /\ UNCHANGED <<step, signal, file, copy, log>>
      /\ told' = [told EXCEPT ![c] = "cancelled"]
  BY DEF Cancelled, Tells
<1>2. WorkTypeOK' /\ (file.was => file.there)'
      /\ \A d \in ToolCalls : step'[d] = "parents" => Tool[d] = "write"
  BY <1>1 DEF WorkInv, WorkTypeOK
<1>3. ~InTurn'
  BY <1>1 DEF InTurn
<1> QED BY <1>2, <1>3 DEF WorkInv

\* The signal alone.
LEMMA FiresKept ==
  ASSUME WorkInv, NEW c \in ToolCalls, Fires(c)
  PROVE  WorkInv'
<1>1. UNCHANGED <<vars, step, file, copy, told, log, orphan>> /\ signal' = signal \cup {c}
  BY DEF Fires
<1>2. UNCHANGED <<pc, scope, ticket>>
  BY <1>1 DEF vars
<1>3. WorkTypeOK' /\ (InTurn' <=> InTurn) /\ (Replayed' <=> Replayed)
  BY <1>1, <1>2 DEF WorkInv, WorkTypeOK, InTurn, OneQueue, Replayed
<1>4. \A d \in ToolCalls : CallKept(d)' <=> CallKept(d)
  BY <1>1, <1>2, FileToolsAssumption DEF CallKept, Entered, Logged, Content
<1> QED BY <1>1, <1>3, <1>4 DEF WorkInv, Kept

\* The file is opened and cut: its content is still accounted for.
LEMMA OpensKept ==
  ASSUME WorkInv, NEW c \in ToolCalls, Opens(c)
  PROVE  WorkInv'
<1>1. /\ UNCHANGED <<vars, signal, copy, told, log, orphan>> /\ step[c] = "open"
      /\ step' = [step EXCEPT ![c] = "fill"]
      /\ file' = [file EXCEPT !.there = TRUE, !.cut = TRUE]
  BY DEF Opens, At
<1>2. UNCHANGED <<pc, scope, ticket>>
  BY <1>1 DEF vars
<1>3. /\ WorkTypeOK /\ Content' = Content /\ file'.was = file.was /\ file'.there
      /\ file'.made = file.made /\ file'.edits = file.edits
      /\ file' \in [made : ToolCalls \cup {Original}, edits : SUBSET ToolCalls,
                    there : BOOLEAN, was : BOOLEAN, cut : BOOLEAN]
  BY <1>1 DEF WorkInv, WorkTypeOK, Content
<1>4. /\ WorkTypeOK' /\ (InTurn' => InTurn) /\ (Replayed => Replayed')
      /\ \A d \in ToolCalls : step'[d] = "parents" => Tool[d] = "write"
  <2>1. WorkTypeOK'
    BY <1>1, <1>3 DEF WorkTypeOK, Steps
  <2>2. InTurn' => InTurn
    BY <1>1, <1>2, <1>3 DEF InTurn, OneQueue
  <2>3. Replayed => Replayed'
    BY <1>1, <1>3 DEF Replayed
  <2>4. \A d \in ToolCalls : step'[d] = "parents" => Tool[d] = "write"
    BY <1>1, <1>3 DEF WorkInv, WorkTypeOK
  <2> QED BY <2>1, <2>2, <2>3, <2>4
<1>5. ASSUME NEW d \in ToolCalls, CallKept(d), CallKept(c) PROVE CallKept(d)'
  <2>1. step'[d] = IF d = c THEN "fill" ELSE step[d]
    BY <1>1, <1>3 DEF WorkTypeOK
  <2>2. d \in Entered' <=> d \in Entered
    BY <1>2 DEF Entered
  <2> QED BY <1>1, <1>2, <1>3, <1>5, <2>1, <2>2 DEF CallKept, Logged
<1> QED BY <1>3, <1>4, <1>5 DEF WorkInv, Kept

\* One write more: an edit is added to what its call has read, a write begins
\* the content anew.
LEMMA ReplayedOnce ==
  ASSUME WorkTypeOK, Replayed, NEW c \in ToolCalls, log' = Append(log, c),
         \/ /\ Tool[c] = "edit"
            /\ file'.made = file.made /\ file'.edits = file.edits \cup {c}
         \/ Tool[c] = "write" /\ file'.made = c /\ file'.edits = {}
  PROVE  Replayed'
<1>1. log \in Seq(ToolCalls) /\ Len(log) \in Nat
  BY DEF WorkTypeOK
<1>2. PICK n \in Nat : n = Len(log) + 1
  BY <1>1
<1>3. /\ Len(log') = n /\ log'[n] = c
      /\ \A i \in 1..Len(log) : log'[i] = log[i]
  BY <1>1, <1>2
<1>4. CASE Tool[c] = "edit" /\ file'.made = file.made /\ file'.edits = file.edits \cup {c}
  <2>1. PICK w \in 0..Len(log) :
          /\ w > 0 => Tool[log[w]] = "write"
          /\ file.made = IF w = 0 THEN Original ELSE log[w]
          /\ \A i \in (w + 1)..Len(log) : Tool[log[i]] = "edit"
          /\ file.edits = {log[i] : i \in (w + 1)..Len(log)}
    BY DEF Replayed
  <2>2. /\ w \in 0..n /\ (w > 0 => log'[w] = log[w])
        /\ (w + 1)..n = ((w + 1)..Len(log)) \cup {n}
        /\ \A i \in (w + 1)..Len(log) : log'[i] = log[i]
    BY <1>1, <1>2, <1>3
  <2>3. {log'[i] : i \in (w + 1)..n} = {log[i] : i \in (w + 1)..Len(log)} \cup {c}
    BY <1>3, <2>2
  <2>4. \A i \in (w + 1)..n : Tool[log'[i]] = "edit"
    BY <1>3, <1>4, <2>1, <2>2
  <2> QED BY <1>3, <1>4, <2>1, <2>2, <2>3, <2>4 DEF Replayed
<1>5. CASE Tool[c] = "write" /\ file'.made = c /\ file'.edits = {}
  <2>1. n \in 0..n /\ n # 0 /\ (n + 1)..n = {}
    BY <1>1, <1>2
  <2> QED BY <1>3, <1>5, <2>1 DEF Replayed
<1> QED BY <1>4, <1>5

\* The file is filled with what the call computed.
LEMMA FillsKept ==
  ASSUME IndInv, WorkInv, NEW c \in ToolCalls, Fills(c)
  PROVE  WorkInv'
<1>1. /\ UNCHANGED <<vars, signal, copy, told, orphan>> /\ step[c] = "fill"
      /\ file' = IF Tool[c] = "edit"
                 THEN [file EXCEPT !.made = copy[c].made, !.edits = copy[c].edits \cup {c}, !.cut = FALSE]
                 ELSE [file EXCEPT !.made = c, !.edits = {}, !.cut = FALSE]
      /\ log' = Append(log, c)
      /\ step' = [step EXCEPT ![c] = IF pc[c] = "running" THEN "written" ELSE "ended"]
  BY DEF Fills, At
<1>2. UNCHANGED <<pc, scope, ticket>>
  BY <1>1 DEF vars
<1>3. /\ WorkTypeOK /\ log \in Seq(ToolCalls) /\ Len(log) \in Nat
      /\ file \in [made : ToolCalls \cup {Original}, edits : SUBSET ToolCalls,
                   there : BOOLEAN, was : BOOLEAN, cut : BOOLEAN]
      /\ copy[c] \in [made : ToolCalls \cup {Original}, edits : SUBSET ToolCalls]
  BY DEF WorkInv, WorkTypeOK
<1>4. /\ file'.was = file.was /\ file'.there = file.there
      /\ Tool[c] = "edit" => file'.made = copy[c].made /\ file'.edits = copy[c].edits \cup {c}
      /\ Tool[c] # "edit" => file'.made = c /\ file'.edits = {}
      /\ file' \in [made : ToolCalls \cup {Original}, edits : SUBSET ToolCalls,
                    there : BOOLEAN, was : BOOLEAN, cut : BOOLEAN]
  BY <1>1, <1>3
<1>5. /\ WorkTypeOK' /\ (file.was => file.there)'
      /\ \A d \in ToolCalls : step'[d] = "parents" => Tool[d] = "write"
  <2>1. log' \in Seq(ToolCalls)
    BY <1>1, <1>3
  <2> QED BY <1>1, <1>3, <1>4, <2>1 DEF WorkInv, WorkTypeOK, Steps
<1>6. ASSUME InTurn' PROVE Kept'
  <2>1. InTurn /\ Kept /\ CallKept(c)
    BY <1>1, <1>2, <1>4, <1>6 DEF InTurn, OneQueue, WorkInv, Kept
  <2>2. Replayed'
    <3>1. CASE Tool[c] = "edit"
      <4>1. copy[c].made = file.made /\ copy[c].edits = file.edits
        BY <1>1, <2>1, <3>1 DEF CallKept, Content
      <4> QED BY <1>1, <1>3, <1>4, <2>1, <3>1, <4>1, ReplayedOnce DEF Kept
    <3>2. CASE Tool[c] = "write"
      BY <1>1, <1>3, <1>4, <2>1, <3>2, ReplayedOnce DEF Kept
    <3> QED BY <3>1, <3>2, FileToolsAssumption
  <2>3. \A d \in ToolCalls : Logged(d) \/ d = c => Logged(d)'
    <3>1. PICK n \in Nat : n = Len(log) + 1
      BY <1>3
    <3>2. /\ Len(log') = n /\ log'[n] = c
          /\ \A i \in 1..Len(log) : log'[i] = log[i] /\ i \in 1..n
      BY <1>1, <1>3, <3>1
    <3>3. n \in 1..n
      BY <1>3, <3>1
    <3> QED BY <3>2, <3>3 DEF Logged
  <2>4. CallKept(c)'
    <3>1. pc[c] = "running" /\ step'[c] = "written" /\ (c \in Entered' <=> c \in Entered)
      BY <1>1, <1>2, <1>3, <2>1 DEF CallKept, WorkTypeOK, Entered
    <3> QED BY <1>2, <2>1, <2>3, <3>1 DEF CallKept
  <2>5. ASSUME NEW d \in ToolCalls, d # c PROVE CallKept(d)'
    <3>1. step[d] \notin {"open", "fill"}
      BY <1>1, <2>1, <2>5, AloneAtWork
    <3>2. step'[d] = step[d] /\ copy'[d] = copy[d] /\ told'[d] = told[d]
      BY <1>1, <1>3, <2>5 DEF WorkTypeOK
    <3>3. Others(c)
      BY <1>2 DEF Others
    <3> QED BY <2>1, <2>3, <2>5, <3>1, <3>2, <3>3, OthersKept DEF Kept
  <2> QED BY <2>2, <2>4, <2>5 DEF Kept
<1> QED BY <1>5, <1>6 DEF WorkInv

\* What the tools rely on holds in every state, with the queue between them.
LEMMA WorkInvariance == ToolsSpec => Spec /\ []IndInv /\ []WorkInv
<1>1. Init /\ WorkInit => WorkInv
  <2> SUFFICES ASSUME Init, WorkInit PROVE WorkInv
    OBVIOUS
  <2>1. WorkTypeOK
    <3>1. PICK there \in BOOLEAN : file = Fresh(there)
      BY DEF WorkInit
    <3>2. file \in [made : ToolCalls \cup {Original}, edits : SUBSET ToolCalls,
                   there : BOOLEAN, was : BOOLEAN, cut : BOOLEAN]
      BY <3>1 DEF Fresh
    <3>3. NoCopy \in [made : ToolCalls \cup {Original}, edits : SUBSET ToolCalls]
      BY DEF NoCopy
    <3>4. log \in Seq(ToolCalls)
      BY DEF WorkInit
    <3> QED BY <3>2, <3>3, <3>4 DEF WorkInit, WorkTypeOK, Steps
  <2>2. Replayed
    <3>1. log = <<>> /\ Len(log) = 0 /\ file.made = Original /\ file.edits = {}
      BY DEF WorkInit, Fresh
    <3> QED BY <3>1 DEF Replayed
  <2>3. \A c \in ToolCalls : CallKept(c)
    BY FileToolsAssumption DEF Init, WorkInit, CallKept, Entered
  <2>4. (file.was => file.there) /\ \A c \in ToolCalls : step[c] # "parents"
    BY DEF WorkInit, Fresh
  <2> QED BY <2>1, <2>2, <2>3, <2>4 DEF WorkInv, Kept
<1>2. [ToolsNext]_<<vars, workVars>> => [Next]_vars
  <2>1. ASSUME ToolsNext PROVE [Next]_vars
    BY <2>1, ToolStepIsQueueStep
  <2> QED BY <2>1
<1>3. IndInv /\ WorkInv /\ [ToolsNext]_<<vars, workVars>> => WorkInv'
  <2> SUFFICES ASSUME IndInv, WorkInv, [ToolsNext]_<<vars, workVars>> PROVE WorkInv'
    OBVIOUS
  <2>1. TypeOK
    BY DEF IndInv
  <2>2. CASE UNCHANGED <<vars, workVars>>
    <3>1. UNCHANGED <<pc, scope, ticket, step, signal, file, copy, told, log, orphan>>
      BY <2>2 DEF vars, workVars
    <3>2. \A c \in ToolCalls : CallKept(c)' <=> CallKept(c)
      BY <3>1 DEF CallKept, Entered, Logged, Content
    <3> QED BY <3>1, <3>2 DEF WorkInv, WorkTypeOK, InTurn, OneQueue, Kept, Replayed
  <2>3. ASSUME NEW c \in ToolCalls,
               Queue(c) \/ EnterQueue(c) \/ Work(c) \/ Refused(c) \/ Cancelled(c) \/ Fires(c)
        PROVE  WorkInv'
    <3>1. CASE Queue(c) \/ EnterQueue(c)
      BY <2>1, <3>1, QueueKept
    <3>2. CASE Opens(c) \/ Fills(c) \/ Fires(c)
      BY <3>2, OpensKept, FillsKept, FiresKept
    <3>3. CASE Begin(c) \/ Access(c) \/ Read(c) \/ Parents(c) \/ Refused(c) \/ Written(c)
      BY <2>1, <3>3, QuietSteps, QuietKept
    <3>4. CASE Cancelled(c)
      BY <2>1, <3>4, QuietSteps, QuietKept, OrphanKept
    <3> QED BY <2>3, <3>1, <3>2, <3>3, <3>4 DEF Work
  <2> QED BY <2>2, <2>3 DEF ToolsNext
<1> QED BY <1>1, <1>2, <1>3, IndInvInductive, PTL DEF ToolsSpec, Spec

\* The tools use the queue as it asks to be used: whatever edits and writes do,
\* their calls are a behaviour of with_mutation_queue(), so all that is proved
\* of the queue holds with the tools at work.
THEOREM ToolsUseQueue == ToolsSpec => Spec
BY WorkInvariance, PTL

\* No edit is lost and no success is made up, for any number of edits and writes
\* of one file, aborts, failures and cancellations: what edit.py and write.py
\* leave in the file is the writes one after the other, and who reports success
\* is among them, unless a cancelled write goes on in its thread or the path is
\* spelled in a way that leads to another queue.
THEOREM EditsAreKept == ToolsSpec => []EditsKept
<1>1. WorkInv => EditsKept
  <2> SUFFICES ASSUME WorkInv PROVE EditsKept
    OBVIOUS
  <2>1. DOMAIN log = 1..Len(log)
    BY DEF WorkInv, WorkTypeOK
  <2> QED BY <2>1 DEF WorkInv, Kept, CallKept, Logged, InTurn, EditsKept
<1> QED BY <1>1, WorkInvariance, PTL

=============================================================================
