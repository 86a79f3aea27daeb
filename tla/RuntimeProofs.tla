---------------------------- MODULE RuntimeProofs ----------------------------
(***************************************************************************)
(* That effects are undone, by fibers and by scopes, and that what was      *)
(* disposed stays so: the lemmas of LifetimeProofs, for the two fibers and  *)
(* the three trees of scopes of MCRuntime.                                  *)
(***************************************************************************)
EXTENDS MCRuntime, TLAPS

-----------------------------------------------------------------------------
(* The three trees of scopes. *)

DeepTree == INSTANCE LifetimeProofs WITH
    fiberLists <- lists, fiberHeld <- held, lists <- scopeLists, held <- scopeHeld, Keys <- DOMAIN Chain, Parent <- Chain, NoKey <- "none",
    Tasks <- {t1}, Nobody <- None, MaxScopes <- 4, MaxEffects <- 3,
    Raising <- FALSE, NestedMints <- TRUE

WideTree == INSTANCE LifetimeProofs WITH
    fiberLists <- lists, fiberHeld <- held, lists <- scopeLists, held <- scopeHeld, Keys <- DOMAIN Fork, Parent <- Fork, NoKey <- "none",
    Tasks <- Both, Nobody <- None, MaxScopes <- 4, MaxEffects <- 2,
    Raising <- FALSE, NestedMints <- TRUE

TornTree == INSTANCE LifetimeProofs WITH
    fiberLists <- lists, fiberHeld <- held, lists <- scopeLists, held <- scopeHeld, Keys <- DOMAIN Fork, Parent <- Fork, NoKey <- "none",
    Tasks <- Both, Nobody <- None, MaxScopes <- 3, MaxEffects <- 2,
    Raising <- TRUE, NestedMints <- FALSE

\* The chain of three keys is a forest, with the ancestors it should have.
LEMMA DeepForest == DeepTree!Forest
<1> DEFINE w == [k \in DOMAIN Chain |-> CASE k = "top" -> {} [] k = "mid" -> {"top"} [] OTHER -> {"top", "mid"}]
           F(a) == [k \in DOMAIN Chain |-> IF Chain[k] = "none" THEN {} ELSE {Chain[k]} \cup a[Chain[k]]]
<1>1. /\ DOMAIN Chain = {"top", "mid", "low"} /\ Chain["top"] = "none" /\ Chain["mid"] = "top" /\ Chain["low"] = "mid"
  BY DEF Chain
<1>2. w = F(w)
  BY <1>1
<1>3. DeepTree!Ancestors = CHOOSE a : a = F(a)
  BY DEF DeepTree!Ancestors
<1>4. DeepTree!Ancestors = F(DeepTree!Ancestors)
  BY <1>2, <1>3, ZenonT(30)
<1>5. /\ DeepTree!Ancestors["top"] = {} /\ DeepTree!Ancestors["mid"] = {"top"}
      /\ DeepTree!Ancestors["low"] = {"top", "mid"}
  BY <1>1, <1>4
<1>6. Chain \in [DOMAIN Chain -> DOMAIN Chain \cup {"none"}] /\ "none" \notin DOMAIN Chain
  BY <1>1 DEF Chain
<1>7. ASSUME NEW U \in SUBSET (DOMAIN Chain), NEW k \in DOMAIN Chain,
             \A a \in U \cup {k} : Chain[a] # "none" => Chain[a] \in U
      PROVE  DeepTree!Ancestors[k] \subseteq U
  BY <1>1, <1>5, <1>7
<1>8. \A k \in DOMAIN Chain :
         /\ DeepTree!Ancestors[k] \subseteq DOMAIN Chain /\ k \notin DeepTree!Ancestors[k]
         /\ Chain[k] # "none" =>
               Chain[k] \in DeepTree!Ancestors[k] /\ DeepTree!Ancestors[Chain[k]] \subseteq DeepTree!Ancestors[k]
         /\ \A a \in DeepTree!Ancestors[k] : Chain[a] # "none" => Chain[a] \in DeepTree!Ancestors[k]
  BY <1>1, <1>5
<1> QED BY <1>6, <1>7, <1>8 DEF DeepTree!Forest

\* So is the fork.
LEMMA WideForest == WideTree!Forest
<1> DEFINE w == [k \in DOMAIN Fork |-> IF k = "top" THEN {} ELSE {"top"}]
           F(a) == [k \in DOMAIN Fork |-> IF Fork[k] = "none" THEN {} ELSE {Fork[k]} \cup a[Fork[k]]]
<1>1. /\ DOMAIN Fork = {"top", "left", "right"} /\ Fork["top"] = "none" /\ Fork["left"] = "top" /\ Fork["right"] = "top"
  BY DEF Fork
<1>2. w = F(w)
  BY <1>1
<1>3. WideTree!Ancestors = CHOOSE a : a = F(a)
  BY DEF WideTree!Ancestors
<1>4. WideTree!Ancestors = F(WideTree!Ancestors)
  BY <1>2, <1>3, ZenonT(30)
<1>5. WideTree!Ancestors["top"] = {} /\ WideTree!Ancestors["left"] = {"top"} /\ WideTree!Ancestors["right"] = {"top"}
  BY <1>1, <1>4
<1>6. Fork \in [DOMAIN Fork -> DOMAIN Fork \cup {"none"}] /\ "none" \notin DOMAIN Fork
  BY <1>1 DEF Fork
<1>7. ASSUME NEW U \in SUBSET (DOMAIN Fork), NEW k \in DOMAIN Fork,
             \A a \in U \cup {k} : Fork[a] # "none" => Fork[a] \in U
      PROVE  WideTree!Ancestors[k] \subseteq U
  BY <1>1, <1>5, <1>7
<1>8. \A k \in DOMAIN Fork :
         /\ WideTree!Ancestors[k] \subseteq DOMAIN Fork /\ k \notin WideTree!Ancestors[k]
         /\ Fork[k] # "none" =>
               Fork[k] \in WideTree!Ancestors[k] /\ WideTree!Ancestors[Fork[k]] \subseteq WideTree!Ancestors[k]
         /\ \A a \in WideTree!Ancestors[k] : Fork[a] # "none" => Fork[a] \in WideTree!Ancestors[k]
  BY <1>1, <1>5
<1> QED BY <1>6, <1>7, <1>8 DEF WideTree!Forest

\* The trees of the run are the ones the lemmas are about.
LEMMA DeepSame == (Deep!Init <=> DeepTree!Init) /\ (Deep!Next <=> DeepTree!Next)
BY DEF Deep!Init, DeepTree!Init, Deep!Next, DeepTree!Next, Deep!Scopes, DeepTree!Scopes, Deep!Effects,
       DeepTree!Effects, Deep!Mint, DeepTree!Mint, Deep!Register, DeepTree!Register, Deep!Handle,
       DeepTree!Handle, Deep!Dispose, DeepTree!Dispose, Deep!NextChild, DeepTree!NextChild, Deep!Close,
       DeepTree!Close, Deep!RunDisposer, DeepTree!RunDisposer, Deep!Finish, DeepTree!Finish, Deep!Live,
       DeepTree!Live, Deep!Closed, DeepTree!Closed, Deep!Continue, DeepTree!Continue, Deep!Turn,
       DeepTree!Turn, Deep!Top, DeepTree!Top, Deep!Frame, DeepTree!Frame, Deep!ChildrenOf,
       DeepTree!ChildrenOf, Deep!IsNext, DeepTree!IsNext, Deep!Place, DeepTree!Place, Deep!treeVars,
       DeepTree!treeVars, Deep!listVars, DeepTree!listVars, Deep!callVars, DeepTree!callVars, Deep!ToSet,
       DeepTree!ToSet, Deep!Front, DeepTree!Front, Deep!Last, DeepTree!Last

LEMMA WideSame == (Wide!Init <=> WideTree!Init) /\ (Wide!Next <=> WideTree!Next)
BY DEF Wide!Init, WideTree!Init, Wide!Next, WideTree!Next, Wide!Scopes, WideTree!Scopes, Wide!Effects,
       WideTree!Effects, Wide!Mint, WideTree!Mint, Wide!Register, WideTree!Register, Wide!Handle,
       WideTree!Handle, Wide!Dispose, WideTree!Dispose, Wide!NextChild, WideTree!NextChild, Wide!Close,
       WideTree!Close, Wide!RunDisposer, WideTree!RunDisposer, Wide!Finish, WideTree!Finish, Wide!Live,
       WideTree!Live, Wide!Closed, WideTree!Closed, Wide!Continue, WideTree!Continue, Wide!Turn,
       WideTree!Turn, Wide!Top, WideTree!Top, Wide!Frame, WideTree!Frame, Wide!ChildrenOf,
       WideTree!ChildrenOf, Wide!IsNext, WideTree!IsNext, Wide!Place, WideTree!Place, Wide!treeVars,
       WideTree!treeVars, Wide!listVars, WideTree!listVars, Wide!callVars, WideTree!callVars, Wide!ToSet,
       WideTree!ToSet, Wide!Front, WideTree!Front, Wide!Last, WideTree!Last

LEMMA TornSame == (Torn!Init <=> TornTree!Init) /\ (Torn!Next <=> TornTree!Next)
BY DEF Torn!Init, TornTree!Init, Torn!Next, TornTree!Next, Torn!Scopes, TornTree!Scopes, Torn!Effects,
       TornTree!Effects, Torn!Mint, TornTree!Mint, Torn!Register, TornTree!Register, Torn!Handle,
       TornTree!Handle, Torn!Dispose, TornTree!Dispose, Torn!NextChild, TornTree!NextChild, Torn!Close,
       TornTree!Close, Torn!RunDisposer, TornTree!RunDisposer, Torn!Finish, TornTree!Finish, Torn!Live,
       TornTree!Live, Torn!Closed, TornTree!Closed, Torn!Continue, TornTree!Continue, Torn!Turn,
       TornTree!Turn, Torn!Top, TornTree!Top, Torn!Frame, TornTree!Frame, Torn!ChildrenOf,
       TornTree!ChildrenOf, Torn!IsNext, TornTree!IsNext, Torn!Place, TornTree!Place, Torn!treeVars,
       TornTree!treeVars, Torn!listVars, TornTree!listVars, Torn!callVars, TornTree!callVars, Torn!ToSet,
       TornTree!ToSet, Torn!Front, TornTree!Front, Torn!Last, TornTree!Last

\* The fibers too.
LEMMA OwnedSame == (Owned!Init <=> DeepTree!Fib({t1}, 4, 4, FALSE, FALSE)!Init) /\ (Owned!Next <=> DeepTree!Fib({t1}, 4, 4, FALSE, FALSE)!Next)
BY DEF Owned!Init, DeepTree!Fib!Init, Owned!Next, DeepTree!Fib!Next, Owned!Load, DeepTree!Fib!Load, Owned!LoadFails, DeepTree!Fib!LoadFails,
       Owned!StartUnwind, DeepTree!Fib!StartUnwind, Owned!LoadCommits, DeepTree!Fib!LoadCommits, Owned!LoadCancelled,
       DeepTree!Fib!LoadCancelled, Owned!Unload, DeepTree!Fib!Unload, Owned!Dispose, DeepTree!Fib!Dispose, Owned!UnwindStep,
       DeepTree!Fib!UnwindStep, Owned!UnwindEnds, DeepTree!Fib!UnwindEnds, Owned!UnwindCancelled, DeepTree!Fib!UnwindCancelled,
       Owned!Effect, DeepTree!Fib!Effect, Owned!CallHandle, DeepTree!Fib!CallHandle, Owned!Idle, DeepTree!Fib!Idle, Owned!Unwinding,
       DeepTree!Fib!Unwinding, Owned!Final, DeepTree!Fib!Final, Owned!LiveStates, DeepTree!Fib!LiveStates, Owned!listVars,
       DeepTree!Fib!listVars, Owned!effectVars, DeepTree!Fib!effectVars

\* The fiber of two tasks.
LEMMA ContendedSame ==
  /\ Contended!Init <=> DeepTree!Fib(Both, 2, 3, TRUE, TRUE)!Init
  /\ Contended!Next <=> DeepTree!Fib(Both, 2, 3, TRUE, TRUE)!Next
BY DEF Contended!Init, DeepTree!Fib!Init, Contended!Next, DeepTree!Fib!Next, Contended!Load, DeepTree!Fib!Load, Contended!LoadFails, DeepTree!Fib!LoadFails,
       Contended!StartUnwind, DeepTree!Fib!StartUnwind, Contended!LoadCommits, DeepTree!Fib!LoadCommits, Contended!LoadCancelled,
       DeepTree!Fib!LoadCancelled, Contended!Unload, DeepTree!Fib!Unload, Contended!Dispose, DeepTree!Fib!Dispose, Contended!UnwindStep,
       DeepTree!Fib!UnwindStep, Contended!UnwindEnds, DeepTree!Fib!UnwindEnds, Contended!UnwindCancelled, DeepTree!Fib!UnwindCancelled,
       Contended!Effect, DeepTree!Fib!Effect, Contended!CallHandle, DeepTree!Fib!CallHandle, Contended!Idle, DeepTree!Fib!Idle,
       Contended!Unwinding, DeepTree!Fib!Unwinding, Contended!Final, DeepTree!Fib!Final, Contended!LiveStates, DeepTree!Fib!LiveStates,
       Contended!listVars, DeepTree!Fib!listVars, Contended!effectVars, DeepTree!Fib!effectVars
-----------------------------------------------------------------------------
(* The theorems. *)

FibersUndone == IF part = "contended" THEN DeepTree!Undone(Both, 2, 3) ELSE DeepTree!Undone({t1}, 4, 4) /\ DeepTree!Owed(t1)

TreesUndone ==
    CASE part = "deep" -> DeepTree!Safe /\ DeepTree!Nested /\ DeepTree!Settled
      [] part = "torn" -> TornTree!Safe
      [] OTHER -> WideTree!Safe /\ WideTree!Nested

\* Whatever part a behaviour exercises, it begins with the invariants.
LEMMA RuntimeInit ==
  ASSUME MCInit
  PROVE  FibersUndone /\ TreesUndone
<1>1. /\ IF part = "contended" THEN Contended!Init ELSE Owned!Init
      /\ IF part = "deep" THEN Deep!Init ELSE Wide!Init
  BY DEF MCInit
<1>2. FibersUndone
  <2>1. CASE part = "contended"
    <3>1. DeepTree!Undone(Both, 2, 3)
      <4>1. DeepTree!Untouched(Both)
        BY <1>1, <2>1 DEF Contended!Init, Contended!Idle, DeepTree!Untouched, DeepTree!Resting
      <4> QED BY <4>1, DeepTree!UndoneInit
    <3> QED BY <2>1, <3>1 DEF FibersUndone
  <2>2. CASE part # "contended"
    <3>1. DeepTree!Untouched({t1})
      BY <1>1, <2>2 DEF Owned!Init, Owned!Idle, DeepTree!Untouched, DeepTree!Resting
    <3>2. DeepTree!Undone({t1}, 4, 4)
      BY <3>1, DeepTree!UndoneInit
    <3>3. DeepTree!Owed(t1)
      BY <3>1, DeepTree!OwedInit
    <3> QED BY <2>2, <3>2, <3>3 DEF FibersUndone
  <2> QED BY <2>1, <2>2
<1>3. Deep!Init => DeepTree!Safe /\ DeepTree!Nested /\ DeepTree!Settled
  BY DeepSame, DeepTree!InitSafe, DeepTree!InitNested
     DEF DeepTree!Init, DeepTree!Settled, DeepTree!Closed, DeepTree!Scopes
<1>4. Wide!Init => WideTree!Safe /\ WideTree!Nested
  BY WideSame, WideTree!InitSafe, WideTree!InitNested
<1>5. Wide!Init => TornTree!Safe
  <2>1. Wide!Init => TornTree!Init
    BY DEF Wide!Init, TornTree!Init
  <2> QED BY <2>1, TornTree!InitSafe
<1>6. TreesUndone
  BY <1>1, <1>3, <1>4, <1>5 DEF TreesUndone
<1> QED BY <1>2, <1>6

\* Every step keeps them, and what is disposed stays so.
LEMMA RuntimeStep ==
  ASSUME FibersUndone, TreesUndone, [MCNext]_<<part, pluginVars, fiberVars, scopeVars, busVars, agentVars>>
  PROVE  /\ FibersUndone' /\ TreesUndone'
         /\ part = "owned" => Owned!StaysDisposed
         /\ part = "contended" => Contended!NothingBeginsDisposed
         /\ part \in {"wide", "torn"} => Torn!ForGood
<1>1. part' = part
  BY DEF MCNext
<1>2. /\ part = "contended" => Contended!Next \/ UNCHANGED fiberVars
      /\ part # "contended" => Owned!Next \/ UNCHANGED fiberVars
  BY DEF MCNext
<1>3. /\ part = "deep" => Deep!Next \/ UNCHANGED scopeVars
      /\ part = "torn" => Torn!Next \/ UNCHANGED scopeVars
      /\ part \notin {"deep", "torn"} => Wide!Next \/ UNCHANGED scopeVars
  BY DEF MCNext
<1>4. /\ FibersUndone' /\ (part = "owned" => Owned!StaysDisposed)
      /\ part = "contended" => Contended!NothingBeginsDisposed
  <2>1. CASE part = "contended"
    <3>1. /\ DeepTree!Undone(Both, 2, 3)
          /\ DeepTree!Fib(Both, 2, 3, TRUE, TRUE)!Next \/ UNCHANGED DeepTree!fiberVars
      BY <1>2, <2>1, ContendedSame, ZenonT(30) DEF FibersUndone, fiberVars, DeepTree!fiberVars
    <3>2. FibersUndone'
      BY <1>1, <2>1, <3>1, DeepTree!UndoneStep, ZenonT(30) DEF FibersUndone
    <3>3. DeepTree!FiberTyped(Both, 2, 3)
      BY <3>1 DEF DeepTree!Undone
    <3>4. DeepTree!Fib(Both, 2, 3, TRUE, TRUE)!NothingBeginsDisposed
      BY <3>1, <3>3, DeepTree!DisposedStep, ZenonT(30)
    <3>5. Contended!NothingBeginsDisposed
      BY <3>4 DEF DeepTree!Fib!NothingBeginsDisposed, Contended!NothingBeginsDisposed,
                  DeepTree!Fib!Idle, Contended!Idle
    <3> QED BY <2>1, <3>2, <3>5
  <2>2. CASE part # "contended"
    <3>1. DeepTree!Undone({t1}, 4, 4) /\ DeepTree!Owed(t1) /\ (DeepTree!Fib({t1}, 4, 4, FALSE, FALSE)!Next \/ UNCHANGED fiberVars)
      BY <1>2, <2>2, OwnedSame, ZenonT(30) DEF FibersUndone
    <3>2. DeepTree!Undone({t1}, 4, 4)'
      BY <3>1, DeepTree!UndoneStep, ZenonT(30) DEF fiberVars, DeepTree!fiberVars
    <3>3. DeepTree!Owed(t1)' /\ (fiberState = "disposed" => fiberState' = "disposed")
      BY <3>1, DeepTree!OwedStep, ZenonT(30) DEF fiberVars, DeepTree!fiberVars
    <3> QED BY <1>1, <2>2, <3>2, <3>3 DEF FibersUndone, Owned!StaysDisposed
  <2> QED BY <2>1, <2>2
<1>5. CASE part = "deep"
  <2>1. DeepTree!Safe /\ DeepTree!Nested /\ DeepTree!Settled /\ [DeepTree!Next]_(DeepTree!vars)
    BY <1>3, <1>5, DeepSame
       DEF TreesUndone, scopeVars, DeepTree!vars, DeepTree!treeVars, DeepTree!listVars, DeepTree!callVars
  <2>2. DeepTree!Safe' /\ DeepTree!Nested' /\ DeepTree!Settled'
    BY <2>1, DeepForest, DeepTree!SafeStep, DeepTree!NestedStep, DeepTree!SettledStep
  <2> QED BY <1>1, <1>4, <1>5, <2>2 DEF TreesUndone
<1>6. CASE part = "torn"
  <2>1. TornTree!Safe /\ [TornTree!Next]_(TornTree!vars)
    BY <1>3, <1>6, TornSame
       DEF TreesUndone, scopeVars, TornTree!vars, TornTree!treeVars, TornTree!listVars, TornTree!callVars
  <2>2. TornTree!Safe' /\ TornTree!ForGood
    BY <2>1, TornTree!SafeStep, TornTree!SafeForGood
  <2>3. Torn!ForGood
    BY <2>2 DEF TornTree!ForGood, Torn!ForGood, TornTree!Last, Torn!Last
  <2> QED BY <1>1, <1>4, <1>6, <2>2, <2>3 DEF TreesUndone
<1>7. CASE part \notin {"deep", "torn"}
  <2>1. WideTree!Safe /\ WideTree!Nested /\ [WideTree!Next]_(WideTree!vars)
    BY <1>3, <1>7, WideSame
       DEF TreesUndone, scopeVars, WideTree!vars, WideTree!treeVars, WideTree!listVars, WideTree!callVars
  <2>2. WideTree!Safe' /\ WideTree!Nested' /\ WideTree!ForGood
    BY <2>1, WideForest, WideTree!SafeStep, WideTree!NestedStep, WideTree!SafeForGood
  <2>3. Torn!ForGood
    BY <2>2 DEF WideTree!ForGood, Torn!ForGood, WideTree!Last, Torn!Last
  <2> QED BY <1>1, <1>4, <1>7, <2>2, <2>3 DEF TreesUndone
<1> QED BY <1>5, <1>6, <1>7

\* They imply what the run checks.
LEMMA RuntimeUndone ==
  ASSUME FibersUndone, TreesUndone
  PROVE  EffectsUndone
<1>1. IF part = "contended" THEN Contended!TypeOK /\ Contended!ReverseOnce ELSE Owned!TypeOK /\ Owned!ReverseOnce
  <2>1. CASE part = "contended"
    <3>1. DeepTree!Fib(Both, 2, 3, TRUE, TRUE)!TypeOK /\ DeepTree!Fib(Both, 2, 3, TRUE, TRUE)!ReverseOnce
      BY <2>1, DeepTree!UndoneTyped, ZenonT(30) DEF FibersUndone
    <3> QED BY <2>1, <3>1 DEF DeepTree!Fib!TypeOK, Contended!TypeOK, DeepTree!Fib!ReverseOnce, Contended!ReverseOnce, DeepTree!Fib!States, Contended!States
  <2>2. CASE part # "contended"
    <3>1. DeepTree!Fib({t1}, 4, 4, FALSE, FALSE)!TypeOK /\ DeepTree!Fib({t1}, 4, 4, FALSE, FALSE)!ReverseOnce
      BY <2>2, DeepTree!UndoneTyped, ZenonT(30) DEF FibersUndone
    <3> QED BY <2>2, <3>1 DEF DeepTree!Fib!TypeOK, Owned!TypeOK, DeepTree!Fib!ReverseOnce, Owned!ReverseOnce, DeepTree!Fib!States, Owned!States
  <2> QED BY <2>1, <2>2
<1>2. part = "owned" => Owned!NothingLeaks
  BY DEF FibersUndone, DeepTree!Owed, Owned!NothingLeaks
<1>3. CASE part = "deep"
  <2>1. DeepTree!TypeOK /\ DeepTree!DeepestFirst /\ DeepTree!AllSettled
    BY <1>3, DeepForest, DeepTree!SafeTyped, DeepTree!SettledDeepest, DeepTree!NestedSettles DEF TreesUndone
  <2>2. Deep!TypeOK
    BY <2>1 DEF Deep!TypeOK, DeepTree!TypeOK, Deep!Scopes, DeepTree!Scopes, Deep!Effects, DeepTree!Effects,
                Deep!IsInjective, DeepTree!IsInjective
  <2>3. Deep!DeepestFirst /\ Deep!AllSettled
    BY <2>1, ZenonT(30) DEF Deep!DeepestFirst, DeepTree!DeepestFirst, Deep!AllSettled, DeepTree!AllSettled,
                Deep!Below, DeepTree!Below, Deep!Ancestors, DeepTree!Ancestors, Deep!Closed, DeepTree!Closed,
                Deep!Scopes, DeepTree!Scopes, Deep!Effects, DeepTree!Effects
  <2> QED BY <1>1, <1>2, <1>3, <2>2, <2>3 DEF EffectsUndone
<1>4. CASE part = "torn"
  <2>1. TornTree!TypeOK
    BY <1>4, TornTree!SafeTyped DEF TreesUndone
  <2>2. Torn!TypeOK
    BY <2>1 DEF Torn!TypeOK, TornTree!TypeOK, Torn!Scopes, TornTree!Scopes, Torn!Effects, TornTree!Effects,
                Torn!IsInjective, TornTree!IsInjective
  <2> QED BY <1>1, <1>2, <1>4, <2>2 DEF EffectsUndone
<1>5. CASE part \notin {"deep", "torn"}
  <2>1. WideTree!TypeOK /\ WideTree!AllSettled
    BY <1>5, WideForest, WideTree!SafeTyped, WideTree!NestedSettles DEF TreesUndone
  <2>2. Wide!TypeOK
    BY <2>1 DEF Wide!TypeOK, WideTree!TypeOK, Wide!Scopes, WideTree!Scopes, Wide!Effects, WideTree!Effects,
                Wide!IsInjective, WideTree!IsInjective
  <2>3. Wide!AllSettled
    BY <2>1, ZenonT(30) DEF Wide!AllSettled, WideTree!AllSettled,
                Wide!Below, WideTree!Below, Wide!Ancestors, WideTree!Ancestors,
                Wide!Scopes, WideTree!Scopes, Wide!Effects, WideTree!Effects
  <2> QED BY <1>1, <1>2, <1>5, <2>2, <2>3 DEF EffectsUndone
<1> QED BY <1>3, <1>4, <1>5

\* What fibers and scopes own is undone (EffectsUndone).  However the calls of
\* two tasks on a fiber, their cancellations, late effects and handles
\* interleave, dispose_all() runs a disposer at most once and those of a list
\* last-in first-out.  A fiber that one task drives, not cancelled and with no
\* late effects, holds nothing at rest.  Of scopes minted under live ones whose
\* disposers do not raise: with no disposal under way nothing below a disposed
\* scope is held; and if one task disposes, what is below a scope is gone
\* before its own registrations.
THEOREM EffectsAreUndone == MCSpec => []EffectsUndone
<1>1. MCInit => FibersUndone /\ TreesUndone
  BY RuntimeInit
<1>2. FibersUndone /\ TreesUndone /\ [MCNext]_<<part, pluginVars, fiberVars, scopeVars, busVars, agentVars>>
         => FibersUndone' /\ TreesUndone'
  BY RuntimeStep
<1>3. FibersUndone /\ TreesUndone => EffectsUndone
  BY RuntimeUndone
<1> QED BY <1>1, <1>2, <1>3, PTL DEF MCSpec

\* What was disposed stays so (DisposedIsFinal): a fiber that one task drives,
\* uncancelled, never leaves DISPOSED; on one that two tasks drive no call
\* begins any more, and only a call already under way can write over its state;
\* a scope whose on_disposed fired is not disposed again and takes no
\* registration, also when disposers raise and scopes are orphaned.
THEOREM DisposalIsFinal == MCSpec => DisposedIsFinal
<1>1. MCInit => FibersUndone /\ TreesUndone
  BY RuntimeInit
<1>2. FibersUndone /\ TreesUndone /\ [MCNext]_<<part, pluginVars, fiberVars, scopeVars, busVars, agentVars>>
         => /\ FibersUndone' /\ TreesUndone'
            /\ part = "owned" => Owned!StaysDisposed
            /\ part = "contended" => Contended!NothingBeginsDisposed
            /\ part \in {"wide", "torn"} => Torn!ForGood
  BY RuntimeStep
<1> QED BY <1>1, <1>2, PTL DEF MCSpec, DisposedIsFinal

=============================================================================
