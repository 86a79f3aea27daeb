----------------------------- MODULE MCRuntime -----------------------------
(* The plugin runtime: the registries with three plugins, one fiber with    *)
(* its effects, a tree of scopes, an event, and the agents with their       *)
(* tools.  Each is looked at under the callers it promises most to and      *)
(* under worse ones.  They share no state here: a behaviour exercises the   *)
(* one `part` names, the others are at rest.                                *)
EXTENDS Naturals, TLC

CONSTANTS None, t1, t2

VARIABLES
    part,
    fibers, state, provided, impls, stack, gaveUp,
    fiberState, lists, closed, current, home, settled, held, unwound, task,
    keyOf, disposed, order, tracked, scopeLists, closedAt, owner, scopeHeld, calls, running, notified,
    mode, listeners, removed, dispatch, seen,
    instances, logs, idOf, stage, entries, tool, owned

pluginVars == <<fibers, state, provided, impls, stack, gaveUp>>
fiberVars == <<fiberState, lists, closed, current, home, settled, held, unwound, task>>
scopeVars == <<keyOf, disposed, order, tracked, scopeLists, closedAt, owner, scopeHeld, calls, running, notified>>
busVars == <<mode, listeners, removed, dispatch, seen>>
agentVars == <<instances, logs, idOf, stage, entries, tool, owned>>

Both == {t1, t2}

-----------------------------------------------------------------------------
(* The registries *)

Mounted == {"storage", "index", "other"}

\* The index needs the store; the third plugin uses the index, or it is a
\* second store.
InjectOf(other) ==
    [f \in Mounted |-> CASE f = "storage" -> {} [] f = "index" -> {"A"} [] OTHER -> other]
ProvidesOf(other) ==
    [f \in Mounted |-> CASE f = "storage" -> {"A"} [] f = "index" -> {"B"} [] OTHER -> other]

\* Plugins that provide while their body runs, with disposers that succeed.
Plugins == INSTANCE PluginRuntime WITH
    Tasks <- Both, Fibers <- Mounted, Services <- {"A", "B"},
    Inject <- InjectOf({"B"}), Provides <- ProvidesOf({}), MaxPasses <- 8,
    DisposersFail <- FALSE, LateProvides <- FALSE, Withdraws <- TRUE

\* Conflicting providers, failing disposers, late services, too few passes.
Faulty == INSTANCE PluginRuntime WITH
    Tasks <- Both, Fibers <- Mounted, Services <- {"A", "B"},
    Inject <- InjectOf({}), Provides <- ProvidesOf({"A"}), MaxPasses <- 3,
    DisposersFail <- TRUE, LateProvides <- TRUE, Withdraws <- FALSE

-----------------------------------------------------------------------------
(* Fibers *)

\* One task drives the fiber, as the registry does.
Owned == INSTANCE Fiber WITH
    state <- fiberState, Tasks <- {t1}, MaxEffects <- 4, MaxLists <- 4,
    LateEffects <- FALSE, Cancels <- FALSE

\* Two tasks at once, cancelled at any await, and effects while a load fails.
Contended == INSTANCE Fiber WITH
    state <- fiberState, Tasks <- Both, MaxEffects <- 2, MaxLists <- 3,
    LateEffects <- TRUE, Cancels <- TRUE

-----------------------------------------------------------------------------
(* Scopes *)

Chain == [k \in {"top", "mid", "low"} |->
             CASE k = "top" -> "none" [] k = "mid" -> "top" [] OTHER -> "mid"]

Fork == [k \in {"top", "left", "right"} |-> IF k = "top" THEN "none" ELSE "top"]

\* Three levels, disposed by one task.
Deep == INSTANCE ScopeTree WITH
    lists <- scopeLists, held <- scopeHeld, Keys <- DOMAIN Chain, Parent <- Chain, NoKey <- "none",
    Tasks <- {t1}, Nobody <- None, MaxScopes <- 4, MaxEffects <- 3,
    Raising <- FALSE, NestedMints <- TRUE

\* Two siblings, disposed by two tasks.
Wide == INSTANCE ScopeTree WITH
    lists <- scopeLists, held <- scopeHeld, Keys <- DOMAIN Fork, Parent <- Fork, NoKey <- "none",
    Tasks <- Both, Nobody <- None, MaxScopes <- 4, MaxEffects <- 2,
    Raising <- FALSE, NestedMints <- TRUE

\* Two siblings, orphans and disposers that raise.
Torn == INSTANCE ScopeTree WITH
    lists <- scopeLists, held <- scopeHeld, Keys <- DOMAIN Fork, Parent <- Fork, NoKey <- "none",
    Tasks <- Both, Nobody <- None, MaxScopes <- 3, MaxEffects <- 2,
    Raising <- TRUE, NestedMints <- FALSE

-----------------------------------------------------------------------------
(* Events and agents *)

\* Three listeners, for all, for a scope and for the one below it.  Dispatches
\* share nothing but the list of listeners, so one is enough.
Bus == INSTANCE EventBus WITH
    disposed <- removed, Listeners <- {"any", "top", "low"},
    Tag <- ("any" :> "none") @@ ("top" :> "top") @@ ("low" :> "low"),
    Above <- ("top" :> "none") @@ ("low" :> "top"), NoScope <- "none", Dispatches <- {t1}

\* One id, taken by one instance after the other.
Agents == INSTANCE AgentRegistry WITH
    Ids <- {"x"}, Tools <- {"read"}, Definition <- "coder", Untagged <- "all",
    MaxInstances <- 3, MaxTools <- 4

-----------------------------------------------------------------------------

MCInit ==
    /\ part \in {"plugins", "faulty", "owned", "contended", "deep", "wide", "torn", "bus", "agents"}
    /\ Plugins!Init
    /\ IF part = "contended" THEN Contended!Init ELSE Owned!Init
    /\ IF part = "deep" THEN Deep!Init ELSE Wide!Init
    /\ Bus!Init /\ (part # "bus" => mode = "emit")
    /\ Agents!Init

MCNext ==
    /\ UNCHANGED part
    /\ \/ part = "plugins" /\ Plugins!Next /\ UNCHANGED <<fiberVars, scopeVars, busVars, agentVars>>
       \/ part = "faulty" /\ Faulty!Next /\ UNCHANGED <<fiberVars, scopeVars, busVars, agentVars>>
       \/ part = "owned" /\ Owned!Next /\ UNCHANGED <<pluginVars, scopeVars, busVars, agentVars>>
       \/ part = "contended" /\ Contended!Next /\ UNCHANGED <<pluginVars, scopeVars, busVars, agentVars>>
       \/ part = "deep" /\ Deep!Next /\ UNCHANGED <<pluginVars, fiberVars, busVars, agentVars>>
       \/ part = "wide" /\ Wide!Next /\ UNCHANGED <<pluginVars, fiberVars, busVars, agentVars>>
       \/ part = "torn" /\ Torn!Next /\ UNCHANGED <<pluginVars, fiberVars, busVars, agentVars>>
       \/ part = "bus" /\ Bus!Next /\ UNCHANGED <<pluginVars, fiberVars, scopeVars, agentVars>>
       \/ part = "agents" /\ Agents!Next /\ UNCHANGED <<pluginVars, fiberVars, scopeVars, busVars>>

MCSpec == MCInit /\ [][MCNext]_<<part, pluginVars, fiberVars, scopeVars, busVars, agentVars>>

-----------------------------------------------------------------------------

\* Whenever no operation is under way a mounted fiber is ACTIVE exactly if all
\* it injects is visible, or it has failed; a reconcile gives up only for a
\* dependency cycle, which there is not; and with conflicts, failing disposers,
\* late services and abandoned reconciles too, a registered name belongs to a
\* live fiber that will revoke it.
Consistent ==
    /\ part = "plugins" => Plugins!Consistent /\ Plugins!Stabilizes
    /\ IF part = "faulty" THEN Faulty!TypeOK ELSE Plugins!TypeOK
    /\ Plugins!RegistrationOwned

\* A fiber that one task drives, uncancelled and with no effects created while it
\* is unwound, holds at rest none of the effects it ever owned.  dispose_all()
\* calls a disposer at most once and those of one list last-in first-out, also
\* when two tasks unwind at once and are cancelled.  Where disposers do not
\* raise and scopes are minted under live ones, nothing below a disposed scope
\* is held when no disposal is under way; and where one task disposes, a scope
\* unwinds its own registrations only when everything below it is gone.
EffectsUndone ==
    /\ IF part = "contended" THEN Contended!TypeOK ELSE Owned!TypeOK
    /\ part = "owned" => Owned!NothingLeaks
    /\ IF part = "contended" THEN Contended!ReverseOnce ELSE Owned!ReverseOnce
    /\ CASE part = "deep" -> Deep!TypeOK [] part = "torn" -> Torn!TypeOK [] OTHER -> Wide!TypeOK
    /\ part = "deep" => Deep!DeepestFirst /\ Deep!AllSettled
    /\ part = "wide" => Wide!AllSettled

\* A dispatch calls those who were registered and admitted when it began, each
\* once and in order, whoever comes or goes meanwhile, and guards what it hands
\* them: no listener sees what another has spoilt or forged.
DispatchFaithful == part = "bus" => Bus!TypeOK /\ Bus!CallsItsAudience /\ Bus!ArgumentsGuarded

\* An instance is found under its id until its own handle is disposed, and sees
\* the nearest standing registration of each tool; a disposed one leaves none.
AgentsOwnTheirTools ==
    part = "agents" => Agents!TypeOK /\ Agents!LiveUntilDisposed /\ Agents!ToolsOfTheLiving

\* What is disposed stays so.  A fiber that one task drives never leaves DISPOSED.
\* On one that two tasks drive no call begins any more, and only a call that was
\* under way before can write over the state when it ends.  A scope is not
\* disposed again and takes no registration, also when disposers raise and
\* scopes are orphaned.
DisposedIsFinal ==
    [][/\ part = "owned" => Owned!StaysDisposed
       /\ part = "contended" => Contended!NothingBeginsDisposed
       /\ part \in {"wide", "torn"} => Torn!ForGood]_<<fiberVars, scopeVars>>

=============================================================================
