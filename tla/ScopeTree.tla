----------------------------- MODULE ScopeTree -----------------------------
(***************************************************************************)
(* Scopes (runtime/scope.py), the registrations made through their         *)
(* contexts (Context.scope() and Context.effect() of runtime/context.py)   *)
(* and their disposal, which settles the live descendants of a scope       *)
(* before its own registrations.  Tasks switch only where a disposer       *)
(* suspends, and then two disposals can be under way at once.  Scope s is  *)
(* the s-th one minted, effect e the e-th one registered.                  *)
(***************************************************************************)
EXTENDS Naturals, FiniteSets, SequencesExt

CONSTANTS
    Keys,        \* the scope keys
    Parent,      \* ScopeKey.parent of each key
    NoKey,       \* the parent of an outermost key
    Tasks,       \* who calls Scope.dispose()
    Nobody,      \* the event loop between two tasks
    MaxScopes,   \* bound on the scopes ever minted
    MaxEffects,  \* bound on the registrations ever made
    Raising,     \* may a disposer raise?
    NestedMints  \* is a scope minted only while its parent scope is live?

VARIABLES
    keyOf,     \* keyOf[s]: Scope.key
    disposed,  \* the scopes with Scope._disposed set
    order,     \* the keys of ScopeTree._scopes, in dictionary order
    tracked,   \* ScopeTree._scopes: the scope of each key, 0 for none
    lists,     \* lists[s]: the effects of its DisposableList, 0 where removed
    closedAt,  \* closedAt[s]: scopes minted when dispose_all() began, 0 before
    owner,     \* owner[e]: the scope and the index of effect e
    held,      \* effects whose disposer has not been called
    calls,     \* calls[t]: the Scope.dispose() frames of task t, innermost last
    running,   \* the task in the middle of its turn, if any
    notified   \* scopes whose on_disposed was fired

treeVars == <<keyOf, order, tracked>>
listVars == <<lists, closedAt, owner, held>>
callVars == <<calls, running>>
vars == <<treeVars, disposed, listVars, callVars, notified>>

Scopes == DOMAIN keyOf
Effects == DOMAIN owner
Closed == {s \in Scopes : closedAt[s] > 0}
Live(k) == tracked[k] # 0 /\ tracked[k] \notin disposed

\* ScopeKey.chain() without the key itself.
Ancestors[k \in Keys] ==
    IF Parent[k] = NoKey THEN {} ELSE {Parent[k]} \cup Ancestors[Parent[k]]

Init ==
    /\ keyOf = <<>> /\ disposed = {}
    /\ order = <<>> /\ tracked = [k \in Keys |-> 0]
    /\ lists = <<>> /\ closedAt = <<>> /\ owner = <<>> /\ held = {}
    /\ calls = [t \in Tasks |-> <<>>] /\ running = Nobody
    /\ notified = {}

-----------------------------------------------------------------------------

\* Context.scope() and ScopeTree.register().  A key the dictionary already has
\* keeps its place there.  The code checks nothing: that a key is minted again
\* only after its scope was disposed, and NestedMints, are assumed of callers.
Mint(k) ==
    /\ running = Nobody /\ Len(keyOf) < MaxScopes
    /\ NestedMints /\ Parent[k] # NoKey => Live(Parent[k])
    /\ tracked[k] = 0 \/ tracked[k] \in notified
    /\ keyOf' = Append(keyOf, k)
    /\ tracked' = [tracked EXCEPT ![k] = Len(keyOf) + 1]
    /\ order' = IF k \in ToSet(order) THEN order ELSE Append(order, k)
    /\ lists' = Append(lists, <<>>)
    /\ closedAt' = Append(closedAt, 0)
    /\ UNCHANGED <<disposed, owner, held, callVars, notified>>

\* _scoped_effect(): refused once the list is being disposed.
Register(s) ==
    /\ running = Nobody /\ Len(owner) < MaxEffects
    /\ s \notin Closed
    /\ owner' = Append(owner, [scope |-> s, index |-> Len(lists[s]) + 1])
    /\ lists' = [lists EXCEPT ![s] = Append(@, Len(owner) + 1)]
    /\ held' = held \cup {Len(owner) + 1}
    /\ UNCHANGED <<treeVars, disposed, closedAt, callVars, notified>>

\* The handle _scoped_effect() returns: remove() blanks the entry, then the
\* disposer runs unless it already has.  On a cleared list remove() raises.
Handle(e) ==
    LET s == owner[e].scope  i == owner[e].index IN
    /\ running = Nobody /\ i <= Len(lists[s]) /\ lists[s][i] = e
    /\ lists' = [lists EXCEPT ![s][i] = 0]
    /\ held' = held \ {e}
    /\ UNCHANGED <<treeVars, disposed, closedAt, owner, callVars, notified>>

-----------------------------------------------------------------------------

\* ScopeTree.children_of(): the live tracked scopes under k.
ChildrenOf(k) == {tracked[c] : c \in {c \in ToSet(order) : Parent[c] = k /\ Live(c)}}

\* reversed(children_of()): the last of them in the order of the dictionary,
\* which a key never leaves.
Place(c) == CHOOSE i \in DOMAIN order : order[i] = keyOf[c]
IsNext(c, children) == c \in children /\ \A d \in children : Place(d) <= Place(c)

\* A frame of Scope.dispose(): the children to go, then the entries 1..n of
\* the own list to go, and whether a disposer of that list raised.
Frame(s) == [scope |-> s, children |-> ChildrenOf(keyOf[s]), n |-> 0, raised |-> FALSE]

Top(t) == Last(calls[t])

\* The frames of t become fs and t goes on, until its outermost call returns.
Continue(t, fs) ==
    /\ calls' = [calls EXCEPT ![t] = fs]
    /\ running' = IF fs = <<>> THEN Nobody ELSE t

Turn(t) == running \in {t, Nobody} /\ calls[t] # <<>>

\* Mutant: dispose() is not idempotent.
DisposeAgain(t, s) ==
    /\ running = Nobody /\ calls[t] = <<>>
    /\ disposed' = disposed \cup {s}
    /\ Continue(t, <<Frame(s)>>)
    /\ UNCHANGED <<treeVars, listVars, notified>>

\* dispose() of a scope that is not disposed; of any other it returns at once.
Dispose(t, s) ==
    /\ running = Nobody /\ calls[t] = <<>>
    /\ s \notin disposed
    /\ disposed' = disposed \cup {s}
    /\ Continue(t, <<Frame(s)>>)
    /\ UNCHANGED <<treeVars, listVars, notified>>

\* The next child of the snapshot; one that is disposed by now, by whomever,
\* returns at once.
NextChild(t) ==
    /\ Turn(t)
    /\ \E c \in Top(t).children :
           LET f == [Top(t) EXCEPT !.children = @ \ {c}]
           IN  /\ IsNext(c, Top(t).children)
               /\ disposed' = disposed \cup {c}
               /\ Continue(t, Append(Front(calls[t]), f)
                                  \o (IF c \in disposed THEN <<>> ELSE <<Frame(c)>>))
    /\ UNCHANGED <<treeVars, listVars, notified>>

\* dispose_all() of the own list begins once the children are settled.
Close(t) ==
    /\ Turn(t) /\ Top(t).children = {} /\ Top(t).scope \notin Closed
    /\ LET s == Top(t).scope IN
       /\ closedAt' = [closedAt EXCEPT ![s] = Len(keyOf)]
       /\ Continue(t, Append(Front(calls[t]), [Top(t) EXCEPT !.n = Len(lists[s])]))
    /\ UNCHANGED <<treeVars, disposed, lists, owner, held, notified>>

\* One entry of the list, from the last to the first; a failure is collected.
\* A disposer that runs may suspend, and other tasks get their turn.
RunDisposer(t) ==
    /\ Turn(t) /\ Top(t).n > 0
    /\ LET e == lists[Top(t).scope][Top(t).n] IN
       /\ held' = held \ {e}
       /\ \E fails \in {FALSE, Raising /\ e \in held} :
             calls' = [calls EXCEPT ![t] =
                 Append(Front(@), [Top(t) EXCEPT !.n = @ - 1, !.raised = @ \/ fails])]
       /\ running' = IF e \in held THEN Nobody ELSE t
    /\ UNCHANGED <<treeVars, disposed, lists, closedAt, owner, notified>>

\* The list is cleared.  Without a failure on_disposed fires and dispose()
\* returns to its caller; a failure leaves every dispose() of this task.
Finish(t) ==
    /\ Turn(t) /\ Top(t).n = 0 /\ Top(t).scope \in Closed
    /\ LET s == Top(t).scope IN
       /\ lists' = [lists EXCEPT ![s] = <<>>]
       /\ Continue(t, IF Top(t).raised THEN <<>> ELSE Front(calls[t]))
       /\ notified' = IF Top(t).raised THEN notified ELSE notified \cup {s}
    /\ UNCHANGED <<treeVars, disposed, closedAt, owner, held>>

Next ==
    \/ \E k \in Keys : Mint(k)
    \/ \E s \in Scopes : Register(s)
    \/ \E e \in Effects : Handle(e)
    \/ \E t \in Tasks :
          \/ \E s \in Scopes : Dispose(t, s)
          \/ NextChild(t) \/ Close(t) \/ RunDisposer(t) \/ Finish(t)

Spec == Init /\ [][Next]_vars

-----------------------------------------------------------------------------

\* The types, and that the index an effect was given stays its own for as
\* long as the list lives.
TypeOK ==
    /\ keyOf \in Seq(Keys) /\ disposed \subseteq Scopes /\ notified \subseteq disposed
    /\ running \in Tasks \cup {Nobody}
    /\ order \in Seq(Keys) /\ IsInjective(order)
    /\ \A k \in Keys : tracked[k] # 0 => tracked[k] \in Scopes /\ keyOf[tracked[k]] = k
    /\ DOMAIN lists = Scopes /\ DOMAIN closedAt = Scopes
    /\ held \subseteq Effects
    /\ \A e \in held : lists[owner[e].scope][owner[e].index] = e
    /\ \A t \in Tasks : \A i \in DOMAIN calls[t] :
          /\ calls[t][i].scope \in disposed
          /\ calls[t][i].n \in 0..Len(lists[calls[t][i].scope])

\* The effects of scope s and of the scopes below it minted no later than the
\* n-th one.
Below(s, n) ==
    {e \in Effects : \/ owner[e].scope = s
                     \/ owner[e].scope <= n /\ keyOf[s] \in Ancestors[keyOf[owner[e].scope]]}

\* Scope.dispose() settles the live descendants of a scope before it unwinds
\* the scope's own registrations: from then on nothing of a descendant minted
\* before is held.
DeepestFirst ==
    \A s \in Closed : held \cap Below(s, closedAt[s]) \subseteq {e \in Effects : owner[e].scope = s}

\* Once no disposal is under way, a scope that was disposed, and every
\* descendant it had when its own registrations went, holds nothing any
\* more.
AllSettled ==
    (\A t \in Tasks : calls[t] = <<>>) =>
        \A s \in disposed : held \cap Below(s, closedAt[s]) = {}

\* on_disposed fires once, after the scope has disposed: a scope that was
\* disposed is never disposed again and takes no further registration.
ForGood ==
    /\ disposed \subseteq disposed'
    /\ \A s \in notified : lists'[s] = <<>>
    /\ \A t \in Tasks : calls'[t] # <<>> => Last(calls'[t]).scope \notin notified

=============================================================================
