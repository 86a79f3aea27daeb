--------------------------- MODULE LifetimeProofs ---------------------------
(***************************************************************************)
(* What the disposal of scopes promises, for any forest of keys, any       *)
(* number of tasks and any bounds, and what a fiber promises of its        *)
(* effects, for any tasks and bounds.                                      *)
(*                                                                         *)
(* Scopes.  Safe is about the frames of dispose(): a scope gets one frame  *)
(* ever, its list is unwound from the end, and it is notified when the     *)
(* frame is left.  Nested adds, for disposers that do not raise and scopes *)
(* minted under live ones, that a live scope has its parent's scope live   *)
(* too, or on its way to dispose of it.  Settled is what one task adds:    *)
(* below a closed scope all are notified.                                  *)
(*                                                                         *)
(* Fibers.  Undone says where each effect is filed and how far every       *)
(* unwinding has come, and Owed what one task at a time adds.              *)
(***************************************************************************)
EXTENDS ScopeTree, SequenceTheorems, TLAPS

VARIABLES fiberState, fiberLists, closed, current, home, settled, fiberHeld, unwound, task   \* see Fiber

fiberVars == <<fiberState, fiberLists, closed, current, home, settled, fiberHeld, unwound, task>>

\* Keys make a forest: a key's ancestors are its parent and the parent's
\* ancestors, there is no way back, and what holds of a key's parent and passes
\* from each key to its parent holds of the ancestors.
Forest ==
    /\ NoKey \notin Keys /\ Parent \in [Keys -> Keys \cup {NoKey}]
    /\ \A k \in Keys :
          /\ Ancestors[k] \subseteq Keys /\ k \notin Ancestors[k]
          /\ Parent[k] # NoKey => Parent[k] \in Ancestors[k] /\ Ancestors[Parent[k]] \subseteq Ancestors[k]
          /\ \A a \in Ancestors[k] : Parent[a] # NoKey => Parent[a] \in Ancestors[k]
          /\ \A U \in SUBSET Keys :
                (\A a \in U \cup {k} : Parent[a] # NoKey => Parent[a] \in U) => Ancestors[k] \subseteq U

Frames == [scope : Nat, children : SUBSET Nat, n : Nat, raised : BOOLEAN]

\* The types.
Typed ==
    /\ keyOf \in Seq(Keys)
    /\ order \in Seq(Keys) /\ IsInjective(order)
    /\ tracked \in [Keys -> Nat]
    /\ \A k \in Keys : tracked[k] # 0 =>
          tracked[k] \in Scopes /\ keyOf[tracked[k]] = k /\ k \in ToSet(order)
    /\ lists \in Seq(Seq(Nat)) /\ Len(lists) = Len(keyOf)
    /\ closedAt \in Seq(0..Len(keyOf)) /\ Len(closedAt) = Len(keyOf)
    /\ owner \in Seq([scope : Nat, index : Nat])
    /\ \A e \in Effects : owner[e].scope \in Scopes
    /\ calls \in [Tasks -> Seq(Frames)] /\ running \in Tasks \cup {Nobody}

\* The place a held effect was given is still its own; what is notified was
\* closed before, what is closed was disposed before, and nothing is in the
\* list of a notified scope.
Filed ==
    /\ held \subseteq Effects
    /\ \A e \in held : /\ owner[e].index \in DOMAIN lists[owner[e].scope]
                       /\ lists[owner[e].scope][owner[e].index] = e
    /\ disposed \subseteq Scopes /\ Closed \subseteq disposed /\ notified \subseteq Closed
    /\ \A s \in notified : lists[s] = <<>>

\* A frame, while its children are settled and while its list is unwound.
FrameSafe(f) ==
    /\ f.scope \in disposed \ notified
    /\ f.children \subseteq Scopes
    /\ \A c \in f.children : Parent[keyOf[c]] = keyOf[f.scope]
    /\ f.scope \notin Closed => f.n = 0
    /\ f.scope \in Closed =>
          /\ f.children = {} /\ f.n <= Len(lists[f.scope])
          /\ \A e \in held : owner[e].scope = f.scope => owner[e].index <= f.n

\* No two frames are of one scope.
Once ==
    \A t, u \in Tasks : \A i \in DOMAIN calls[t], j \in DOMAIN calls[u] :
        calls[t][i].scope = calls[u][j].scope => t = u /\ i = j

Safe == Typed /\ Filed /\ Once /\ \A t \in Tasks : \A i \in DOMAIN calls[t] : FrameSafe(calls[t][i])

Framed(s) == \E t \in Tasks : \E i \in DOMAIN calls[t] : calls[t][i].scope = s

\* Someone is about to dispose of child c of scope s.
Snapped(s, c) == \E t \in Tasks : \E i \in DOMAIN calls[t] : calls[t][i].scope = s /\ c \in calls[t][i].children

\* Without exceptions a disposed scope has its frame until it is notified, and
\* the frames of a task are of keys one below the other.
Quiet ==
    /\ \A t \in Tasks : \A i \in DOMAIN calls[t] : ~calls[t][i].raised
    /\ \A s \in disposed : s \in notified \/ Framed(s)
    /\ \A t \in Tasks : \A i, j \in DOMAIN calls[t] :
          i < j => keyOf[calls[t][i].scope] \in Ancestors[keyOf[calls[t][j].scope]]

\* The scope of a key is its latest, and those before were notified by then; a
\* live scope is under one that is live, or that is about to dispose of it.
Upheld ==
    /\ \A s \in Scopes :
          LET q == tracked[keyOf[s]]
          IN  q # 0 /\ (s # q => s \in notified /\ closedAt[s] < q)
    /\ \A s \in Scopes \ disposed : Parent[keyOf[s]] # NoKey =>
          LET p == tracked[Parent[keyOf[s]]]
          IN  p # 0 /\ p < s /\ (p \in disposed => Snapped(p, s))

Nested == Quiet /\ Upheld

\* One task closes a scope only when all below it are notified.
Settled ==
    \A s \in Closed, d \in Scopes :
        d <= closedAt[s] /\ keyOf[s] \in Ancestors[keyOf[d]] => d \in notified

-----------------------------------------------------------------------------
(* How the stacks change. *)

\* A sequence without its last element.
LEMMA FrontFacts ==
  ASSUME NEW X, NEW s \in Seq(X), s # <<>>
  PROVE  /\ Len(s) \in Nat /\ Len(s) > 0
         /\ Front(s) \in Seq(X) /\ Len(Front(s)) = Len(s) - 1
         /\ \A i \in 1..(Len(s) - 1) : Front(s)[i] = s[i]
<1>1. Len(s) \in Nat /\ Len(s) > 0
  BY EmptySeq
<1>2. 1 \in 1..(Len(s) + 1) /\ Len(s) - 1 \in (1 - 1)..Len(s) /\ (Len(s) - 1) - 1 + 1 = Len(s) - 1
  BY <1>1
<1>3. /\ Front(s) \in Seq(X) /\ Len(Front(s)) = Len(s) - 1
      /\ \A i \in 1..(Len(s) - 1) : Front(s)[i] = s[1 + i - 1]
  BY <1>2, SubSeqProperties DEF Front
<1> QED BY <1>1, <1>3

\* The top frame of t is replaced.
Replaces(t, f) == calls' = [calls EXCEPT ![t] = Append(Front(calls[t]), f)]

\* The other frames stay as they are.
LEMMA Replaced ==
  ASSUME Typed, NEW t \in Tasks, calls[t] # <<>>, NEW f \in Frames, Replaces(t, f)
  PROVE  /\ calls' \in [Tasks -> Seq(Frames)]
         /\ \A u \in Tasks : DOMAIN calls'[u] = DOMAIN calls[u]
         /\ \A u \in Tasks : \A i \in DOMAIN calls[u] :
               calls'[u][i] = IF u = t /\ i = Len(calls[t]) THEN f ELSE calls[u][i]
         /\ Len(calls[t]) \in DOMAIN calls[t]
<1> DEFINE s == calls[t]  r == Append(Front(s), f)
<1>1. s \in Seq(Frames) /\ calls \in [Tasks -> Seq(Frames)]
  BY DEF Typed
<1>2. /\ Len(s) \in Nat /\ Len(s) > 0
      /\ Front(s) \in Seq(Frames) /\ Len(Front(s)) = Len(s) - 1
      /\ \A i \in 1..(Len(s) - 1) : Front(s)[i] = s[i]
  BY <1>1, FrontFacts
<1>3. /\ r \in Seq(Frames) /\ Len(r) = Len(s) /\ r[Len(s)] = f
      /\ \A i \in 1..(Len(s) - 1) : r[i] = s[i]
  BY <1>2, AppendProperties
<1>4. DOMAIN r = 1..Len(s) /\ DOMAIN s = 1..Len(s)
  BY <1>1, <1>3, LenProperties
<1> HIDE DEF r
<1>5. \A u \in Tasks : calls'[u] = IF u = t THEN r ELSE calls[u]
  BY <1>1 DEF Replaces, r
<1>6. calls' \in [Tasks -> Seq(Frames)]
  BY <1>1, <1>3 DEF Replaces, r
<1>7. \A i \in 1..Len(s) : r[i] = IF i = Len(s) THEN f ELSE s[i]
  BY <1>2, <1>3
<1>8. \A u \in Tasks : DOMAIN calls'[u] = DOMAIN calls[u]
  BY <1>4, <1>5
<1>9. ASSUME NEW u \in Tasks, NEW i \in DOMAIN calls[u]
      PROVE  calls'[u][i] = IF u = t /\ i = Len(s) THEN f ELSE calls[u][i]
  <2>1. CASE u = t
    BY <1>4, <1>5, <1>7, <2>1
  <2>2. CASE u # t
    BY <1>5, <2>2
  <2> QED BY <2>1, <2>2
<1>10. Len(s) \in DOMAIN s
  BY <1>2, <1>4
<1> QED BY <1>6, <1>8, <1>9, <1>10

\* The top frame of t is replaced, and another put on it.
Grows(t, f, g) == calls' = [calls EXCEPT ![t] = Append(Front(calls[t]), f) \o <<g>>]

\* The frames below the top stay as they are, and there is one more.
LEMMA Grown ==
  ASSUME Typed, NEW t \in Tasks, calls[t] # <<>>, NEW f \in Frames, NEW g \in Frames, Grows(t, f, g)
  PROVE  /\ calls' \in [Tasks -> Seq(Frames)]
         /\ \A u \in Tasks : DOMAIN calls'[u] = IF u = t THEN 1..(Len(calls[t]) + 1) ELSE DOMAIN calls[u]
         /\ \A u \in Tasks : \A i \in DOMAIN calls[u] :
               calls'[u][i] = IF u = t /\ i = Len(calls[t]) THEN f ELSE calls[u][i]
         /\ Len(calls[t]) \in DOMAIN calls[t] /\ DOMAIN calls[t] = 1..Len(calls[t])
         /\ calls'[t][Len(calls[t]) + 1] = g
<1> DEFINE s == calls[t]  q == Append(Front(s), f)  r == q \o <<g>>
<1>1. s \in Seq(Frames) /\ calls \in [Tasks -> Seq(Frames)]
  BY DEF Typed
<1>2. /\ Len(s) \in Nat /\ Len(s) > 0
      /\ Front(s) \in Seq(Frames) /\ Len(Front(s)) = Len(s) - 1
      /\ \A i \in 1..(Len(s) - 1) : Front(s)[i] = s[i]
  BY <1>1, FrontFacts
<1>3. /\ q \in Seq(Frames) /\ Len(q) = Len(s) /\ q[Len(s)] = f
      /\ \A i \in 1..(Len(s) - 1) : q[i] = s[i]
  BY <1>2, AppendProperties
<1>4. r = Append(q, g)
  BY <1>3, AppendIsConcat
<1>5. /\ r \in Seq(Frames) /\ Len(r) = Len(s) + 1 /\ r[Len(s) + 1] = g
      /\ \A i \in 1..Len(s) : r[i] = q[i]
  <2> HIDE DEF q, r
  <2> QED BY <1>3, <1>4, AppendProperties
<1>6. DOMAIN r = 1..(Len(s) + 1) /\ DOMAIN s = 1..Len(s)
  BY <1>1, <1>5, LenProperties
<1>7. calls' = [calls EXCEPT ![t] = r]
  BY DEF Grows
<1> HIDE DEF r, q
<1>8. \A u \in Tasks : calls'[u] = IF u = t THEN r ELSE calls[u]
  BY <1>1, <1>7
<1>9. calls' \in [Tasks -> Seq(Frames)]
  BY <1>1, <1>5, <1>7
<1>10. ASSUME NEW i \in 1..Len(s)
       PROVE  r[i] = IF i = Len(s) THEN f ELSE s[i]
  <2>1. i = Len(s) \/ i \in 1..(Len(s) - 1)
    BY <1>2
  <2>2. r[i] = q[i]
    BY <1>5
  <2>3. i \in 1..(Len(s) - 1) => i # Len(s)
    BY <1>2
  <2> QED BY <1>3, <2>1, <2>2, <2>3
<1>11. ASSUME NEW u \in Tasks, NEW i \in DOMAIN calls[u]
       PROVE  calls'[u][i] = IF u = t /\ i = Len(s) THEN f ELSE calls[u][i]
  <2>1. CASE u = t
    BY <1>6, <1>8, <1>10, <2>1
  <2>2. CASE u # t
    BY <1>8, <2>2
  <2> QED BY <2>1, <2>2
<1>12. Len(s) \in DOMAIN s
  BY <1>2, <1>6
<1> QED BY <1>5, <1>6, <1>8, <1>9, <1>11, <1>12

\* t calls dispose().
LEMMA Begun ==
  ASSUME Typed, NEW t \in Tasks, calls[t] = <<>>, NEW g \in Frames, calls' = [calls EXCEPT ![t] = <<g>>]
  PROVE  /\ calls' \in [Tasks -> Seq(Frames)]
         /\ \A u \in Tasks : DOMAIN calls'[u] = IF u = t THEN {1} ELSE DOMAIN calls[u]
         /\ \A u \in Tasks \ {t} : calls'[u] = calls[u]
         /\ DOMAIN calls[t] = {} /\ calls'[t][1] = g
<1>1. calls \in [Tasks -> Seq(Frames)]
  BY DEF Typed
<1>2. <<g>> \in Seq(Frames) /\ DOMAIN <<g>> = {1} /\ <<g>>[1] = g
  OBVIOUS
<1>3. DOMAIN calls[t] = {}
  OBVIOUS
<1> QED BY <1>1, <1>2, <1>3

\* t leaves its innermost frame, or all of them.
LEMMA Returned ==
  ASSUME Typed, NEW t \in Tasks, calls[t] # <<>>, NEW all \in BOOLEAN,
         calls' = [calls EXCEPT ![t] = IF all THEN <<>> ELSE Front(calls[t])]
  PROVE  /\ calls' \in [Tasks -> Seq(Frames)]
         /\ \A u \in Tasks \ {t} : calls'[u] = calls[u]
         /\ DOMAIN calls'[t] = IF all THEN {} ELSE 1..(Len(calls[t]) - 1)
         /\ \A u \in Tasks : DOMAIN calls'[u] \subseteq DOMAIN calls[u]
         /\ \A u \in Tasks : \A i \in DOMAIN calls'[u] : calls'[u][i] = calls[u][i]
         /\ Len(calls[t]) \in DOMAIN calls[t] /\ DOMAIN calls[t] = 1..Len(calls[t])
<1> DEFINE s == calls[t]  r == IF all THEN <<>> ELSE Front(s)
<1>1. s \in Seq(Frames) /\ calls \in [Tasks -> Seq(Frames)]
  BY DEF Typed
<1>2. /\ Len(s) \in Nat /\ Len(s) > 0
      /\ Front(s) \in Seq(Frames) /\ Len(Front(s)) = Len(s) - 1
      /\ \A i \in 1..(Len(s) - 1) : Front(s)[i] = s[i]
  BY <1>1, FrontFacts
<1>3. DOMAIN Front(s) = 1..(Len(s) - 1) /\ DOMAIN s = 1..Len(s)
  BY <1>1, <1>2, LenProperties
<1>4. /\ r \in Seq(Frames) /\ DOMAIN r = IF all THEN {} ELSE 1..(Len(s) - 1)
      /\ \A i \in DOMAIN r : r[i] = s[i]
  BY <1>2, <1>3
<1>5. calls' = [calls EXCEPT ![t] = r]
  OBVIOUS
<1> HIDE DEF r
<1> QED BY <1>1, <1>2, <1>3, <1>4, <1>5

-----------------------------------------------------------------------------
(* Safe is inductive. *)

\* What Append() does to each place.
LEMMA Appended ==
  ASSUME NEW X, NEW s \in Seq(X), NEW x \in X
  PROVE  /\ Append(s, x) \in Seq(X) /\ Len(s) \in Nat /\ Len(Append(s, x)) = Len(s) + 1
         /\ DOMAIN s = 1..Len(s) /\ DOMAIN Append(s, x) = 1..(Len(s) + 1)
         /\ \A i \in 1..Len(s) : Append(s, x)[i] = s[i]
         /\ Append(s, x)[Len(s) + 1] = x
BY AppendProperties, LenProperties

\* With no scope and no frame there is nothing to keep.
LEMMA InitSafe ==
  ASSUME Init
  PROVE  Safe
<1>1. Typed
  BY DEF Init, Typed, Scopes, Effects, Frames, IsInjective, ToSet
<1>2. Filed /\ Once
  BY DEF Init, Filed, Once, Scopes, Effects, Closed
<1>3. \A t \in Tasks : \A i \in DOMAIN calls[t] : FrameSafe(calls[t][i])
  BY DEF Init
<1> QED BY <1>1, <1>2, <1>3 DEF Safe

\* A scope is minted.
LEMMA Minted ==
  ASSUME Typed, NEW k \in Keys, Mint(k)
  PROVE  /\ Len(keyOf) \in Nat /\ Scopes = 1..Len(keyOf) /\ Scopes' = 1..(Len(keyOf) + 1)
         /\ \A s \in Scopes : keyOf'[s] = keyOf[s] /\ lists'[s] = lists[s] /\ closedAt'[s] = closedAt[s]
         /\ keyOf'[Len(keyOf) + 1] = k /\ lists'[Len(keyOf) + 1] = <<>> /\ closedAt'[Len(keyOf) + 1] = 0
         /\ Closed' = Closed
         /\ \A c \in Keys : tracked'[c] = IF c = k THEN Len(keyOf) + 1 ELSE tracked[c]
<1> DEFINE n == Len(keyOf)
<1>1. keyOf \in Seq(Keys) /\ lists \in Seq(Seq(Nat)) /\ Len(lists) = n /\ Len(closedAt) = n
      /\ closedAt \in Seq(0..n) /\ tracked \in [Keys -> Nat]
  BY DEF Typed
<1>2. keyOf' = Append(keyOf, k) /\ lists' = Append(lists, <<>>) /\ closedAt' = Append(closedAt, 0)
      /\ tracked' = [tracked EXCEPT ![k] = n + 1]
  BY DEF Mint
<1>3. n \in Nat /\ DOMAIN keyOf = 1..n /\ DOMAIN keyOf' = 1..(n + 1) /\ keyOf'[n + 1] = k
      /\ \A s \in 1..n : keyOf'[s] = keyOf[s]
  BY <1>1, <1>2, Appended
<1>4. lists'[n + 1] = <<>> /\ \A s \in 1..n : lists'[s] = lists[s]
  <2>1. <<>> \in Seq(Nat)
    OBVIOUS
  <2> QED BY <1>1, <1>2, <2>1, Appended
<1>5. closedAt'[n + 1] = 0 /\ \A s \in 1..n : closedAt'[s] = closedAt[s]
  <2>1. 0 \in 0..n
    BY <1>3
  <2> QED BY <1>1, <1>2, <2>1, Appended
<1>6. Scopes = 1..n /\ Scopes' = 1..(n + 1)
  BY <1>3 DEF Scopes
<1>7. Closed' = Closed
  BY <1>3, <1>5, <1>6 DEF Closed
<1> QED BY <1>1, <1>2, <1>3, <1>4, <1>5, <1>6, <1>7

\* A new scope has no effects and no frame; the key keeps its place.
LEMMA MintSafe ==
  ASSUME Safe, NEW k \in Keys, Mint(k)
  PROVE  Safe'
<1> DEFINE n == Len(keyOf)
<1>1. Typed /\ Filed /\ Once
  BY DEF Safe
<1>2. /\ n \in Nat /\ Scopes = 1..n /\ Scopes' = 1..(n + 1)
      /\ \A s \in Scopes : keyOf'[s] = keyOf[s] /\ lists'[s] = lists[s] /\ closedAt'[s] = closedAt[s]
      /\ keyOf'[n + 1] = k /\ lists'[n + 1] = <<>> /\ closedAt'[n + 1] = 0
      /\ Closed' = Closed
      /\ \A c \in Keys : tracked'[c] = IF c = k THEN n + 1 ELSE tracked[c]
  BY <1>1, Minted
<1>3. UNCHANGED <<disposed, owner, held, calls, running, notified>>
  BY DEF Mint, callVars
<1>4. Typed'
  <2>1. keyOf' \in Seq(Keys) /\ Len(keyOf') = n + 1
    BY <1>1, Appended DEF Typed, Mint
  <2>2. lists' \in Seq(Seq(Nat)) /\ Len(lists') = n + 1
    <3>1. <<>> \in Seq(Nat)
      OBVIOUS
    <3> QED BY <1>1, <3>1, Appended DEF Typed, Mint
  <2>3. closedAt' \in Seq(0..(n + 1)) /\ Len(closedAt') = n + 1
    <3>1. closedAt' \in Seq(0..n) /\ Len(closedAt') = n + 1
      <4>1. 0 \in 0..n
        BY <1>2
      <4> QED BY <1>1, <4>1, Appended DEF Typed, Mint
    <3>2. 0..n \subseteq 0..(n + 1)
      BY <1>2
    <3> QED BY <3>1, <3>2, SeqMonotonic
  <2>4. order' \in Seq(Keys) /\ IsInjective(order') /\ ToSet(order') = ToSet(order) \cup {k}
    <3>1. CASE k \in ToSet(order)
      BY <1>1, <3>1 DEF Typed, Mint
    <3>2. CASE k \notin ToSet(order)
      <4>1. order \in Seq(Keys) /\ IsInjective(order) /\ order' = Append(order, k)
        BY <1>1, <3>2 DEF Typed, Mint
      <4>2. /\ order' \in Seq(Keys) /\ Len(order) \in Nat
            /\ DOMAIN order = 1..Len(order) /\ DOMAIN order' = 1..(Len(order) + 1)
            /\ \A i \in 1..Len(order) : order'[i] = order[i]
            /\ order'[Len(order) + 1] = k
        BY <4>1, Appended
      <4>3. DOMAIN order' = DOMAIN order \cup {Len(order) + 1}
        BY <4>2
      <4>4. ToSet(order') = ToSet(order) \cup {k}
        BY <4>2, <4>3 DEF ToSet
      <4>5. IsInjective(order')
        BY <4>1, <4>2, <4>3, <3>2 DEF IsInjective, ToSet
      <4> QED BY <4>2, <4>4, <4>5
    <3> QED BY <3>1, <3>2
  <2>5. tracked' \in [Keys -> Nat]
    BY <1>1, <1>2 DEF Typed, Mint
  <2>6. ASSUME NEW c \in Keys, tracked'[c] # 0
        PROVE  tracked'[c] \in Scopes' /\ keyOf'[tracked'[c]] = c /\ c \in ToSet(order')
    BY <1>1, <1>2, <2>4, <2>6, SMTT(30) DEF Typed
  <2>7. \A e \in Effects' : owner'[e].scope \in Scopes'
    BY <1>1, <1>2, <1>3 DEF Typed, Effects
  <2> QED BY <1>1, <1>3, <2>1, <2>2, <2>3, <2>4, <2>5, <2>6, <2>7 DEF Typed
<1>5. Filed'
  <2>1. /\ held' \subseteq Effects' /\ disposed' \subseteq Scopes' /\ Closed' \subseteq disposed'
        /\ notified' \subseteq Closed'
    BY <1>1, <1>2, <1>3 DEF Filed, Effects
  <2>2. ASSUME NEW e \in held'
        PROVE  /\ owner'[e].index \in DOMAIN lists'[owner'[e].scope]
               /\ lists'[owner'[e].scope][owner'[e].index] = e
    BY <1>1, <1>2, <1>3 DEF Filed, Typed
  <2>3. ASSUME NEW s \in notified'
        PROVE  lists'[s] = <<>>
    BY <1>1, <1>2, <1>3 DEF Filed
  <2> QED BY <2>1, <2>2, <2>3 DEF Filed
<1>6. Once'
  BY <1>1, <1>3 DEF Once
<1>7. ASSUME NEW t \in Tasks, NEW i \in DOMAIN calls[t]
      PROVE  FrameSafe(calls[t][i])'
  <2>1. FrameSafe(calls[t][i])
    BY DEF Safe
  <2>2. calls[t][i].scope \in Scopes
    BY <1>1, <2>1 DEF FrameSafe, Filed
  <2> QED BY <1>2, <1>3, <2>1, <2>2, SMTT(30) DEF FrameSafe
<1> QED BY <1>3, <1>4, <1>5, <1>6, <1>7 DEF Safe

\* A registration goes behind the last of a list that is not closed.
LEMMA RegisterSafe ==
  ASSUME Safe, NEW s \in Scopes, Register(s)
  PROVE  Safe'
<1> DEFINE n == Len(owner)  Owned == [scope : Nat, index : Nat]
           new == [scope |-> s, index |-> Len(lists[s]) + 1]
<1>1. Typed /\ Filed /\ Once
  BY DEF Safe
<1>2. UNCHANGED <<keyOf, order, tracked, disposed, closedAt, calls, running, notified>> /\ s \notin Closed
      /\ owner' = Append(owner, new) /\ lists' = [lists EXCEPT ![s] = Append(@, n + 1)]
      /\ held' = held \cup {n + 1}
  BY DEF Register, treeVars, callVars
<1>3. Scopes' = Scopes /\ Closed' = Closed /\ Scopes \subseteq Nat /\ Scopes = DOMAIN lists
  BY <1>1, <1>2, LenProperties DEF Scopes, Closed, Typed
<1>4. lists[s] \in Seq(Nat) /\ Len(lists[s]) \in Nat
  BY <1>1, <1>3, ElementOfSeq, LenProperties DEF Typed
<1>5. new \in Owned
  BY <1>3, <1>4
<1>6. /\ owner' \in Seq(Owned) /\ n \in Nat /\ Effects = 1..n /\ Effects' = 1..(n + 1)
      /\ \A e \in Effects : owner'[e] = owner[e]
      /\ owner'[n + 1] = new /\ Effects' = Effects \cup {n + 1}
  <2>1. owner \in Seq(Owned)
    BY <1>1 DEF Typed
  <2> HIDE DEF new
  <2>2. /\ owner' \in Seq(Owned) /\ n \in Nat /\ Effects = 1..n /\ Effects' = 1..(n + 1)
        /\ \A e \in Effects : owner'[e] = owner[e]
        /\ owner'[n + 1] = new
    BY <1>2, <1>5, <2>1, Appended DEF Effects
  <2>3. 1..(n + 1) = 1..n \cup {n + 1}
    BY <2>2
  <2> QED BY <2>2, <2>3
<1>7. /\ Append(lists[s], n + 1) \in Seq(Nat)
      /\ DOMAIN lists[s] = 1..Len(lists[s]) /\ DOMAIN Append(lists[s], n + 1) = 1..(Len(lists[s]) + 1)
      /\ \A i \in DOMAIN lists[s] : Append(lists[s], n + 1)[i] = lists[s][i]
      /\ Append(lists[s], n + 1)[Len(lists[s]) + 1] = n + 1
  <2>1. n + 1 \in Nat
    BY <1>6
  <2> HIDE DEF n
  <2> QED BY <1>4, <2>1, Appended
<1>8. /\ lists' \in Seq(Seq(Nat)) /\ Len(lists') = Len(lists)
      /\ \A x \in Scopes : lists'[x] = IF x = s THEN Append(lists[s], n + 1) ELSE lists[x]
  BY <1>1, <1>2, <1>3, <1>7, ExceptSeq DEF Typed
<1>9. Typed'
  <2>1. \A e \in Effects' : owner'[e].scope \in Scopes'
    <3>1. \A e \in Effects : owner[e].scope \in Scopes
      BY <1>1 DEF Typed
    <3>2. owner'[n + 1].scope = s
      BY <1>6
    <3> HIDE DEF n, new
    <3> QED BY <1>3, <1>6, <3>1, <3>2
  <2> QED BY <1>1, <1>2, <1>3, <1>6, <1>8, <2>1 DEF Typed
<1>10. Filed'
  <2>1. /\ held' \subseteq Effects' /\ disposed' \subseteq Scopes' /\ Closed' \subseteq disposed'
        /\ notified' \subseteq Closed'
    BY <1>1, <1>2, <1>3, <1>6 DEF Filed
  <2>2. ASSUME NEW e \in held'
        PROVE  /\ owner'[e].index \in DOMAIN lists'[owner'[e].scope]
               /\ lists'[owner'[e].scope][owner'[e].index] = e
    <3>1. CASE e = n + 1
      <4>1. owner'[e].scope = s /\ owner'[e].index = Len(lists[s]) + 1
        BY <1>6, <3>1
      <4>2. Len(lists[s]) + 1 \in 1..(Len(lists[s]) + 1)
        BY <1>4
      <4> QED BY <1>7, <1>8, <3>1, <4>1, <4>2
    <3>2. CASE e # n + 1
      <4>1. e \in held /\ e \in Effects /\ owner'[e] = owner[e] /\ owner[e].scope \in Scopes
        BY <1>1, <1>2, <1>6, <3>2 DEF Filed, Typed
      <4>2. /\ owner[e].index \in DOMAIN lists[owner[e].scope]
            /\ lists[owner[e].scope][owner[e].index] = e
        BY <1>1, <4>1 DEF Filed
      <4>3. CASE owner[e].scope = s
        <5>1. owner[e].index \in 1..(Len(lists[s]) + 1)
          BY <1>4, <1>7, <4>2, <4>3
        <5> QED BY <1>7, <1>8, <4>1, <4>2, <4>3, <5>1
      <4>4. CASE owner[e].scope # s
        BY <1>8, <4>1, <4>2, <4>4
      <4> QED BY <4>3, <4>4
    <3> QED BY <3>1, <3>2
  <2>3. \A x \in notified' : lists'[x] = <<>>
    BY <1>1, <1>2, <1>3, <1>8 DEF Filed
  <2> QED BY <2>1, <2>2, <2>3 DEF Filed
<1>11. Once'
  BY <1>1, <1>2 DEF Once
<1>12. ASSUME NEW t \in Tasks, NEW i \in DOMAIN calls[t]
       PROVE  FrameSafe(calls[t][i])'
  <2> DEFINE f == calls[t][i]
  <2>1. FrameSafe(f)
    BY DEF Safe
  <2>2. f.scope \in Closed => f.scope # s /\ lists'[f.scope] = lists[f.scope]
    BY <1>2, <1>3, <1>8 DEF Closed
  <2>3. ASSUME NEW e \in held', owner'[e].scope = f.scope, f.scope \in Closed
        PROVE  owner'[e].index <= f.n
    <3>1. e # n + 1
      BY <1>6, <2>2, <2>3
    <3>2. e \in held /\ owner'[e] = owner[e]
      BY <1>1, <1>2, <1>6, <3>1 DEF Filed
    <3> QED BY <2>1, <2>3, <3>2 DEF FrameSafe
  <2> QED BY <1>2, <1>3, <2>1, <2>2, <2>3 DEF FrameSafe
<1> QED BY <1>2, <1>9, <1>10, <1>11, <1>12 DEF Safe

\* A handle removes its own effect, in place while the list is not cleared.
LEMMA HandleSafe ==
  ASSUME Safe, NEW e \in Effects, Handle(e)
  PROVE  Safe'
<1> DEFINE s == owner[e].scope  i == owner[e].index
<1>1. Typed /\ Filed /\ Once
  BY DEF Safe
<1>2. UNCHANGED <<keyOf, order, tracked, disposed, closedAt, owner, calls, running, notified>>
      /\ i <= Len(lists[s]) /\ lists[s][i] = e
      /\ lists' = [lists EXCEPT ![s][i] = 0] /\ held' = held \ {e}
  BY DEF Handle, treeVars, callVars
<1>3. Scopes' = Scopes /\ Closed' = Closed /\ Scopes = DOMAIN lists /\ s \in Scopes /\ Effects' = Effects
      /\ e # 0
  <2>1. Effects = 1..Len(owner)
    BY <1>1, LenProperties DEF Effects, Typed
  <2>2. Scopes = 1..Len(keyOf) /\ DOMAIN lists = 1..Len(keyOf)
    BY <1>1, LenProperties DEF Scopes, Typed
  <2> QED BY <1>1, <1>2, <2>1, <2>2 DEF Scopes, Effects, Closed, Typed
<1>4. lists \in Seq(Seq(Nat)) /\ lists[s] \in Seq(Nat) /\ DOMAIN lists[s] = 1..Len(lists[s])
  BY <1>1, <1>3, ElementOfSeq, LenProperties DEF Typed
<1> DEFINE l == [lists[s] EXCEPT ![i] = 0]
<1>5. l \in Seq(Nat) /\ Len(l) = Len(lists[s]) /\ DOMAIN l = DOMAIN lists[s]
      /\ \A j \in DOMAIN l : l[j] = IF j = i THEN 0 ELSE lists[s][j]
  <2>1. l \in [DOMAIN lists[s] -> Nat]
    BY <1>4, LenProperties
  <2>2. l \in Seq(Nat)
    BY <1>4, <2>1, LenProperties, IsASeq
  <2> QED BY <1>4, <2>1, <2>2, LenProperties
<1>6. lists' = [lists EXCEPT ![s] = l]
  BY <1>2
<1>7. /\ lists' \in Seq(Seq(Nat)) /\ Len(lists') = Len(lists)
      /\ \A x \in Scopes : lists'[x] = IF x = s THEN l ELSE lists[x]
  <2> HIDE DEF l
  <2> QED BY <1>1, <1>3, <1>4, <1>5, <1>6, ExceptSeq
<1>8. Typed'
  BY <1>1, <1>2, <1>3, <1>7 DEF Typed
<1>9. Filed'
  <2>1. /\ held' \subseteq Effects' /\ disposed' \subseteq Scopes' /\ Closed' \subseteq disposed'
        /\ notified' \subseteq Closed'
    BY <1>1, <1>2, <1>3 DEF Filed
  <2>2. ASSUME NEW x \in held'
        PROVE  /\ owner'[x].index \in DOMAIN lists'[owner'[x].scope]
               /\ lists'[owner'[x].scope][owner'[x].index] = x
    <3>1. x \in held /\ x # e /\ owner' = owner /\ owner[x].scope \in Scopes
      BY <1>1, <1>2 DEF Filed, Typed
    <3>2. /\ owner[x].index \in DOMAIN lists[owner[x].scope]
          /\ lists[owner[x].scope][owner[x].index] = x
      BY <1>1, <3>1 DEF Filed
    <3>3. CASE owner[x].scope = s
      <4>1. owner[x].index # i
        BY <1>2, <3>1, <3>2, <3>3
      <4> QED BY <1>5, <1>7, <3>1, <3>2, <3>3, <4>1
    <3>4. CASE owner[x].scope # s
      BY <1>7, <3>1, <3>2, <3>4
    <3> QED BY <3>3, <3>4
  <2>3. ASSUME NEW x \in notified'
        PROVE  lists'[x] = <<>>
    <3>1. x \in Scopes /\ lists[x] = <<>>
      BY <1>1, <1>2 DEF Filed
    <3>2. CASE x = s
      <4>1. Len(l) = 0 /\ l \in Seq(Nat)
        BY <1>5, <3>1, <3>2
      <4> QED BY <1>7, <3>1, <3>2, <4>1, EmptySeq
    <3> QED BY <1>7, <3>1, <3>2
  <2> QED BY <2>1, <2>2, <2>3 DEF Filed
<1>10. Once'
  BY <1>1, <1>2 DEF Once
<1>11. ASSUME NEW t \in Tasks, NEW j \in DOMAIN calls[t]
       PROVE  FrameSafe(calls[t][j])'
  <2> DEFINE f == calls[t][j]
  <2>1. FrameSafe(f)
    BY DEF Safe
  <2>2. f.scope \in Closed => Len(lists'[f.scope]) = Len(lists[f.scope])
    BY <1>5, <1>7 DEF Closed
  <2>3. \A x \in held' : x \in held
    BY <1>2
  <2> HIDE DEF l
  <2> QED BY <1>2, <1>3, <2>1, <2>2, <2>3 DEF FrameSafe
<1> QED BY <1>2, <1>8, <1>9, <1>10, <1>11 DEF Safe

\* A fresh frame: its children are the live scopes of the keys below.
LEMMA FrameFacts ==
  ASSUME Typed, disposed \subseteq Scopes, NEW s \in Scopes
  PROVE  /\ Frame(s) \in Frames
         /\ Frame(s).scope = s /\ Frame(s).n = 0 /\ Frame(s).raised = FALSE
         /\ \A c \in Frame(s).children :
               c \in Scopes \ disposed /\ Parent[keyOf[c]] = keyOf[s] /\ tracked[keyOf[c]] = c
         /\ \A c \in Scopes \ disposed :
               Parent[keyOf[c]] = keyOf[s] /\ tracked[keyOf[c]] = c => c \in Frame(s).children
<1> DEFINE children == ChildrenOf(keyOf[s])
<1>1. Scopes \subseteq Nat \ {0} /\ \A c \in Scopes : keyOf[c] \in Keys
  BY ElementOfSeq, LenProperties, SMTT(30) DEF Scopes, Typed
<1>2. ToSet(order) \subseteq Keys
  BY ElementOfSeq, LenProperties DEF ToSet, Typed
<1>3. \A k \in Keys : tracked[k] # 0 => tracked[k] \in Scopes /\ keyOf[tracked[k]] = k /\ k \in ToSet(order)
  BY DEF Typed
<1>4. \A c \in children : c \in Scopes \ disposed /\ Parent[keyOf[c]] = keyOf[s] /\ tracked[keyOf[c]] = c
  BY <1>1, <1>2, <1>3 DEF ChildrenOf, Live
<1>5. ASSUME NEW c \in Scopes \ disposed, Parent[keyOf[c]] = keyOf[s], tracked[keyOf[c]] = c
      PROVE  c \in children
  <2>1. keyOf[c] \in ToSet(order) /\ Live(keyOf[c])
    BY <1>1, <1>3, <1>5 DEF Live
  <2> QED BY <2>1, <1>5 DEF ChildrenOf
<1>6. children \in SUBSET Nat
  BY <1>1, <1>4
<1> HIDE DEF children
<1>7. Frame(s) = [scope |-> s, children |-> children, n |-> 0, raised |-> FALSE]
  BY DEF Frame, children
<1>8. Frame(s) \in Frames
  <2>1. s \in Nat /\ 0 \in Nat /\ FALSE \in BOOLEAN
    BY <1>1
  <2>2. [scope |-> s, children |-> children, n |-> 0, raised |-> FALSE] \in Frames
    BY <1>6, <2>1 DEF Frames
  <2> QED BY <1>7, <2>2
<1> QED BY <1>4, <1>5, <1>7, <1>8

\* What a step of dispose() that changes no list leaves as it is.
LEMMA Kept ==
  ASSUME Safe, UNCHANGED <<treeVars, listVars, notified>>, disposed \subseteq disposed', disposed' \subseteq Scopes,
         calls' \in [Tasks -> Seq(Frames)], running' \in Tasks \cup {Nobody}
  PROVE  /\ Typed' /\ Filed'
         /\ Scopes' = Scopes /\ Closed' = Closed
         /\ \A t \in Tasks : \A i \in DOMAIN calls[t], u \in Tasks : \A j \in DOMAIN calls'[u] :
               calls'[u][j] = calls[t][i] => FrameSafe(calls[u][j])'
<1>1. Typed /\ Filed
  BY DEF Safe
<1>2. UNCHANGED <<keyOf, order, tracked, lists, closedAt, owner, held, notified>>
  BY DEF treeVars, listVars
<1>3. Scopes' = Scopes /\ Closed' = Closed /\ Effects' = Effects
  BY <1>2 DEF Scopes, Closed, Effects
<1>4. Typed'
  BY <1>1, <1>2, <1>3 DEF Typed
<1>5. Filed'
  BY <1>1, <1>2, <1>3 DEF Filed
<1>6. ASSUME NEW t \in Tasks, NEW i \in DOMAIN calls[t], NEW u \in Tasks, NEW j \in DOMAIN calls'[u],
             calls'[u][j] = calls[t][i]
      PROVE  FrameSafe(calls[u][j])'
  <2>1. FrameSafe(calls[t][i])
    BY DEF Safe
  <2> QED BY <1>2, <1>3, <1>6, <2>1 DEF FrameSafe
<1> QED BY <1>3, <1>4, <1>5, <1>6

\* An outermost frame is of a scope that had none.
LEMMA DisposeSafe ==
  ASSUME Safe, NEW t \in Tasks, NEW s \in Scopes, Dispose(t, s)
  PROVE  Safe'
<1>1. Typed /\ Filed /\ Once
  BY DEF Safe
<1>2. UNCHANGED <<treeVars, listVars, notified>> /\ calls[t] = <<>> /\ s \notin disposed
      /\ disposed' = disposed \cup {s} /\ calls' = [calls EXCEPT ![t] = <<Frame(s)>>]
      /\ running' \in Tasks \cup {Nobody}
  BY DEF Dispose, Continue
<1>3. disposed \subseteq Scopes /\ Closed \subseteq disposed /\ notified \subseteq Closed
  BY <1>1 DEF Filed
<1> PICK g : g = Frame(s)
  OBVIOUS
<1>4. /\ g \in Frames /\ g.scope = s /\ g.n = 0 /\ g.children \subseteq Scopes
      /\ \A c \in g.children : Parent[keyOf[c]] = keyOf[s]
  BY <1>1, <1>3, FrameFacts
<1>5. /\ calls' \in [Tasks -> Seq(Frames)]
      /\ \A u \in Tasks : DOMAIN calls'[u] = IF u = t THEN {1} ELSE DOMAIN calls[u]
      /\ \A u \in Tasks \ {t} : calls'[u] = calls[u]
      /\ calls'[t][1] = g
  BY <1>1, <1>2, <1>4, Begun
<1>6. /\ Typed' /\ Filed'
      /\ Scopes' = Scopes /\ Closed' = Closed
      /\ \A u \in Tasks \ {t} : \A i \in DOMAIN calls'[u] : FrameSafe(calls[u][i])'
  BY <1>2, <1>3, <1>5, Kept
<1>7. FrameSafe(calls[t][1])'
  <2>1. UNCHANGED <<keyOf, notified>>
    BY <1>2 DEF treeVars
  <2> QED BY <1>2, <1>3, <1>4, <1>5, <1>6, <2>1 DEF FrameSafe
<1>8. Once'
  <2>1. \A u \in Tasks : \A i \in DOMAIN calls[u] : calls[u][i].scope # s
    BY <1>2 DEF Safe, FrameSafe
  <2> QED BY <1>1, <1>4, <1>5, <2>1 DEF Once
<1> QED BY <1>5, <1>6, <1>7, <1>8 DEF Safe

\* The frame a task is in.
LEMMA TopFacts ==
  ASSUME Safe, NEW t \in Tasks, calls[t] # <<>>
  PROVE  /\ Top(t) \in Frames /\ Top(t) = calls[t][Len(calls[t])] /\ FrameSafe(Top(t))
         /\ Len(calls[t]) \in DOMAIN calls[t] /\ DOMAIN calls[t] = 1..Len(calls[t]) /\ Len(calls[t]) \in Nat
<1>1. calls[t] \in Seq(Frames)
  BY DEF Safe, Typed
<1>2. Len(calls[t]) \in DOMAIN calls[t] /\ DOMAIN calls[t] = 1..Len(calls[t]) /\ Len(calls[t]) \in Nat
  BY <1>1, EmptySeq, LenProperties
<1>3. Top(t) = calls[t][Len(calls[t])]
  BY DEF Top, Last
<1> QED BY <1>1, <1>2, <1>3, ElementOfSeq DEF Safe

\* The frames that a step puts in the place of another.
LEMMA ChildTaken ==
  ASSUME NEW f \in Frames, NEW c
  PROVE  LET g == [f EXCEPT !.children = @ \ {c}]
         IN  g \in Frames /\ g.scope = f.scope /\ g.children = f.children \ {c} /\ g.n = f.n /\ g.raised = f.raised
BY DEF Frames

\* A frame with another count.
LEMMA Counted ==
  ASSUME NEW f \in Frames, NEW n \in Nat
  PROVE  LET g == [f EXCEPT !.n = n]
         IN  g \in Frames /\ g.scope = f.scope /\ g.children = f.children /\ g.n = n /\ g.raised = f.raised
BY DEF Frames

\* A frame with one entry less to go.
LEMMA Stepped ==
  ASSUME NEW f \in Frames, f.n \in Nat \ {0}, NEW fails \in BOOLEAN
  PROVE  LET g == [f EXCEPT !.n = @ - 1, !.raised = @ \/ fails]
         IN  /\ g \in Frames /\ g.scope = f.scope /\ g.children = f.children /\ g.n = f.n - 1
             /\ g.raised = (f.raised \/ fails)
<1>1. f.n - 1 \in Nat /\ (f.raised \/ fails) \in BOOLEAN
  OBVIOUS
<1> QED BY <1>1 DEF Frames

\* A frame stays safe while nothing but the set of disposed scopes changes.
LEMMA FrameKept ==
  ASSUME NEW f, FrameSafe(f), UNCHANGED <<keyOf, notified, held, owner, lists>>,
         Closed' = Closed, Scopes' = Scopes, disposed \subseteq disposed'
  PROVE  FrameSafe(f)'
BY DEF FrameSafe

\* What the frames become when t takes the next child.
LEMMA NextChildTaken ==
  ASSUME Safe, NEW t \in Tasks, NextChild(t)
  PROVE  \E c \in Top(t).children, f \in Frames :
            /\ UNCHANGED <<treeVars, listVars, notified>>
            /\ disposed' = disposed \cup {c} /\ running' \in Tasks \cup {Nobody}
            /\ f.scope = Top(t).scope /\ f.children = Top(t).children \ {c}
            /\ f.n = Top(t).n /\ f.raised = Top(t).raised
            /\ calls' \in [Tasks -> Seq(Frames)]
            /\ \A u \in Tasks : DOMAIN calls'[u] =
                  IF u = t /\ c \notin disposed THEN 1..(Len(calls[t]) + 1) ELSE DOMAIN calls[u]
            /\ \A u \in Tasks : \A i \in DOMAIN calls[u] :
                  calls'[u][i] = IF u = t /\ i = Len(calls[t]) THEN f ELSE calls[u][i]
            /\ c \notin disposed => calls'[t][Len(calls[t]) + 1] = Frame(c)
<1>1. Typed /\ disposed \subseteq Scopes /\ calls[t] # <<>>
  BY DEF Safe, Filed, NextChild, Turn
<1>2. Top(t) \in Frames /\ Top(t).children \subseteq Scopes
  BY <1>1, TopFacts DEF FrameSafe
<1>c. PICK c \in Top(t).children :
           /\ disposed' = disposed \cup {c}
           /\ Continue(t, Append(Front(calls[t]), [Top(t) EXCEPT !.children = @ \ {c}])
                                  \o (IF c \in disposed THEN <<>> ELSE <<Frame(c)>>))
  BY DEF NextChild
<1>3. UNCHANGED <<treeVars, listVars, notified>>
      /\ calls' = [calls EXCEPT ![t] = Append(Front(calls[t]), [Top(t) EXCEPT !.children = @ \ {c}])
                                  \o (IF c \in disposed THEN <<>> ELSE <<Frame(c)>>)]
      /\ disposed' = disposed \cup {c} /\ running' \in Tasks \cup {Nobody}
  BY <1>c DEF NextChild, Continue
<1>f. PICK f : f = [Top(t) EXCEPT !.children = @ \ {c}]
  OBVIOUS
<1>4. f \in Frames /\ f.scope = Top(t).scope /\ f.children = Top(t).children \ {c}
      /\ f.n = Top(t).n /\ f.raised = Top(t).raised
  BY <1>2, <1>f, ChildTaken
<1>5. CASE c \in disposed
  <2>1. Append(Front(calls[t]), f) \o <<>> = Append(Front(calls[t]), f)
    <3>1. calls[t] \in Seq(Frames)
      BY <1>1 DEF Typed
    <3>2. Front(calls[t]) \in Seq(Frames)
      BY <1>1, <3>1, FrontFacts
    <3>3. Append(Front(calls[t]), f) \in Seq(Frames)
      BY <1>4, <3>2, AppendProperties
    <3> QED BY <3>3, ConcatEmptySeq
  <2>2. Replaces(t, f)
    BY <1>3, <1>5, <1>f, <2>1 DEF Replaces
  <2>3. /\ calls' \in [Tasks -> Seq(Frames)]
        /\ \A u \in Tasks : DOMAIN calls'[u] = DOMAIN calls[u]
        /\ \A u \in Tasks : \A i \in DOMAIN calls[u] :
              calls'[u][i] = IF u = t /\ i = Len(calls[t]) THEN f ELSE calls[u][i]
    BY <1>1, <1>4, <2>2, Replaced
  <2> QED BY <1>3, <1>4, <1>5, <2>3
<1>6. CASE c \notin disposed
  <2>g. PICK g : g = Frame(c)
    OBVIOUS
  <2>1. g \in Frames
    BY <1>1, <1>2, <2>g, FrameFacts
  <2>2. Grows(t, f, g)
    BY <1>3, <1>6, <1>f, <2>g DEF Grows
  <2>3. /\ calls' \in [Tasks -> Seq(Frames)]
        /\ \A u \in Tasks : DOMAIN calls'[u] = IF u = t THEN 1..(Len(calls[t]) + 1) ELSE DOMAIN calls[u]
        /\ \A u \in Tasks : \A i \in DOMAIN calls[u] :
              calls'[u][i] = IF u = t /\ i = Len(calls[t]) THEN f ELSE calls[u][i]
        /\ calls'[t][Len(calls[t]) + 1] = g
    BY <1>1, <1>4, <2>1, <2>2, Grown
  <2> QED BY <1>3, <1>4, <1>6, <2>3, <2>g
<1> QED BY <1>5, <1>6

\* A child that is disposed by now gets no second frame.
LEMMA NextChildSafe ==
  ASSUME Safe, NEW t \in Tasks, NextChild(t)
  PROVE  Safe'
<1>1. Typed /\ Filed /\ Once /\ calls[t] # <<>>
  BY DEF Safe, NextChild, Turn
<1>m. PICK m : m = Len(calls[t])
  OBVIOUS
<1>2. Top(t) \in Frames /\ Top(t) = calls[t][m] /\ FrameSafe(Top(t)) /\ m \in DOMAIN calls[t]
      /\ DOMAIN calls[t] = 1..m /\ m \in Nat
  BY <1>1, <1>m, TopFacts
<1>3. PICK c \in Top(t).children, f \in Frames :
            /\ UNCHANGED <<treeVars, listVars, notified>>
            /\ disposed' = disposed \cup {c} /\ running' \in Tasks \cup {Nobody}
            /\ f.scope = Top(t).scope /\ f.children = Top(t).children \ {c}
            /\ f.n = Top(t).n /\ f.raised = Top(t).raised
            /\ calls' \in [Tasks -> Seq(Frames)]
            /\ \A u \in Tasks : DOMAIN calls'[u] = IF u = t /\ c \notin disposed THEN 1..(m + 1) ELSE DOMAIN calls[u]
            /\ \A u \in Tasks : \A i \in DOMAIN calls[u] :
                  calls'[u][i] = IF u = t /\ i = m THEN f ELSE calls[u][i]
            /\ c \notin disposed => calls'[t][m + 1] = Frame(c)
  BY <1>m, NextChildTaken
<1>4. disposed \subseteq Scopes /\ Closed \subseteq disposed /\ notified \subseteq Closed /\ c \in Scopes
  BY <1>1, <1>2 DEF Filed, FrameSafe
<1>g. PICK g : g = Frame(c)
  OBVIOUS
<1>5. /\ g \in Frames /\ g.scope = c /\ g.n = 0 /\ g.children \subseteq Scopes
      /\ \A x \in g.children : Parent[keyOf[x]] = keyOf[c]
  BY <1>1, <1>4, <1>g, FrameFacts
<1>6. \A u \in Tasks : \A i \in DOMAIN calls'[u] :
         \/ i \in DOMAIN calls[u] /\ ~(u = t /\ i = m) /\ calls'[u][i] = calls[u][i]
         \/ u = t /\ i = m /\ calls'[u][i] = f
         \/ u = t /\ i = m + 1 /\ c \notin disposed /\ calls'[u][i] = g
  BY <1>2, <1>3, <1>g
<1>7. /\ Typed' /\ Filed' /\ Scopes' = Scopes /\ Closed' = Closed
      /\ \A u \in Tasks : \A i \in DOMAIN calls[u], w \in Tasks : \A j \in DOMAIN calls'[w] :
             calls'[w][j] = calls[u][i] => FrameSafe(calls[w][j])'
  BY <1>3, <1>4, Kept
<1>8. UNCHANGED <<keyOf, notified, held, owner, lists>>
  BY <1>3 DEF treeVars, listVars
<1>9. FrameSafe(f)'
  <2>1. FrameSafe(f)
    BY <1>2, <1>3 DEF FrameSafe
  <2> QED BY <1>3, <1>7, <1>8, <2>1, FrameKept
<1>10. c \notin disposed => FrameSafe(g)'
  BY <1>3, <1>4, <1>5, <1>7, <1>8 DEF FrameSafe
<1>11. ASSUME NEW u \in Tasks, NEW i \in DOMAIN calls'[u]
       PROVE  FrameSafe(calls[u][i])'
  <2>1. CASE i \in DOMAIN calls[u] /\ calls'[u][i] = calls[u][i]
    BY <1>7, <2>1
  <2>2. CASE calls'[u][i] = f
    BY <1>9, <2>2 DEF FrameSafe
  <2>3. CASE c \notin disposed /\ calls'[u][i] = g
    BY <1>10, <2>3 DEF FrameSafe
  <2> QED BY <1>6, <2>1, <2>2, <2>3
<1>12. Once'
  <2>1. c \notin disposed => \A u \in Tasks : \A i \in DOMAIN calls[u] : calls[u][i].scope # c
    BY DEF Safe, FrameSafe
  <2>2. \A u \in Tasks : \A i \in DOMAIN calls'[u] :
           \/ i \in DOMAIN calls[u] /\ calls'[u][i].scope = calls[u][i].scope
           \/ u = t /\ i = m + 1 /\ c \notin disposed /\ calls'[u][i].scope = c
    BY <1>2, <1>3, <1>5, <1>6
  <2> QED BY <1>1, <2>1, <2>2 DEF Once
<1> QED BY <1>3, <1>7, <1>11, <1>12 DEF Safe

\* Every frame keeps its scope, its children and its fate.
FramesKept ==
    \A t \in Tasks :
        /\ DOMAIN calls'[t] = DOMAIN calls[t]
        /\ \A i \in DOMAIN calls[t] :
              /\ calls'[t][i].scope = calls[t][i].scope
              /\ calls'[t][i].children = calls[t][i].children
              /\ calls'[t][i].raised = calls[t][i].raised

\* When a list is closed all it holds stands before the end, where unwinding begins.
LEMMA CloseSafe ==
  ASSUME Safe, NEW t \in Tasks, Close(t)
  PROVE  /\ Safe' /\ FramesKept
         /\ \A x \in Scopes : closedAt'[x] = IF x = Top(t).scope THEN Len(keyOf) ELSE closedAt[x]
<1>1. Typed /\ Filed /\ Once /\ calls[t] # <<>>
  BY DEF Safe, Close, Turn
<1>m. PICK m : m = Len(calls[t])
  OBVIOUS
<1>2. Top(t) \in Frames /\ Top(t) = calls[t][m] /\ FrameSafe(Top(t)) /\ m \in DOMAIN calls[t]
      /\ DOMAIN calls[t] = 1..m /\ m \in Nat
  BY <1>1, <1>m, TopFacts
<1>s. PICK s : s = Top(t).scope
  OBVIOUS
<1>f. PICK f : f = [Top(t) EXCEPT !.n = Len(lists[s])]
  OBVIOUS
<1>3. UNCHANGED <<keyOf, order, tracked, disposed, lists, owner, held, notified>>
      /\ closedAt' = [closedAt EXCEPT ![s] = Len(keyOf)] /\ s \notin Closed /\ Top(t).children = {}
      /\ Replaces(t, f) /\ running' \in Tasks \cup {Nobody}
  BY <1>f, <1>s DEF Close, Continue, Replaces, treeVars
<1>4. disposed \subseteq Scopes /\ Closed \subseteq disposed /\ notified \subseteq Closed /\ s \in disposed \ notified
  BY <1>1, <1>2, <1>s DEF Filed, FrameSafe
<1>5. /\ Len(keyOf) \in Nat \ {0} /\ Scopes = 1..Len(keyOf) /\ DOMAIN closedAt = Scopes
      /\ lists[s] \in Seq(Nat) /\ Len(lists[s]) \in Nat /\ DOMAIN lists[s] = 1..Len(lists[s])
  <2>1. /\ keyOf \in Seq(Keys) /\ closedAt \in Seq(0..Len(keyOf)) /\ Len(closedAt) = Len(keyOf)
        /\ lists \in Seq(Seq(Nat)) /\ Len(lists) = Len(keyOf)
    BY <1>1 DEF Typed
  <2>2. Len(keyOf) \in Nat /\ Scopes = 1..Len(keyOf) /\ DOMAIN closedAt = Scopes /\ DOMAIN lists = Scopes
    BY <2>1, LenProperties DEF Scopes
  <2>3. lists[s] \in Seq(Nat)
    BY <1>4, <2>1, <2>2, ElementOfSeq
  <2> QED BY <1>4, <2>2, <2>3, LenProperties
<1>6. f \in Frames /\ f.scope = s /\ f.children = {} /\ f.n = Len(lists[s]) /\ f.raised = Top(t).raised
  BY <1>2, <1>3, <1>5, <1>f, <1>s, Counted
<1>7. /\ calls' \in [Tasks -> Seq(Frames)]
      /\ \A u \in Tasks : DOMAIN calls'[u] = DOMAIN calls[u]
      /\ \A u \in Tasks : \A i \in DOMAIN calls[u] :
            calls'[u][i] = IF u = t /\ i = m THEN f ELSE calls[u][i]
  BY <1>1, <1>3, <1>6, <1>m, Replaced
<1>8. /\ closedAt' \in Seq(0..Len(keyOf)) /\ Len(closedAt') = Len(keyOf)
      /\ \A x \in Scopes : closedAt'[x] = IF x = s THEN Len(keyOf) ELSE closedAt[x]
  <2>1. Len(keyOf) \in 0..Len(keyOf) /\ s \in DOMAIN closedAt
    BY <1>4, <1>5
  <2>2. closedAt \in Seq(0..Len(keyOf)) /\ Len(closedAt) = Len(keyOf)
    BY <1>1 DEF Typed
  <2> QED BY <1>3, <1>5, <2>1, <2>2, ExceptSeq
<1>9. Scopes' = Scopes /\ Closed' = Closed \cup {s} /\ Effects' = Effects
  <2>1. Scopes' = Scopes /\ Effects' = Effects
    BY <1>3 DEF Scopes, Effects
  <2>2. Closed' = Closed \cup {s}
    <3>1. ASSUME NEW x \in Scopes PROVE x \in Closed' <=> x \in Closed \/ x = s
      <4>1. CASE x = s
        BY <1>4, <1>5, <1>8, <2>1, <4>1 DEF Closed
      <4>2. CASE x # s
        BY <1>8, <2>1, <4>2 DEF Closed
      <4> QED BY <4>1, <4>2
    <3>2. Closed \subseteq Scopes /\ Closed' \subseteq Scopes /\ s \in Scopes
      BY <1>4, <2>1 DEF Closed
    <3> QED BY <3>1, <3>2
  <2> QED BY <2>1, <2>2
<1>10. Typed'
  BY <1>1, <1>3, <1>7, <1>8, <1>9 DEF Typed
<1>11. Filed'
  BY <1>1, <1>3, <1>4, <1>9 DEF Filed
<1>12. Once'
  <2>1. \A u \in Tasks : \A i \in DOMAIN calls[u] : calls'[u][i].scope = calls[u][i].scope
    BY <1>2, <1>6, <1>7, <1>s
  <2> QED BY <1>1, <1>7, <2>1 DEF Once
<1>13. ASSUME NEW u \in Tasks, NEW i \in DOMAIN calls'[u]
       PROVE  FrameSafe(calls[u][i])'
  <2>1. CASE u = t /\ i = m
    <3>1. \A e \in held : owner[e].scope = s => owner[e].index <= Len(lists[s])
      BY <1>1, <1>5 DEF Filed
    <3>2. FrameSafe(f)'
      BY <1>3, <1>4, <1>6, <1>9, <3>1 DEF FrameSafe
    <3>3. calls'[u][i] = f
      BY <1>2, <1>7, <2>1
    <3> QED BY <3>2, <3>3 DEF FrameSafe
  <2>2. CASE ~(u = t /\ i = m)
    <3>g. PICK g : g = calls[u][i]
      OBVIOUS
    <3>1. calls'[u][i] = g /\ FrameSafe(g) /\ i \in DOMAIN calls[u]
      BY <1>7, <2>2, <3>g DEF Safe
    <3>2. g.scope # s
      BY <1>1, <1>2, <1>s, <2>2, <3>1, <3>g DEF Once
    <3>3. FrameSafe(g)'
      BY <1>3, <1>9, <3>1, <3>2 DEF FrameSafe
    <3> QED BY <3>1, <3>3 DEF FrameSafe
  <2> QED BY <2>1, <2>2
<1>14. FramesKept
  BY <1>2, <1>3, <1>6, <1>7, <1>s DEF FramesKept
<1> QED BY <1>8, <1>10, <1>11, <1>12, <1>13, <1>14, <1>s DEF Safe

\* The entry that is released is the one behind which nothing is held.
LEMMA RunDisposerSafe ==
  ASSUME Safe, NEW t \in Tasks, RunDisposer(t)
  PROVE  Safe' /\ (Raising = FALSE => FramesKept)
<1>1. Typed /\ Filed /\ Once /\ calls[t] # <<>>
  BY DEF Safe, RunDisposer, Turn
<1>m. PICK m : m = Len(calls[t])
  OBVIOUS
<1>2. Top(t) \in Frames /\ Top(t) = calls[t][m] /\ FrameSafe(Top(t)) /\ m \in DOMAIN calls[t]
      /\ DOMAIN calls[t] = 1..m /\ m \in Nat
  BY <1>1, <1>m, TopFacts
<1>s. PICK s, n, e : s = Top(t).scope /\ n = Top(t).n /\ e = lists[s][n]
  OBVIOUS
<1>3. UNCHANGED <<keyOf, order, tracked, disposed, lists, closedAt, owner, notified>>
      /\ held' = held \ {e} /\ n > 0 /\ running' \in Tasks \cup {Nobody}
  BY <1>s DEF RunDisposer, treeVars
<1>r. PICK fails \in BOOLEAN :
         /\ Raising = FALSE => fails = FALSE
         /\ calls' = [calls EXCEPT ![t] = Append(Front(@), [Top(t) EXCEPT !.n = @ - 1, !.raised = @ \/ fails])]
  BY DEF RunDisposer
<1>f. PICK f : f = [Top(t) EXCEPT !.n = @ - 1, !.raised = @ \/ fails]
  OBVIOUS
<1>4. Replaces(t, f)
  BY <1>r, <1>f DEF Replaces
<1>5. n \in Nat \ {0} /\ n - 1 \in Nat
  BY <1>2, <1>3, <1>s DEF Frames
<1>6. s \in Closed /\ s \in disposed \ notified /\ Top(t).children = {} /\ n <= Len(lists[s])
      /\ \A x \in held : owner[x].scope = s => owner[x].index <= n
  BY <1>2, <1>5, <1>s, SMTT(30) DEF FrameSafe
<1>7. f \in Frames /\ f.scope = s /\ f.children = {} /\ f.n = n - 1 /\ f.raised = (Top(t).raised \/ fails)
  BY <1>2, <1>5, <1>6, <1>f, <1>r, <1>s, Stepped
<1>8. /\ calls' \in [Tasks -> Seq(Frames)]
      /\ \A u \in Tasks : DOMAIN calls'[u] = DOMAIN calls[u]
      /\ \A u \in Tasks : \A i \in DOMAIN calls[u] :
            calls'[u][i] = IF u = t /\ i = m THEN f ELSE calls[u][i]
  BY <1>1, <1>4, <1>7, <1>m, Replaced
<1>9. Scopes' = Scopes /\ Closed' = Closed /\ Effects' = Effects
  BY <1>3 DEF Scopes, Effects, Closed
<1>10. Typed'
  BY <1>1, <1>3, <1>8, <1>9 DEF Typed
<1>11. Filed'
  BY <1>1, <1>3, <1>9 DEF Filed
<1>12. Once'
  <2>1. \A u \in Tasks : \A i \in DOMAIN calls[u] : calls'[u][i].scope = calls[u][i].scope
    BY <1>2, <1>7, <1>8, <1>s
  <2> QED BY <1>1, <1>8, <2>1 DEF Once
<1>13. ASSUME NEW u \in Tasks, NEW i \in DOMAIN calls'[u]
       PROVE  FrameSafe(calls[u][i])'
  <2>1. CASE u = t /\ i = m
    <3>1. ASSUME NEW x \in held', owner[x].scope = s
          PROVE  owner[x].index <= n - 1
      <4>1. x \in held /\ x # e /\ lists[s][owner[x].index] = x /\ owner[x].index \in DOMAIN lists[s]
        BY <1>1, <1>3, <3>1 DEF Filed
      <4>2. owner[x].index # n /\ owner[x].index <= n
        BY <1>6, <1>s, <3>1, <4>1
      <4>3. owner[x].index \in Nat
        <5> DEFINE Places == [scope : Nat, index : Nat]
        <5>1. owner \in Seq(Places) /\ x \in DOMAIN owner
          BY <1>1, <4>1 DEF Typed, Filed, Effects
        <5> HIDE DEF Places
        <5>2. owner[x] \in Places
          BY <5>1, ElementOfSeq
        <5> QED BY <5>2 DEF Places
      <4> QED BY <1>5, <4>2, <4>3
    <3>2. n - 1 <= Len(lists[s])
      <4>1. Len(lists[s]) \in Nat
        BY <1>1, <1>6, ElementOfSeq, LenProperties DEF Typed, Filed, Scopes
      <4> QED BY <1>5, <1>6, <4>1
    <3>3. FrameSafe(f)'
      BY <1>3, <1>6, <1>7, <1>9, <3>1, <3>2 DEF FrameSafe
    <3>4. calls'[u][i] = f
      BY <1>2, <1>8, <2>1
    <3> QED BY <3>3, <3>4 DEF FrameSafe
  <2>2. CASE ~(u = t /\ i = m)
    <3>g. PICK g : g = calls[u][i]
      OBVIOUS
    <3>1. calls'[u][i] = g /\ FrameSafe(g)
      BY <1>8, <2>2, <3>g DEF Safe
    <3>3. FrameSafe(g)'
      BY <1>3, <1>9, <3>1 DEF FrameSafe
    <3> QED BY <3>1, <3>3 DEF FrameSafe
  <2> QED BY <2>1, <2>2
<1>14. Raising = FALSE => FramesKept
  <2>1. Raising = FALSE => f.raised = Top(t).raised
    <3>1. Top(t).raised \in BOOLEAN
      BY <1>2 DEF Frames
    <3> QED BY <1>7, <1>r, <3>1
  <2> QED BY <1>2, <1>6, <1>7, <1>8, <1>s, <2>1 DEF FramesKept
<1> QED BY <1>10, <1>11, <1>12, <1>13, <1>14 DEF Safe

\* What a notified scope held is gone: its entries have all been unwound.
LEMMA FinishSafe ==
  ASSUME Safe, NEW t \in Tasks, Finish(t)
  PROVE  Safe'
<1>1. Typed /\ Filed /\ Once /\ calls[t] # <<>>
  BY DEF Safe, Finish, Turn
<1>m. PICK m : m = Len(calls[t])
  OBVIOUS
<1>2. Top(t) \in Frames /\ Top(t) = calls[t][m] /\ FrameSafe(Top(t)) /\ m \in DOMAIN calls[t]
      /\ DOMAIN calls[t] = 1..m /\ m \in Nat
  BY <1>1, <1>m, TopFacts
<1>s. PICK s, raised : s = Top(t).scope /\ raised = Top(t).raised
  OBVIOUS
<1>3. UNCHANGED <<keyOf, order, tracked, disposed, closedAt, owner, held>>
      /\ lists' = [lists EXCEPT ![s] = <<>>] /\ Top(t).n = 0 /\ s \in Closed
      /\ calls' = [calls EXCEPT ![t] = IF raised THEN <<>> ELSE Front(calls[t])]
      /\ running' \in Tasks \cup {Nobody}
      /\ notified' = IF raised THEN notified ELSE notified \cup {s}
  BY <1>s DEF Finish, Continue, treeVars
<1>4. raised \in BOOLEAN
  BY <1>2, <1>s DEF Frames
<1>5. /\ s \in disposed \ notified
      /\ \A x \in held : owner[x].scope # s
  <2>1. s \in disposed \ notified /\ \A x \in held : owner[x].scope = s => owner[x].index <= 0
    BY <1>2, <1>3, <1>s DEF FrameSafe
  <2>2. ASSUME NEW x \in held, owner[x].scope = s
        PROVE  FALSE
    <3>1. owner[x].index \in DOMAIN lists[s] /\ s \in Scopes
      BY <1>1, <2>2 DEF Filed, Typed
    <3>2. lists[s] \in Seq(Nat)
      BY <1>1, <3>1, ElementOfSeq, LenProperties DEF Typed, Scopes
    <3>3. owner[x].index \in 1..Len(lists[s]) /\ Len(lists[s]) \in Nat
      BY <3>1, <3>2, LenProperties
    <3> QED BY <2>1, <2>2, <3>3
  <2> QED BY <2>1, <2>2
<1>6. /\ calls' \in [Tasks -> Seq(Frames)]
      /\ \A u \in Tasks \ {t} : calls'[u] = calls[u]
      /\ DOMAIN calls'[t] \subseteq 1..(m - 1)
      /\ \A u \in Tasks : DOMAIN calls'[u] \subseteq DOMAIN calls[u]
      /\ \A u \in Tasks : \A i \in DOMAIN calls'[u] : calls'[u][i] = calls[u][i]
  BY <1>1, <1>2, <1>3, <1>4, <1>m, Returned
<1>7. Scopes' = Scopes /\ Closed' = Closed /\ Effects' = Effects /\ s \in Scopes
  BY <1>1, <1>3, <1>5 DEF Scopes, Effects, Closed, Filed
<1>8. /\ lists' \in Seq(Seq(Nat)) /\ Len(lists') = Len(lists)
      /\ \A x \in Scopes : lists'[x] = IF x = s THEN <<>> ELSE lists[x]
  <2>1. lists \in Seq(Seq(Nat)) /\ DOMAIN lists = Scopes /\ <<>> \in Seq(Nat)
    BY <1>1, LenProperties DEF Typed, Scopes
  <2> QED BY <1>3, <1>7, <2>1, ExceptSeq
<1>9. Typed'
  BY <1>1, <1>3, <1>6, <1>7, <1>8 DEF Typed
<1>10. Filed'
  <2>1. /\ held' \subseteq Effects' /\ disposed' \subseteq Scopes' /\ Closed' \subseteq disposed'
        /\ notified' \subseteq Closed'
    BY <1>1, <1>3, <1>7 DEF Filed
  <2>2. \A x \in held : owner[x].scope \in Scopes \ {s}
    BY <1>1, <1>5 DEF Filed, Typed
  <2>3. \A x \in notified' : lists'[x] = <<>>
    BY <1>1, <1>3, <1>8 DEF Filed
  <2> QED BY <1>1, <1>3, <1>8, <2>1, <2>2, <2>3 DEF Filed
<1>11. Once'
  BY <1>1, <1>6 DEF Once
<1>12. ASSUME NEW u \in Tasks, NEW i \in DOMAIN calls'[u]
       PROVE  FrameSafe(calls[u][i])'
  <2>g. PICK g : g = calls[u][i]
    OBVIOUS
  <2>1. calls'[u][i] = g /\ FrameSafe(g) /\ i \in DOMAIN calls[u]
    BY <1>6, <2>g DEF Safe
  <2>2. g.scope # s
    <3>1. ~(u = t /\ i = m)
      BY <1>2, <1>6
    <3> QED BY <1>1, <1>2, <1>s, <2>1, <2>g, <3>1 DEF Once
  <2>3. g.scope \in Scopes
    BY <1>1, <2>1 DEF FrameSafe, Filed
  <2>4. FrameSafe(g)'
    BY <1>3, <1>7, <1>8, <2>1, <2>2, <2>3 DEF FrameSafe
  <2> QED BY <2>1, <2>4 DEF FrameSafe
<1> QED BY <1>9, <1>10, <1>11, <1>12 DEF Safe

\* Every step keeps Safe.
LEMMA SafeStep ==
  ASSUME Safe, [Next]_vars
  PROVE  Safe'
<1>1. CASE Next
  BY <1>1, MintSafe, RegisterSafe, HandleSafe, DisposeSafe, NextChildSafe, CloseSafe, RunDisposerSafe, FinishSafe
     DEF Next
<1>2. CASE UNCHANGED vars
  <2>1. UNCHANGED <<keyOf, order, tracked, disposed, lists, closedAt, owner, held, calls, running, notified>>
    BY <1>2 DEF vars, treeVars, listVars, callVars
  <2>2. Scopes' = Scopes /\ Effects' = Effects /\ Closed' = Closed
    BY <2>1 DEF Scopes, Effects, Closed
  <2>3. Typed' /\ Filed' /\ Once'
    BY <2>1, <2>2 DEF Safe, Typed, Filed, Once
  <2>4. \A t \in Tasks : \A i \in DOMAIN calls[t] : FrameSafe(calls[t][i])'
    BY <2>1, <2>2 DEF Safe, FrameSafe
  <2> QED BY <2>1, <2>3, <2>4 DEF Safe
<1> QED BY <1>1, <1>2

\* The invariant TLC checks.
LEMMA SafeTyped ==
  ASSUME Safe
  PROVE  TypeOK
<1>1. Typed /\ Filed
  BY DEF Safe
<1>2. DOMAIN lists = Scopes /\ DOMAIN closedAt = Scopes
  BY <1>1, LenProperties DEF Typed, Scopes
<1>3. \A t \in Tasks : \A i \in DOMAIN calls[t] :
         /\ calls[t][i].scope \in disposed
         /\ calls[t][i].n \in 0..Len(lists[calls[t][i].scope])
  <2> TAKE t \in Tasks
  <2> TAKE i \in DOMAIN calls[t]
  <2>1. FrameSafe(calls[t][i]) /\ calls[t] \in Seq(Frames)
    BY <1>1 DEF Safe, Typed
  <2>2. calls[t][i] \in Frames
    BY <2>1, ElementOfSeq
  <2>3. calls[t][i].scope \in disposed /\ calls[t][i].scope \in Scopes /\ calls[t][i].n \in Nat
    BY <1>1, <2>1, <2>2 DEF FrameSafe, Filed, Frames
  <2>4. Len(lists[calls[t][i].scope]) \in Nat
    BY <1>1, <1>2, <2>3, ElementOfSeq, LenProperties DEF Typed
  <2>5. calls[t][i].n <= Len(lists[calls[t][i].scope])
    BY <2>1, <2>3, <2>4 DEF FrameSafe
  <2> QED BY <2>3, <2>4, <2>5
<1> QED BY <1>1, <1>2, <1>3 DEF Typed, Filed, TypeOK

\* What no step of the tree does: to end a disposal, to put anything in the
\* list of a notified scope, or to be about to dispose of one again.
LEMMA SafeForGood ==
  ASSUME Safe, [Next]_vars
  PROVE  ForGood
<1>1. Typed /\ Filed /\ Safe'
  BY SafeStep, Zenon DEF Safe
<1>2. disposed \subseteq disposed' /\ notified \subseteq notified'
  BY Zenon DEF Next, vars, treeVars, listVars, callVars, Mint, Register, Handle, Dispose, NextChild, Close, RunDisposer, Finish
<1>3. \A s \in notified : lists'[s] = <<>>
  BY <1>1, <1>2 DEF Safe, Filed
<1>4. ASSUME NEW t \in Tasks, calls'[t] # <<>>
      PROVE  Last(calls'[t]).scope \notin notified
  <2>1. calls'[t] \in Seq(Frames)
    BY <1>1 DEF Safe, Typed
  <2>2. Len(calls'[t]) \in DOMAIN calls'[t]
    BY <1>4, <2>1, EmptySeq, LenProperties
  <2>3. calls'[t][Len(calls'[t])].scope \notin notified'
    BY <1>1, <2>2 DEF Safe, FrameSafe
  <2> QED BY <1>2, <2>3 DEF Last
<1> QED BY <1>2, <1>3, <1>4 DEF ForGood

-----------------------------------------------------------------------------
(* Nested is inductive, given disposers that do not raise and scopes minted *)
(* under live ones.                                                         *)

\* Scopes, their keys, and the scope a key has now.
LEMMA KeyFacts ==
  ASSUME Typed
  PROVE  /\ Len(keyOf) \in Nat /\ Scopes = 1..Len(keyOf) /\ DOMAIN closedAt = Scopes
         /\ \A s \in Scopes : keyOf[s] \in Keys /\ closedAt[s] \in 0..Len(keyOf)
         /\ \A k \in Keys : tracked[k] # 0 => tracked[k] \in Scopes /\ keyOf[tracked[k]] = k
<1>1. /\ keyOf \in Seq(Keys) /\ closedAt \in Seq(0..Len(keyOf)) /\ Len(closedAt) = Len(keyOf)
  BY DEF Typed
<1>2. Len(keyOf) \in Nat /\ Scopes = 1..Len(keyOf) /\ DOMAIN closedAt = 1..Len(keyOf)
  BY <1>1, LenProperties DEF Scopes
<1>3. \A s \in Scopes : keyOf[s] \in Keys
  BY <1>1, <1>2, ElementOfSeq
<1>4. \A s \in Scopes : closedAt[s] \in 0..Len(keyOf)
  BY <1>1, <1>2, ElementOfSeq
<1> QED BY <1>2, <1>3, <1>4 DEF Typed

\* A live scope is the one of its key; its parent's is minted and older.
LEMMA LiveFacts ==
  ASSUME Forest, Safe, Nested, NEW x \in Scopes \ disposed
  PROVE  /\ tracked[keyOf[x]] = x /\ keyOf[x] \in Keys
         /\ Parent[keyOf[x]] # NoKey =>
               LET p == tracked[Parent[keyOf[x]]]
               IN  /\ Parent[keyOf[x]] \in Keys /\ p \in Scopes /\ keyOf[p] = Parent[keyOf[x]] /\ p < x
                   /\ p \in disposed => Snapped(p, x)
<1>1. Typed /\ Filed
  BY DEF Safe
<1>2. keyOf[x] \in Keys /\ x \notin notified
  BY <1>1, KeyFacts DEF Filed
<1>3. tracked[keyOf[x]] = x
  BY <1>2 DEF Nested, Upheld
<1>4. ASSUME Parent[keyOf[x]] # NoKey
      PROVE  Parent[keyOf[x]] \in Keys
  BY <1>2, <1>4 DEF Forest
<1> QED BY <1>1, <1>2, <1>3, <1>4, KeyFacts DEF Nested, Upheld

\* A step that leaves the scope, the children and the fate of every frame.
LEMMA NestedKept ==
  ASSUME Nested, UNCHANGED <<keyOf, tracked, disposed, notified>>, FramesKept,
         \A s \in notified : closedAt'[s] = closedAt[s]
  PROVE  Nested'
<1>1. Scopes' = Scopes
  BY DEF Scopes
<1>2. \A s : Framed(s) => Framed(s)'
  BY DEF Framed, FramesKept
<1>3. \A s, c : Snapped(s, c) => Snapped(s, c)'
  BY DEF Snapped, FramesKept
<1>4. Quiet'
  BY <1>2 DEF Nested, Quiet, FramesKept
<1>5. Upheld'
  BY <1>1, <1>3 DEF Nested, Upheld
<1> QED BY <1>4, <1>5 DEF Nested

\* A scope is minted below a live one, or its key has no parent.
LEMMA MintNested ==
  ASSUME Forest, NestedMints = TRUE, Safe, Nested, NEW k \in Keys, Mint(k)
  PROVE  Nested'
<1>n. PICK n : n = Len(keyOf)
  OBVIOUS
<1>1. Typed /\ Filed
  BY DEF Safe
<1>2. /\ n \in Nat /\ Scopes = 1..n /\ Scopes' = 1..(n + 1)
      /\ \A s \in Scopes : keyOf'[s] = keyOf[s] /\ closedAt'[s] = closedAt[s]
      /\ keyOf'[n + 1] = k
      /\ \A c \in Keys : tracked'[c] = IF c = k THEN n + 1 ELSE tracked[c]
  BY <1>1, <1>n, Minted
<1>3. UNCHANGED <<disposed, calls, notified>>
      /\ (Parent[k] # NoKey => Live(Parent[k]))
      /\ (tracked[k] = 0 \/ tracked[k] \in notified)
  BY DEF Mint, callVars
<1>4. /\ \A s \in Scopes : keyOf[s] \in Keys /\ closedAt[s] \in 0..n
      /\ \A c \in Keys : tracked[c] # 0 => tracked[c] \in Scopes /\ keyOf[tracked[c]] = c
      /\ disposed \subseteq Scopes /\ notified \subseteq disposed
  BY <1>1, <1>n, KeyFacts DEF Filed
<1>5. \A t \in Tasks : \A i \in DOMAIN calls[t] : calls[t][i].scope \in Scopes \ notified
  BY <1>4 DEF Safe, FrameSafe
<1>6. Quiet'
  <2>1. \A s : Framed(s) => Framed(s)'
    BY <1>3 DEF Framed
  <2> QED BY <1>2, <1>3, <1>5, <2>1 DEF Nested, Quiet
<1>7. ASSUME NEW s \in Scopes'
      PROVE  LET q == tracked'[keyOf'[s]] IN q # 0 /\ (s # q => s \in notified' /\ closedAt'[s] < q)
  <2>1. CASE s = n + 1
    BY <1>2, <2>1
  <2>2. CASE s \in Scopes /\ keyOf[s] = k
    <3>1. tracked'[keyOf'[s]] = n + 1 /\ closedAt'[s] < n + 1
      BY <1>2, <1>4, <2>2
    <3>2. s \in notified
      BY <1>3, <2>2 DEF Nested, Upheld
    <3> QED BY <1>2, <1>3, <3>1, <3>2
  <2>3. CASE s \in Scopes /\ keyOf[s] # k
    BY <1>2, <1>3, <1>4, <2>3 DEF Nested, Upheld
  <2> QED BY <1>2, <2>1, <2>2, <2>3
<1>8. ASSUME NEW s \in Scopes' \ disposed', Parent[keyOf'[s]] # NoKey,
             NEW q, q = tracked'[Parent[keyOf'[s]]]
      PROVE  q # 0 /\ q < s /\ (q \in disposed' => Snapped(q, s)')
  <2>1. CASE s = n + 1
    <3>1. Live(Parent[k]) /\ Parent[k] \in Keys \ {k}
      BY <1>2, <1>3, <1>8, <2>1 DEF Forest
    <3>2. tracked'[Parent[k]] = tracked[Parent[k]] /\ tracked[Parent[k]] \in Scopes \ disposed
      BY <1>2, <1>4, <3>1 DEF Live
    <3>3. q = tracked[Parent[k]]
      BY <1>2, <1>8, <2>1, <3>2
    <3>4. q # 0 /\ q < s /\ q \notin disposed'
      BY <1>2, <1>3, <2>1, <3>2, <3>3
    <3> QED BY <3>4
  <2>2. CASE s \in Scopes
    <3>p. PICK a, p : a = Parent[keyOf[s]] /\ p = tracked[a]
      OBVIOUS
    <3>1. a \in Keys /\ p \in Scopes /\ p < s /\ (p \in disposed => Snapped(p, s))
      BY <1>2, <1>3, <1>8, <2>2, <3>p, LiveFacts
    <3>2. a # k
      <4>1. SUFFICES ASSUME a = k
                     PROVE  FALSE
        OBVIOUS
      <4>2. p \in notified
        BY <1>2, <1>3, <3>1, <3>p, <4>1
      <4> QED BY <1>4, <1>5, <3>1, <4>2 DEF Snapped
    <3>3. Snapped(p, s) => Snapped(p, s)'
      BY <1>3 DEF Snapped
    <3>4. Parent[keyOf'[s]] = a /\ tracked'[a] = p
      BY <1>2, <2>2, <3>1, <3>2, <3>p
    <3>5. q = p /\ p # 0
      BY <1>2, <1>8, <3>1, <3>4
    <3> QED BY <1>3, <3>1, <3>3, <3>5
  <2> QED BY <1>2, <2>1, <2>2
<1>9. Upheld'
  BY <1>7, <1>8 DEF Upheld, Snapped
<1> QED BY <1>6, <1>9 DEF Nested

\* Whoever lives under a scope when it is disposed is among the children.
LEMMA Taken ==
  ASSUME Forest, Safe, Nested, NEW s \in Scopes, NEW x \in Scopes \ disposed,
         Parent[keyOf[x]] # NoKey, tracked[Parent[keyOf[x]]] = s
  PROVE  x \in Frame(s).children
<1>1. Typed /\ disposed \subseteq Scopes
  BY DEF Safe, Filed
<1>2. tracked[keyOf[x]] = x /\ keyOf[s] = Parent[keyOf[x]]
  BY LiveFacts
<1> QED BY <1>1, <1>2, FrameFacts

\* The frame of a scope that is disposed has all its live children.
LEMMA DisposeNested ==
  ASSUME Forest, Safe, Nested, NEW t \in Tasks, NEW s \in Scopes, Dispose(t, s)
  PROVE  Nested'
<1>1. Typed /\ Filed
  BY DEF Safe
<1>2. UNCHANGED <<keyOf, tracked, closedAt, notified>> /\ calls[t] = <<>>
      /\ disposed' = disposed \cup {s} /\ calls' = [calls EXCEPT ![t] = <<Frame(s)>>]
  BY DEF Dispose, Continue, treeVars, listVars
<1>g. PICK g : g = Frame(s)
  OBVIOUS
<1>3. g \in Frames /\ g.scope = s /\ g.raised = FALSE
  BY <1>1, <1>g, FrameFacts DEF Filed
<1>4. /\ \A u \in Tasks : DOMAIN calls'[u] = IF u = t THEN {1} ELSE DOMAIN calls[u]
      /\ \A u \in Tasks \ {t} : calls'[u] = calls[u]
      /\ DOMAIN calls[t] = {} /\ calls'[t][1] = g
  BY <1>1, <1>2, <1>3, <1>g, Begun
<1>5. Quiet'
  <2>1. \A x \in disposed : Framed(x) => Framed(x)'
    BY <1>4 DEF Framed
  <2>2. Framed(s)'
    BY <1>3, <1>4 DEF Framed
  <2>3. \A u \in Tasks : \A i \in DOMAIN calls'[u] : ~calls'[u][i].raised
    BY <1>3, <1>4 DEF Nested, Quiet
  <2>4. \A x \in disposed' : x \in notified' \/ Framed(x)'
    BY <1>2, <2>1, <2>2 DEF Nested, Quiet
  <2>5. ASSUME NEW u \in Tasks, NEW i \in DOMAIN calls'[u], NEW j \in DOMAIN calls'[u], i < j
        PROVE  keyOf'[calls'[u][i].scope] \in Ancestors[keyOf'[calls'[u][j].scope]]
    <3>1. u # t
      BY <1>4, <2>5
    <3> QED BY <1>2, <1>4, <2>5, <3>1 DEF Nested, Quiet
  <2> QED BY <2>3, <2>4, <2>5 DEF Quiet
<1>6. ASSUME NEW x \in Scopes' \ disposed', Parent[keyOf[x]] # NoKey
      PROVE  LET p == tracked[Parent[keyOf[x]]] IN p # 0 /\ p < x /\ (p \in disposed' => Snapped(p, x)')
  <2>p. PICK p : p = tracked[Parent[keyOf[x]]]
    OBVIOUS
  <2>1. x \in Scopes \ disposed
    BY <1>2 DEF Scopes
  <2>2. p # 0 /\ p < x /\ (p \in disposed => Snapped(p, x))
    BY <1>6, <2>1, <2>p DEF Nested, Upheld
  <2>3. Snapped(p, x) => Snapped(p, x)'
    BY <1>4 DEF Snapped
  <2>4. p = s => Snapped(p, x)'
    <3>1. p = s => x \in g.children
      BY <1>6, <1>g, <2>1, <2>p, Taken
    <3> QED BY <1>3, <1>4, <3>1 DEF Snapped
  <2> QED BY <1>2, <2>2, <2>3, <2>4, <2>p
<1>7. Upheld'
  <2>1. Scopes' = Scopes
    BY <1>2 DEF Scopes
  <2> QED BY <1>2, <1>6, <2>1 DEF Nested, Upheld
<1> QED BY <1>5, <1>7 DEF Nested

\* A child leaves the snapshot when it is disposed, not before.
LEMMA NextChildNested ==
  ASSUME Forest, Safe, Nested, NEW t \in Tasks, NextChild(t)
  PROVE  Nested'
<1>1. Typed /\ Filed /\ calls[t] # <<>>
  BY DEF Safe, NextChild, Turn
<1>m. PICK m, s : m = Len(calls[t]) /\ s = Top(t).scope
  OBVIOUS
<1>2. Top(t) \in Frames /\ Top(t) = calls[t][m] /\ FrameSafe(Top(t)) /\ m \in DOMAIN calls[t]
      /\ DOMAIN calls[t] = 1..m /\ m \in Nat
  BY <1>1, <1>m, TopFacts
<1>3. PICK c \in Top(t).children, f \in Frames :
            /\ UNCHANGED <<keyOf, tracked, closedAt, notified>>
            /\ disposed' = disposed \cup {c}
            /\ f.scope = s /\ f.children = Top(t).children \ {c} /\ f.raised = Top(t).raised
            /\ \A u \in Tasks : DOMAIN calls'[u] = IF u = t /\ c \notin disposed THEN 1..(m + 1) ELSE DOMAIN calls[u]
            /\ \A u \in Tasks : \A i \in DOMAIN calls[u] :
                  calls'[u][i] = IF u = t /\ i = m THEN f ELSE calls[u][i]
            /\ c \notin disposed => calls'[t][m + 1] = Frame(c)
  BY <1>m, NextChildTaken DEF treeVars, listVars
<1>g. PICK g : g = Frame(c)
  OBVIOUS
<1>4. c \in Scopes /\ s \in Scopes /\ Parent[keyOf[c]] = keyOf[s] /\ g.scope = c /\ g.raised = FALSE
  BY <1>1, <1>2, <1>g, <1>m, FrameFacts DEF FrameSafe, Filed
<1>5. \A u \in Tasks : \A i \in DOMAIN calls[u] :
         /\ i \in DOMAIN calls'[u] /\ calls'[u][i].scope = calls[u][i].scope
         /\ calls[u][i].children \ {c} \subseteq calls'[u][i].children
         /\ ~calls'[u][i].raised
  <2>1. \A u \in Tasks : \A i \in DOMAIN calls[u] : ~calls[u][i].raised
    BY DEF Nested, Quiet
  <2> QED BY <1>2, <1>3, <1>m, <2>1
<1>6. \A u \in Tasks : \A i \in DOMAIN calls'[u] :
         i \in DOMAIN calls[u] \/ (u = t /\ i = m + 1 /\ c \notin disposed /\ calls'[u][i] = g)
  BY <1>2, <1>3, <1>g
<1>7. c \notin disposed => m + 1 \in DOMAIN calls'[t] /\ calls'[t][m + 1] = g
  BY <1>2, <1>3, <1>g
<1>8. Quiet'
  <2>1. \A x : Framed(x) => Framed(x)'
    BY <1>5 DEF Framed
  <2>2. c \notin disposed => Framed(c)'
    BY <1>4, <1>7 DEF Framed
  <2>3. \A u \in Tasks : \A i \in DOMAIN calls'[u] : ~calls'[u][i].raised
    BY <1>4, <1>5, <1>6
  <2>4. \A x \in disposed' : x \in notified' \/ Framed(x)'
    BY <1>3, <2>1, <2>2 DEF Nested, Quiet
  <2>5. ASSUME NEW u \in Tasks, NEW i \in DOMAIN calls'[u], NEW j \in DOMAIN calls'[u], i < j
        PROVE  keyOf'[calls'[u][i].scope] \in Ancestors[keyOf'[calls'[u][j].scope]]
    <3>1. CASE j \in DOMAIN calls[u]
      <4>1. i \in DOMAIN calls[u]
        BY <1>2, <1>6, <2>5, <3>1
      <4> QED BY <1>3, <1>5, <2>5, <3>1, <4>1 DEF Nested, Quiet
    <3>2. CASE j \notin DOMAIN calls[u]
      <4>1. u = t /\ j = m + 1 /\ calls'[u][j].scope = c
        BY <1>4, <1>6, <3>2
      <4>2. i \in 1..m
        BY <1>2, <1>6, <2>5, <4>1
      <4>3. keyOf[c] \in Keys /\ keyOf[s] \in Keys
        BY <1>1, <1>4, KeyFacts
      <4>4. keyOf[s] \in Ancestors[keyOf[c]] /\ Ancestors[keyOf[s]] \subseteq Ancestors[keyOf[c]]
        BY <1>4, <4>3 DEF Forest
      <4>5. i # m => keyOf[calls[t][i].scope] \in Ancestors[keyOf[s]]
        BY <1>2, <1>m, <4>2 DEF Nested, Quiet
      <4>6. calls'[t][i].scope = calls[t][i].scope /\ (i = m => calls[t][i].scope = s)
        BY <1>2, <1>5, <1>m, <4>2
      <4> QED BY <1>3, <4>1, <4>4, <4>5, <4>6
    <3> QED BY <3>1, <3>2
  <2> QED BY <2>3, <2>4, <2>5 DEF Quiet
<1>9. ASSUME NEW x \in Scopes' \ disposed', Parent[keyOf[x]] # NoKey
      PROVE  LET p == tracked[Parent[keyOf[x]]] IN p # 0 /\ p < x /\ (p \in disposed' => Snapped(p, x)')
  <2>p. PICK p : p = tracked[Parent[keyOf[x]]]
    OBVIOUS
  <2>1. x \in Scopes \ disposed /\ x # c
    BY <1>3 DEF Scopes
  <2>2. p # 0 /\ p < x /\ (p \in disposed => Snapped(p, x))
    BY <1>9, <2>1, <2>p DEF Nested, Upheld
  <2>3. Snapped(p, x) => Snapped(p, x)'
    BY <1>5, <2>1 DEF Snapped
  <2>4. p = c /\ c \notin disposed => Snapped(p, x)'
    <3>1. p = c => x \in g.children
      BY <1>4, <1>9, <1>g, <2>1, <2>p, Taken
    <3> QED BY <1>4, <1>7, <3>1 DEF Snapped
  <2> QED BY <1>3, <2>2, <2>3, <2>4, <2>p
<1>10. Upheld'
  <2>1. Scopes' = Scopes
    BY <1>3 DEF Scopes
  <2> QED BY <1>3, <1>9, <2>1 DEF Nested, Upheld
<1> QED BY <1>8, <1>10 DEF Nested

\* A scope is notified when no child of it is live.
LEMMA FinishNested ==
  ASSUME Safe, Nested, NEW t \in Tasks, Finish(t)
  PROVE  Nested'
<1>1. Typed /\ Filed /\ calls[t] # <<>>
  BY DEF Safe, Finish, Turn
<1>m. PICK m, s : m = Len(calls[t]) /\ s = Top(t).scope
  OBVIOUS
<1>2. Top(t) \in Frames /\ Top(t) = calls[t][m] /\ FrameSafe(Top(t)) /\ m \in DOMAIN calls[t]
      /\ DOMAIN calls[t] = 1..m /\ m \in Nat
  BY <1>1, <1>m, TopFacts
<1>3. ~Top(t).raised
  BY <1>2 DEF Nested, Quiet
<1>4. UNCHANGED <<keyOf, tracked, disposed, closedAt>> /\ s \in Closed
      /\ calls' = [calls EXCEPT ![t] = IF FALSE THEN <<>> ELSE Front(calls[t])]
      /\ notified' = notified \cup {s}
  BY <1>3, <1>m DEF Finish, Continue, treeVars
<1>5. /\ \A u \in Tasks \ {t} : calls'[u] = calls[u]
      /\ DOMAIN calls'[t] = 1..(m - 1)
      /\ \A u \in Tasks : DOMAIN calls'[u] \subseteq DOMAIN calls[u]
      /\ \A u \in Tasks : \A i \in DOMAIN calls'[u] : calls'[u][i] = calls[u][i]
  <2>1. FALSE \in BOOLEAN
    OBVIOUS
  <2> QED BY <1>1, <1>4, <1>m, <2>1, Returned
<1>6. Top(t).children = {}
  BY <1>2, <1>4, <1>m DEF FrameSafe
<1>7. \A u \in Tasks : \A i \in DOMAIN calls[u] : i \in DOMAIN calls'[u] \/ calls[u][i] = Top(t)
  BY <1>2, <1>5
<1>8. Quiet'
  <2>1. \A x \in disposed : Framed(x) => x = s \/ Framed(x)'
    BY <1>5, <1>7, <1>m DEF Framed
  <2>2. \A x \in disposed' : x \in notified' \/ Framed(x)'
    BY <1>4, <2>1 DEF Nested, Quiet
  <2>3. \A u \in Tasks : \A i \in DOMAIN calls'[u] : ~calls'[u][i].raised
    BY <1>5 DEF Nested, Quiet
  <2>4. \A u \in Tasks : \A i, j \in DOMAIN calls'[u] :
           i < j => keyOf[calls'[u][i].scope] \in Ancestors[keyOf[calls'[u][j].scope]]
    BY <1>5 DEF Nested, Quiet
  <2> QED BY <1>4, <2>2, <2>3, <2>4 DEF Quiet
<1>9. Upheld'
  <2>1. \A p, x : Snapped(p, x) => Snapped(p, x)'
    BY <1>5, <1>6, <1>7 DEF Snapped
  <2>2. Scopes' = Scopes
    BY <1>4 DEF Scopes
  <2> QED BY <1>4, <2>1, <2>2 DEF Nested, Upheld
<1> QED BY <1>8, <1>9 DEF Nested

\* Without exceptions, and with scopes minted under live ones, steps keep Nested.
LEMMA NestedStep ==
  ASSUME Forest, Raising = FALSE, NestedMints = TRUE, Safe, Nested, [Next]_vars
  PROVE  Nested'
<1>1. ASSUME NEW s \in Scopes, Register(s)
      PROVE  Nested'
  BY <1>1, NestedKept DEF Register, treeVars, callVars, FramesKept
<1>2. ASSUME NEW e \in Effects, Handle(e)
      PROVE  Nested'
  BY <1>2, NestedKept DEF Handle, treeVars, callVars, FramesKept
<1>3. ASSUME NEW t \in Tasks, Close(t)
      PROVE  Nested'
  <2>1. UNCHANGED <<keyOf, tracked, disposed, notified>> /\ calls[t] # <<>>
    BY <1>3 DEF Close, Turn, treeVars
  <2>2. Top(t).scope \notin notified
    BY <2>1, TopFacts DEF FrameSafe
  <2>3. \A s \in notified : closedAt'[s] = closedAt[s]
    BY <1>3, <2>2, CloseSafe DEF Safe, Filed
  <2> QED BY <1>3, <2>1, <2>3, CloseSafe, NestedKept
<1>4. ASSUME NEW t \in Tasks, RunDisposer(t)
      PROVE  Nested'
  BY <1>4, RunDisposerSafe, NestedKept DEF RunDisposer, treeVars
<1>5. CASE UNCHANGED vars
  BY <1>5, NestedKept DEF vars, treeVars, listVars, callVars, FramesKept
<1> QED
  BY <1>1, <1>2, <1>3, <1>4, <1>5, MintNested, DisposeNested, NextChildNested, FinishNested DEF Next

\* No scope is disposed at first.
LEMMA InitNested ==
  ASSUME Init
  PROVE  Nested
BY DEF Init, Nested, Quiet, Upheld, Scopes

\* At rest the scopes below one that was disposed are all notified.
LEMMA NestedSettles ==
  ASSUME Forest, Safe, Nested
  PROVE  AllSettled
<1>1. SUFFICES ASSUME \A t \in Tasks : calls[t] = <<>>,
                      NEW s \in disposed, NEW e \in held, e \in Below(s, closedAt[s])
               PROVE  FALSE
  BY DEF AllSettled
<1>d. PICK d : d = owner[e].scope
  OBVIOUS
<1>2. Typed /\ Filed
  BY DEF Safe
<1>3. ~(\E x : Framed(x)) /\ ~(\E x, c : Snapped(x, c))
  <2>1. \A t \in Tasks : DOMAIN calls[t] = {}
    BY <1>1
  <2> QED BY <2>1 DEF Framed, Snapped
<1>4. disposed = notified
  BY <1>2, <1>3 DEF Nested, Quiet, Filed
<1>5. d \in Scopes \ disposed
  <2>1. d \in Scopes /\ owner[e].index \in DOMAIN lists[d]
    BY <1>1, <1>2, <1>d DEF Filed, Typed
  <2>2. DOMAIN <<>> = {}
    OBVIOUS
  <2> QED BY <1>2, <1>4, <2>1, <2>2 DEF Filed
<1>6. s \in Scopes /\ s # d /\ d <= closedAt[s] /\ keyOf[s] \in Ancestors[keyOf[d]]
  BY <1>1, <1>2, <1>5, <1>d DEF Below, Filed
<1> DEFINE U == {a \in Keys : tracked[a] # 0 /\ tracked[a] \notin disposed /\ tracked[a] < d}
<1>7. keyOf[d] \in Keys /\ d \in Nat /\ keyOf[s] \in Keys /\ closedAt[s] \in Nat
  BY <1>2, <1>5, <1>6, KeyFacts
<1>8. ASSUME NEW a \in U \cup {keyOf[d]}, Parent[a] # NoKey
      PROVE  Parent[a] \in U
  <2>x. PICK x : x = tracked[a]
    OBVIOUS
  <2>1. x \in Scopes \ disposed /\ keyOf[x] = a /\ x <= d
    <3>1. CASE a = keyOf[d]
      BY <1>5, <1>7, <2>x, <3>1, LiveFacts
    <3>2. CASE a \in U
      <4>1. x \in Scopes \ disposed /\ keyOf[x] = a /\ x < d
        BY <1>2, <2>x, <3>2, KeyFacts
      <4>2. x \in Nat
        BY <1>2, <4>1, KeyFacts
      <4> QED BY <1>7, <4>1, <4>2
    <3> QED BY <3>1, <3>2
  <2>p. PICK p : p = tracked[Parent[a]]
    OBVIOUS
  <2>2. Parent[a] \in Keys /\ p \in Scopes /\ p < x /\ p \notin disposed
    BY <1>3, <1>8, <2>1, <2>p, LiveFacts
  <2>3. p \in Nat \ {0} /\ x \in Nat
    BY <1>2, <2>1, <2>2, KeyFacts
  <2> QED BY <1>7, <2>1, <2>2, <2>3, <2>p
<1>9. keyOf[s] \in U
  <2>1. U \in SUBSET Keys
    OBVIOUS
  <2> HIDE DEF U
  <2> QED BY <1>6, <1>7, <1>8, <2>1 DEF Forest
<1>q. PICK q : q = tracked[keyOf[s]]
  OBVIOUS
<1>10. q \notin disposed /\ q < d /\ s # q
  BY <1>1, <1>9, <1>q
<1>11. closedAt[s] < q /\ q \in Nat
  BY <1>2, <1>6, <1>7, <1>10, <1>q DEF Nested, Upheld, Typed
<1> QED BY <1>6, <1>7, <1>10, <1>11

-----------------------------------------------------------------------------
(* Settled is inductive for one task. *)

\* When the one task closes a scope nothing is left to dispose of below.
LEMMA CloseSettled ==
  ASSUME Forest, Safe, Nested, Settled, \A t, u \in Tasks : t = u, NEW t \in Tasks, Close(t)
  PROVE  Settled'
<1>1. Typed /\ Filed /\ calls[t] # <<>>
  BY DEF Safe, Close, Turn
<1>m. PICK m, s : m = Len(calls[t]) /\ s = Top(t).scope
  OBVIOUS
<1>2. Top(t) \in Frames /\ Top(t) = calls[t][m] /\ FrameSafe(Top(t)) /\ m \in DOMAIN calls[t]
      /\ DOMAIN calls[t] = 1..m /\ m \in Nat
  BY <1>1, <1>m, TopFacts
<1>3. UNCHANGED <<keyOf, notified>> /\ Top(t).children = {} /\ s \notin Closed
      /\ \A x \in Scopes : closedAt'[x] = IF x = s THEN Len(keyOf) ELSE closedAt[x]
  BY <1>m, CloseSafe, ZenonT(60) DEF Close, treeVars
<1>4. s \in Scopes /\ s \in disposed \ notified /\ keyOf[s] \in Keys /\ tracked[keyOf[s]] = s
  <2>1. s \in disposed \ notified /\ s \in Scopes
    BY <1>1, <1>2, <1>m DEF FrameSafe, Filed
  <2> QED BY <1>1, <2>1, KeyFacts DEF Nested, Upheld
<1>5. ASSUME NEW d \in Scopes \ notified, keyOf[s] \in Ancestors[keyOf[d]]
      PROVE  FALSE
  <2>1. keyOf[d] \in Keys /\ tracked[keyOf[d]] = d /\ keyOf[d] # keyOf[s]
    BY <1>1, <1>4, <1>5, KeyFacts DEF Nested, Upheld, Forest
  <2>2. \A i \in 1..m : i = m \/ keyOf[calls[t][i].scope] \in Ancestors[keyOf[s]]
    BY <1>2, <1>m DEF Nested, Quiet
  <2>3. keyOf[d] \notin Ancestors[keyOf[s]]
    <3>1. ASSUME keyOf[d] \in Ancestors[keyOf[s]]
          PROVE  FALSE
      <4>1. \A a \in Ancestors[keyOf[s]] \cup {keyOf[d]} : Parent[a] # NoKey => Parent[a] \in Ancestors[keyOf[s]]
        BY <1>4, <3>1 DEF Forest
      <4>2. Ancestors[keyOf[d]] \subseteq Ancestors[keyOf[s]]
        BY <1>4, <2>1, <4>1 DEF Forest
      <4> QED BY <1>4, <1>5, <4>2 DEF Forest
    <3> QED BY <3>1
  <2>4. d \notin disposed
    <3>1. ASSUME d \in disposed
          PROVE  FALSE
      <4>1. PICK i \in 1..m : calls[t][i].scope = d
        BY <1>2, <1>5, <3>1 DEF Nested, Quiet, Framed
      <4> QED BY <1>2, <1>m, <2>1, <2>2, <2>3, <4>1
    <3> QED BY <3>1
  <2> DEFINE U == {a \in Keys : a # keyOf[s] /\ (Live(a) \/ a \in Ancestors[keyOf[s]])}
  <2>5. ASSUME NEW a \in U \cup {keyOf[d]}, Parent[a] # NoKey
        PROVE  Parent[a] \in U
    <3>1. CASE a \in Ancestors[keyOf[s]]
      <4>1. Parent[a] \in Ancestors[keyOf[s]]
        BY <1>4, <2>5, <3>1 DEF Forest
      <4> QED BY <1>4, <4>1 DEF Forest
    <3>2. CASE a \in Keys /\ Live(a)
      <4>x. PICK x, p : x = tracked[a] /\ p = tracked[Parent[a]]
        OBVIOUS
      <4>1. x \in Scopes \ disposed /\ keyOf[x] = a
        BY <1>1, <3>2, <4>x, KeyFacts DEF Live
      <4>2. Parent[a] \in Keys /\ p \in Scopes /\ keyOf[p] = Parent[a] /\ (p \in disposed => Snapped(p, x))
        BY <2>5, <4>1, <4>x, LiveFacts
      <4>3. CASE p \in disposed
        <5>1. PICK i \in 1..m : calls[t][i].scope = p /\ x \in calls[t][i].children
          BY <1>2, <4>2, <4>3 DEF Snapped
        <5>2. i # m
          BY <1>2, <1>3, <5>1
        <5>3. Parent[a] \in Ancestors[keyOf[s]]
          BY <2>2, <4>2, <5>1, <5>2
        <5> QED BY <1>4, <5>3 DEF Forest
      <4>4. CASE p \notin disposed
        <5>1. p # 0
          BY <1>1, <4>2, KeyFacts
        <5> QED BY <1>4, <4>2, <4>4, <4>x, <5>1 DEF Live
      <4> QED BY <4>3, <4>4
    <3>3. a = keyOf[d] => a \in Keys /\ Live(a)
      <4>1. d # 0
        BY <1>1, KeyFacts
      <4> QED BY <2>1, <2>4, <4>1 DEF Live
    <3> QED BY <3>1, <3>2, <3>3
  <2>6. Ancestors[keyOf[d]] \subseteq U
    <3>1. U \in SUBSET Keys
      OBVIOUS
    <3> HIDE DEF U
    <3> QED BY <2>1, <2>5, <3>1 DEF Forest
  <2> QED BY <1>5, <2>6
<1>6. Scopes' = Scopes /\ Closed' \subseteq Closed \cup {s}
  <2>1. Scopes' = Scopes
    BY <1>3 DEF Scopes
  <2> QED BY <1>3, <2>1 DEF Closed
<1>7. ASSUME NEW x \in Closed', NEW d \in Scopes', d <= closedAt'[x], keyOf'[x] \in Ancestors[keyOf'[d]]
      PROVE  d \in notified'
  <2>1. CASE x = s
    BY <1>3, <1>5, <1>6, <1>7, <2>1
  <2>2. CASE x # s
    BY <1>3, <1>6, <1>7, <2>2, SMTT(30) DEF Settled, Closed
  <2> QED BY <2>1, <2>2
<1> QED BY <1>7 DEF Settled

\* With one task every step keeps Settled.
LEMMA SettledStep ==
  ASSUME Forest, Safe, Nested, Settled, \A t, u \in Tasks : t = u, [Next]_vars
  PROVE  Settled'
<1>1. ASSUME UNCHANGED <<keyOf, closedAt>>, notified \subseteq notified'
      PROVE  Settled'
  BY <1>1 DEF Settled, Closed, Scopes
<1>2. ASSUME NEW k \in Keys, Mint(k)
      PROVE  Settled'
  <2>1. Typed /\ Filed /\ notified' = notified
    BY <1>2 DEF Safe, Mint
  <2>2. /\ Len(keyOf) \in Nat /\ Scopes = 1..Len(keyOf) /\ Scopes' = 1..(Len(keyOf) + 1)
        /\ \A s \in Scopes : keyOf'[s] = keyOf[s] /\ closedAt'[s] = closedAt[s] /\ closedAt[s] \in 0..Len(keyOf)
        /\ Closed' = Closed /\ Closed \subseteq Scopes
    BY <1>2, <2>1, Minted, KeyFacts DEF Filed
  <2>3. ASSUME NEW s \in Closed', NEW d \in Scopes', d <= closedAt'[s], keyOf'[s] \in Ancestors[keyOf'[d]]
        PROVE  d \in notified'
    <3>1. d \in Scopes
      BY <2>2, <2>3
    <3> QED BY <2>1, <2>2, <2>3, <3>1 DEF Settled
  <2> QED BY <2>3 DEF Settled
<1>3. ASSUME NEW t \in Tasks, Close(t)
      PROVE  Settled'
  BY <1>3, CloseSettled
<1> QED
  BY <1>1, <1>2, <1>3, Zenon
     DEF Next, vars, treeVars, listVars, callVars, Register, Handle, Dispose, NextChild, RunDisposer, Finish

\* Whoever is notified holds nothing, so nothing below a closed scope is held.
LEMMA SettledDeepest ==
  ASSUME Safe, Settled
  PROVE  DeepestFirst
<1>1. SUFFICES ASSUME NEW s \in Closed, NEW e \in held, e \in Below(s, closedAt[s]), owner[e].scope # s
               PROVE  FALSE
  BY DEF DeepestFirst, Safe, Filed
<1>d. PICK d : d = owner[e].scope
  OBVIOUS
<1>2. Typed /\ Filed
  BY DEF Safe
<1>3. d \in Scopes /\ owner[e].index \in DOMAIN lists[d]
  BY <1>1, <1>2, <1>d DEF Filed, Typed
<1>4. d \in notified
  BY <1>1, <1>3, <1>d DEF Below, Settled
<1>5. lists[d] = <<>>
  BY <1>2, <1>4 DEF Filed
<1> QED BY <1>3, <1>5

-----------------------------------------------------------------------------
(* Fibers. *)

Fib(T, E, L, X, C) == INSTANCE Fiber WITH
    state <- fiberState, lists <- fiberLists, held <- fiberHeld, Tasks <- T, MaxEffects <- E, MaxLists <- L,
    LateEffects <- X, Cancels <- C

FiberStates == {"pending", "loading", "active", "failed", "unloading", "disposed"}
Ends == {"fail", "stale", "unload", "dispose"}
Suspended == [at : {"idle", "body"} \cup Ends, g : Nat, n : Nat]

Unwinds(t) == task[t].at \in Ends

\* The types.
FiberTyped(T, E, L) ==
    /\ fiberState \in FiberStates
    /\ fiberLists \in Seq(Seq(Nat)) /\ Len(fiberLists) \in 1..L /\ current = Len(fiberLists)
    /\ closed \subseteq DOMAIN fiberLists
    /\ home \in Seq(Nat \X Nat) /\ Len(home) <= E
    /\ settled \subseteq DOMAIN home /\ fiberHeld \subseteq DOMAIN home
    /\ unwound \in Seq(Nat)
    /\ task \in [T -> Suspended]

\* An effect stands in its list where it was pushed to, in the order of
\* creation; the list effects are pushed to has kept all its places.
Homes ==
    /\ \A g \in DOMAIN fiberLists : \A i \in DOMAIN fiberLists[g] :
          fiberLists[g][i] # 0 => fiberLists[g][i] \in DOMAIN home /\ home[fiberLists[g][i]] = <<g, i>>
    /\ \A g \in DOMAIN fiberLists : Len(fiberLists[g]) <= Len(home)
    /\ \A e \in DOMAIN home :
          /\ home[e][1] \in DOMAIN fiberLists /\ home[e][2] \in 1..Len(home)
          /\ home[e][1] = current => home[e][2] <= Len(fiberLists[current])
    /\ \A d, e \in DOMAIN home : d < e /\ home[d][1] = home[e][1] => home[d][2] < home[e][2]

\* Two tasks never unwind the same list, and what was released of a list that
\* is being unwound stood behind the entries to go.
Unwindings(T) ==
    /\ \A t \in T : IF Unwinds(t)
                    THEN task[t].g \in closed /\ task[t].n <= Len(fiberLists[task[t].g])
                    ELSE task[t].g = 0 /\ task[t].n = 0
    /\ \A t, u \in T : Unwinds(t) /\ Unwinds(u) /\ task[t].g = task[u].g => t = u
    /\ \A k \in DOMAIN unwound : unwound[k] \in settled /\ home[unwound[k]][1] \in closed
    /\ \A t \in T : \A k \in DOMAIN unwound :
          Unwinds(t) /\ home[unwound[k]][1] = task[t].g => home[unwound[k]][2] > task[t].n

Reversed ==
    \A i, j \in DOMAIN unwound :
        i < j => /\ unwound[i] # unwound[j]
                 /\ home[unwound[i]][1] = home[unwound[j]][1] => unwound[i] > unwound[j]

Undone(T, E, L) == FiberTyped(T, E, L) /\ Homes /\ Unwindings(T) /\ Reversed

-----------------------------------------------------------------------------
(* The steps of a fiber, by what they do to its fiberLists. *)

Resting(at) == [at |-> at, g |-> 0, n |-> 0]

\* No list is touched.
Turns(t) ==
    /\ ~Unwinds(t)
    /\ task' = task \/ \E at \in {"idle", "body"} : task' = [task EXCEPT ![t] = Resting(at)]
    /\ UNCHANGED <<fiberLists, closed, current, home, settled, fiberHeld, unwound>>

\* dispose_all() of the current list begins.
Begins(t) ==
    /\ ~Unwinds(t) /\ current \notin closed /\ closed' = closed \cup {current}
    /\ \E at \in Ends : task' = [task EXCEPT ![t] = [at |-> at, g |-> current, n |-> Len(fiberLists[current])]]
    /\ UNCHANGED <<fiberLists, current, home, settled, fiberHeld, unwound>>

\* The fiber takes a fresh list, the old one was cleared or left as it is.
Leaves(t, L) ==
    /\ Len(fiberLists) < L
    /\ \/ fiberLists' = Append(fiberLists, <<>>)
       \/ Unwinds(t) /\ fiberLists' = Append([fiberLists EXCEPT ![task[t].g] = <<>>], <<>>)
    /\ current' = Len(fiberLists) + 1 /\ task' = [task EXCEPT ![t] = Resting("idle")]
    /\ UNCHANGED <<closed, home, settled, fiberHeld, unwound>>

Releases(t) ==
    /\ Unwinds(t) /\ task[t].n > 0
    /\ LET e == fiberLists[task[t].g][task[t].n]
       IN  IF e = 0 \/ e \in settled
           THEN UNCHANGED <<settled, fiberHeld, unwound>>
           ELSE settled' = settled \cup {e} /\ fiberHeld' = fiberHeld \ {e} /\ unwound' = Append(unwound, e)
    /\ task' = [task EXCEPT ![t].n = @ - 1]
    /\ UNCHANGED <<fiberLists, closed, current, home>>

Adds(E) ==
    /\ Len(home) < E
    /\ fiberLists' = [fiberLists EXCEPT ![current] = Append(@, Len(home) + 1)]
    /\ home' = Append(home, <<current, Len(fiberLists[current]) + 1>>)
    /\ fiberHeld' = fiberHeld \cup {Len(home) + 1}
    /\ UNCHANGED <<closed, current, settled, unwound, task>>

Removes(e) ==
    /\ home[e][2] \in DOMAIN fiberLists[home[e][1]]
    /\ fiberLists' = [fiberLists EXCEPT ![home[e][1]][home[e][2]] = 0]
    /\ settled' = settled \cup {e} /\ fiberHeld' = fiberHeld \ {e}
    /\ UNCHANGED <<closed, current, home, unwound, task>>

\* Every action of a fiber is one of these.
LEMMA FiberSteps ==
  ASSUME NEW T, NEW E, NEW L, NEW X, NEW C, Fib(T, E, L, X, C)!Next, FiberTyped(T, E, L)
  PROVE  /\ fiberState' \in FiberStates
         /\ \/ \E t \in T : Turns(t) \/ Begins(t) \/ Leaves(t, L) \/ Releases(t)
            \/ Adds(E)
            \/ \E e \in DOMAIN home : Removes(e)
<1>1. ASSUME NEW t \in T,
             \/ Fib(T, E, L, X, C)!Load(t) \/ Fib(T, E, L, X, C)!LoadCommits(t)
             \/ Fib(T, E, L, X, C)!LoadCancelled(t)
      PROVE  fiberState' \in FiberStates /\ Turns(t)
  BY <1>1 DEF Fib!Load, Fib!LoadCommits, Fib!LoadCancelled, Fib!Idle, Fib!listVars, Fib!effectVars,
              FiberTyped, FiberStates, Turns, Unwinds, Ends, Resting
<1>2. ASSUME NEW t \in T, NEW at \in Ends, ~Unwinds(t), Fib(T, E, L, X, C)!StartUnwind(t, at),
             UNCHANGED <<home, settled, fiberHeld, unwound>>
      PROVE  /\ Begins(t) \/ Leaves(t, L)
             /\ current \in closed => fiberState' \in FiberStates
  BY <1>2 DEF Fib!StartUnwind, Fib!Idle, Fib!Final, FiberStates, Begins, Leaves, Ends, Resting
<1>3. ASSUME NEW t \in T,
             \/ Fib(T, E, L, X, C)!LoadFails(t, "fail") \/ Fib(T, E, L, X, C)!LoadFails(t, "stale")
             \/ Fib(T, E, L, X, C)!Unload(t) \/ Fib(T, E, L, X, C)!Dispose(t)
      PROVE  fiberState' \in FiberStates /\ (Turns(t) \/ Begins(t) \/ Leaves(t, L))
  BY <1>2, <1>3 DEF Fib!LoadFails, Fib!Unload, Fib!Dispose, Fib!Idle, Fib!listVars, Fib!effectVars,
              Fib!LiveStates, FiberTyped, FiberStates, Turns, Unwinds, Ends, Resting
<1>4. ASSUME NEW t \in T,
             Fib(T, E, L, X, C)!UnwindCancelled(t) \/ Fib(T, E, L, X, C)!UnwindEnds(t)
      PROVE  fiberState' \in FiberStates /\ Leaves(t, L)
  BY <1>4 DEF Fib!UnwindCancelled, Fib!UnwindEnds, Fib!Unwinding, Fib!Idle, Fib!effectVars, Fib!Final,
              FiberStates, Leaves, Unwinds, Ends, Resting
<1>5. ASSUME NEW t \in T, Fib(T, E, L, X, C)!UnwindStep(t)
      PROVE  fiberState' \in FiberStates /\ Releases(t)
  BY <1>5 DEF Fib!UnwindStep, Fib!Unwinding, Fib!listVars, FiberTyped, Releases, Unwinds, Ends
<1>6. ASSUME Fib(T, E, L, X, C)!Effect
      PROVE  fiberState' \in FiberStates /\ Adds(E)
  BY <1>6 DEF Fib!Effect, FiberTyped, Adds
<1>7. ASSUME Fib(T, E, L, X, C)!CallHandle
      PROVE  fiberState' \in FiberStates /\ \E e \in DOMAIN home : Removes(e)
  BY <1>7 DEF Fib!CallHandle, FiberTyped, Removes
<1> QED BY <1>1, <1>3, <1>4, <1>5, <1>6, <1>7 DEF Fib!Next

-----------------------------------------------------------------------------
(* Undone is inductive, for any tasks and bounds. *)

\* What the types say of lists, places and tasks.
LEMMA FiberFacts ==
  ASSUME NEW T, NEW E, NEW L, FiberTyped(T, E, L)
  PROVE  /\ Len(fiberLists) \in Nat /\ DOMAIN fiberLists = 1..Len(fiberLists) /\ current \in DOMAIN fiberLists /\ current \in Nat
         /\ \A g \in DOMAIN fiberLists :
               fiberLists[g] \in Seq(Nat) /\ Len(fiberLists[g]) \in Nat /\ DOMAIN fiberLists[g] = 1..Len(fiberLists[g])
         /\ Len(home) \in Nat /\ DOMAIN home = 1..Len(home)
         /\ \A e \in DOMAIN home : home[e] = <<home[e][1], home[e][2]>> /\ home[e][1] \in Nat /\ home[e][2] \in Nat
         /\ Len(unwound) \in Nat /\ DOMAIN unwound = 1..Len(unwound) /\ \A k \in DOMAIN unwound : unwound[k] \in Nat
         /\ \A t \in T : task[t].g \in Nat /\ task[t].n \in Nat
<1>1. /\ fiberLists \in Seq(Seq(Nat)) /\ Len(fiberLists) \in 1..L /\ current = Len(fiberLists)
      /\ home \in Seq(Nat \X Nat) /\ unwound \in Seq(Nat) /\ task \in [T -> Suspended]
  BY DEF FiberTyped
<1>2. Len(fiberLists) \in Nat /\ DOMAIN fiberLists = 1..Len(fiberLists) /\ current \in DOMAIN fiberLists /\ current \in Nat
  BY <1>1, LenProperties
<1>3. \A g \in DOMAIN fiberLists : fiberLists[g] \in Seq(Nat) /\ Len(fiberLists[g]) \in Nat /\ DOMAIN fiberLists[g] = 1..Len(fiberLists[g])
  BY <1>1, ElementOfSeq, LenProperties
<1>4. Len(home) \in Nat /\ DOMAIN home = 1..Len(home) /\ \A e \in DOMAIN home : home[e] \in Nat \X Nat
  <2> DEFINE P == Nat \X Nat
  <2>1. home \in Seq(P)
    BY <1>1
  <2> HIDE DEF P
  <2>2. Len(home) \in Nat /\ DOMAIN home = 1..Len(home) /\ \A e \in DOMAIN home : home[e] \in P
    BY <2>1, ElementOfSeq, LenProperties
  <2> QED BY <2>2 DEF P
<1>5. Len(unwound) \in Nat /\ DOMAIN unwound = 1..Len(unwound) /\ \A k \in DOMAIN unwound : unwound[k] \in Nat
  BY <1>1, ElementOfSeq, LenProperties
<1>6. \A t \in T : task[t].g \in Nat /\ task[t].n \in Nat
  BY <1>1 DEF Suspended
<1> QED BY <1>2, <1>3, <1>4, <1>5, <1>6

\* One task is somewhere else, the others stay.
LEMMA TaskSet ==
  ASSUME NEW T, NEW t \in T, NEW r \in Suspended, task \in [T -> Suspended], task' = [task EXCEPT ![t] = r]
  PROVE  task' \in [T -> Suspended] /\ \A u \in T : task'[u] = IF u = t THEN r ELSE task[u]
OBVIOUS

\* A task that unwinds nothing.
LEMMA RestingFacts ==
  ASSUME NEW at \in {"idle", "body"}
  PROVE  /\ Resting(at) \in Suspended /\ Resting(at).at \notin Ends
         /\ Resting(at).g = 0 /\ Resting(at).n = 0 /\ Resting(at).at = at
BY DEF Resting, Suspended, Ends

\* A task that touches no list changes nothing of Undone.
LEMMA TurnsUndone ==
  ASSUME NEW T, NEW E, NEW L, Undone(T, E, L), fiberState' \in FiberStates, NEW t \in T, Turns(t)
  PROVE  Undone(T, E, L)'
<1>1. FiberTyped(T, E, L) /\ Homes /\ Unwindings(T) /\ Reversed
  BY DEF Undone
<1>2. UNCHANGED <<fiberLists, closed, current, home, settled, fiberHeld, unwound>>
  BY DEF Turns
<1>3. /\ task' \in [T -> Suspended]
      /\ \A u \in T : task'[u] = task[u] \/ (task'[u].at \notin Ends /\ task'[u].g = 0 /\ task'[u].n = 0)
  <2>1. CASE task' = task
    BY <1>1, <2>1 DEF FiberTyped
  <2>2. CASE \E at \in {"idle", "body"} : task' = [task EXCEPT ![t] = Resting(at)]
    BY <1>1, <2>2, TaskSet, RestingFacts DEF FiberTyped
  <2> QED BY <2>1, <2>2 DEF Turns
<1>4. FiberTyped(T, E, L)'
  BY <1>1, <1>2, <1>3 DEF FiberTyped
<1>5. Homes' /\ Reversed'
  BY <1>1, <1>2 DEF Homes, Reversed
<1>6. Unwindings(T)'
  BY <1>1, <1>2, <1>3 DEF Unwindings, Unwinds
<1> QED BY <1>4, <1>5, <1>6 DEF Undone

\* The list a task begins to unwind was unwound by nobody.
LEMMA BeginsUndone ==
  ASSUME NEW T, NEW E, NEW L, Undone(T, E, L), fiberState' \in FiberStates, NEW t \in T, Begins(t)
  PROVE  Undone(T, E, L)'
<1>1. FiberTyped(T, E, L) /\ Homes /\ Unwindings(T) /\ Reversed
  BY DEF Undone
<1>2. UNCHANGED <<fiberLists, current, home, settled, fiberHeld, unwound>>
      /\ ~Unwinds(t) /\ current \notin closed /\ closed' = closed \cup {current}
  BY DEF Begins
<1>r. PICK at \in Ends : task' = [task EXCEPT ![t] = [at |-> at, g |-> current, n |-> Len(fiberLists[current])]]
  BY DEF Begins
<1>3. current \in DOMAIN fiberLists /\ current \in Nat /\ Len(fiberLists[current]) \in Nat
  BY <1>1, FiberFacts
<1>4. /\ task' \in [T -> Suspended]
      /\ \A u \in T : task'[u] = IF u = t THEN [at |-> at, g |-> current, n |-> Len(fiberLists[current])] ELSE task[u]
  <2>1. [at |-> at, g |-> current, n |-> Len(fiberLists[current])] \in Suspended
    BY <1>3 DEF Suspended
  <2> HIDE DEF Suspended
  <2> QED BY <1>1, <1>r, <2>1, TaskSet DEF FiberTyped
<1>5. FiberTyped(T, E, L)'
  BY <1>1, <1>2, <1>3, <1>4 DEF FiberTyped
<1>6. Homes' /\ Reversed'
  BY <1>1, <1>2 DEF Homes, Reversed
<1>7. /\ Unwinds(t)' /\ task'[t].g = current /\ task'[t].n = Len(fiberLists[current])
      /\ \A u \in T \ {t} : task'[u] = task[u]
  BY <1>4 DEF Unwinds
<1>8. Unwindings(T)'
  <2>1. ASSUME NEW u \in T
        PROVE  IF Unwinds(u)' THEN task'[u].g \in closed' /\ task'[u].n <= Len(fiberLists'[task'[u].g])
                              ELSE task'[u].g = 0 /\ task'[u].n = 0
    <3>1. CASE u = t
      BY <1>2, <1>3, <1>7, <3>1
    <3>2. CASE u # t
      BY <1>1, <1>2, <1>7, <3>2 DEF Unwindings, Unwinds
    <3> QED BY <3>1, <3>2
  <2>2. ASSUME NEW u \in T, NEW v \in T, Unwinds(u)', Unwinds(v)', task'[u].g = task'[v].g
        PROVE  u = v
    BY <1>1, <1>2, <1>7, <2>2 DEF Unwindings, Unwinds
  <2>3. ASSUME NEW k \in DOMAIN unwound
        PROVE  unwound[k] \in settled /\ home[unwound[k]][1] \in closed /\ home[unwound[k]][1] # current
    BY <1>1, <1>2 DEF Unwindings
  <2>4. ASSUME NEW u \in T, NEW k \in DOMAIN unwound, Unwinds(u)', home[unwound[k]][1] = task'[u].g
        PROVE  home[unwound[k]][2] > task'[u].n
    BY <1>1, <1>7, <2>3, <2>4 DEF Unwindings, Unwinds
  <2> QED BY <1>2, <2>1, <2>2, <2>3, <2>4 DEF Unwindings, Unwinds
<1> QED BY <1>5, <1>6, <1>8 DEF Undone

\* In a fresh list no effect has a place yet.
LEMMA LeavesUndone ==
  ASSUME NEW T, NEW E, NEW L \in Nat, Undone(T, E, L), fiberState' \in FiberStates, NEW t \in T, Leaves(t, L)
  PROVE  Undone(T, E, L)'
<1>1. FiberTyped(T, E, L) /\ Homes /\ Unwindings(T) /\ Reversed
  BY DEF Undone
<1>2. UNCHANGED <<closed, home, settled, fiberHeld, unwound>> /\ Len(fiberLists) < L
      /\ current' = Len(fiberLists) + 1 /\ task' = [task EXCEPT ![t] = Resting("idle")]
  BY DEF Leaves
<1>c. PICK c : c = Len(fiberLists) + 1
  OBVIOUS
<1>3. /\ c \in Nat /\ DOMAIN fiberLists = 1..Len(fiberLists) /\ c \notin DOMAIN fiberLists /\ Len(fiberLists) \in Nat /\ closed \subseteq DOMAIN fiberLists
      /\ \A g \in DOMAIN fiberLists : fiberLists[g] \in Seq(Nat)
  BY <1>1, <1>c, FiberFacts DEF FiberTyped
<1>4. /\ fiberLists' \in Seq(Seq(Nat)) /\ Len(fiberLists') = c /\ DOMAIN fiberLists' = DOMAIN fiberLists \cup {c}
      /\ fiberLists'[c] = <<>>
      /\ \A g \in DOMAIN fiberLists : fiberLists'[g] = fiberLists[g] \/ (fiberLists'[g] = <<>> /\ Unwinds(t) /\ g = task[t].g)
  <2>s. PICK s : /\ fiberLists' = Append(s, <<>>)
                 /\ s = fiberLists \/ (Unwinds(t) /\ s = [fiberLists EXCEPT ![task[t].g] = <<>>])
    BY DEF Leaves
  <2>1. fiberLists \in Seq(Seq(Nat)) /\ <<>> \in Seq(Nat)
    BY <1>1 DEF FiberTyped
  <2>2. /\ s \in Seq(Seq(Nat)) /\ Len(s) = Len(fiberLists) /\ DOMAIN s = DOMAIN fiberLists
        /\ \A g \in DOMAIN fiberLists : s[g] = fiberLists[g] \/ (s[g] = <<>> /\ Unwinds(t) /\ g = task[t].g)
    <3>1. CASE s = fiberLists
      BY <2>1, <3>1
    <3>2. CASE Unwinds(t) /\ s = [fiberLists EXCEPT ![task[t].g] = <<>>]
      <4>1. task[t].g \in DOMAIN fiberLists
        BY <1>1, <1>3, <3>2 DEF Unwindings
      <4>2. s \in Seq(Seq(Nat)) /\ Len(s) = Len(fiberLists)
            /\ \A g \in 1..Len(fiberLists) : s[g] = IF g = task[t].g THEN <<>> ELSE fiberLists[g]
        BY <2>1, <3>2, <4>1, ExceptSeq
      <4> QED BY <1>3, <3>2, <4>2, LenProperties
    <3> QED BY <2>s, <3>1, <3>2
  <2>3. /\ fiberLists' \in Seq(Seq(Nat)) /\ Len(fiberLists') = Len(s) + 1 /\ fiberLists'[Len(s) + 1] = <<>>
        /\ \A g \in 1..Len(s) : fiberLists'[g] = s[g]
    BY <2>1, <2>2, <2>s, AppendProperties
  <2>4. DOMAIN fiberLists' = 1..c
    BY <1>c, <2>2, <2>3, LenProperties
  <2>5. 1..c = 1..Len(fiberLists) \cup {c}
    BY <1>3, <1>c
  <2> QED BY <1>3, <1>c, <2>2, <2>3, <2>4, <2>5
<1>5. task' \in [T -> Suspended] /\ \A u \in T : task'[u] = IF u = t THEN Resting("idle") ELSE task[u]
  BY <1>1, <1>2, RestingFacts, TaskSet DEF FiberTyped
<1>6. ~Unwinds(t)' /\ task'[t].g = 0 /\ task'[t].n = 0 /\ \A u \in T \ {t} : task'[u] = task[u]
  BY <1>5, RestingFacts DEF Unwinds
<1>7. FiberTyped(T, E, L)'
  <2>1. Len(fiberLists') \in 1..L /\ current' = Len(fiberLists')
    BY <1>2, <1>3, <1>4, <1>c
  <2> QED BY <1>1, <1>2, <1>3, <1>4, <1>5, <2>1 DEF FiberTyped
<1>8. Homes'
  <2>1. ASSUME NEW g \in DOMAIN fiberLists', NEW i \in DOMAIN fiberLists'[g], fiberLists'[g][i] # 0
        PROVE  fiberLists'[g][i] \in DOMAIN home /\ home[fiberLists'[g][i]] = <<g, i>>
    <3>1. g \in DOMAIN fiberLists /\ fiberLists'[g] = fiberLists[g]
      BY <1>4, <2>1
    <3> QED BY <1>1, <2>1, <3>1 DEF Homes
  <2>2. \A g \in DOMAIN fiberLists' : Len(fiberLists'[g]) <= Len(home)
    <3>1. Len(<<>>) = 0 /\ Len(home) \in Nat
      BY <1>1, FiberFacts
    <3> QED BY <1>1, <1>4, <3>1 DEF Homes
  <2>3. \A e \in DOMAIN home : home[e][1] \in DOMAIN fiberLists' /\ home[e][2] \in 1..Len(home) /\ home[e][1] # c
    BY <1>1, <1>3, <1>4 DEF Homes
  <2> QED BY <1>1, <1>2, <1>c, <2>1, <2>2, <2>3 DEF Homes
<1>9. Reversed'
  BY <1>1, <1>2 DEF Reversed
<1>10. Unwindings(T)'
  <2>1. ASSUME NEW u \in T
        PROVE  IF Unwinds(u)' THEN task'[u].g \in closed' /\ task'[u].n <= Len(fiberLists'[task'[u].g])
                              ELSE task'[u].g = 0 /\ task'[u].n = 0
    <3>1. CASE u = t
      BY <1>6, <3>1
    <3>2. CASE u # t
      <4>1. task'[u] = task[u] /\ (Unwinds(u)' <=> Unwinds(u))
        BY <1>6, <3>2 DEF Unwinds
      <4>2. Unwinds(u) => fiberLists'[task[u].g] = fiberLists[task[u].g]
        BY <1>1, <1>3, <1>4, <3>2 DEF Unwindings
      <4> QED BY <1>1, <1>2, <4>1, <4>2 DEF Unwindings
    <3> QED BY <3>1, <3>2
  <2>2. \A u \in T : Unwinds(u)' => u # t /\ Unwinds(u) /\ task'[u] = task[u]
    BY <1>6 DEF Unwinds
  <2> QED BY <1>1, <1>2, <2>1, <2>2 DEF Unwindings
<1> QED BY <1>7, <1>8, <1>9, <1>10 DEF Undone

\* What is released stood before all that was released of its list, and was so never.
LEMMA ReleasesUndone ==
  ASSUME NEW T, NEW E, NEW L, Undone(T, E, L), fiberState' \in FiberStates, NEW t \in T, Releases(t)
  PROVE  Undone(T, E, L)'
<1>1. FiberTyped(T, E, L) /\ Homes /\ Unwindings(T) /\ Reversed
  BY DEF Undone
<1>p. PICK g, n, e : g = task[t].g /\ n = task[t].n /\ e = fiberLists[g][n]
  OBVIOUS
<1>2. UNCHANGED <<fiberLists, closed, current, home>> /\ Unwinds(t) /\ n > 0
      /\ task' = [task EXCEPT ![t].n = @ - 1]
      /\ IF e = 0 \/ e \in settled
         THEN UNCHANGED <<settled, fiberHeld, unwound>>
         ELSE settled' = settled \cup {e} /\ fiberHeld' = fiberHeld \ {e} /\ unwound' = Append(unwound, e)
  BY <1>p DEF Releases
<1>3. n \in Nat \ {0} /\ n - 1 \in Nat /\ g \in closed /\ g \in DOMAIN fiberLists /\ n <= Len(fiberLists[g])
  <2>1. g \in closed /\ g \in DOMAIN fiberLists /\ n <= Len(fiberLists[g])
    BY <1>1, <1>2, <1>p DEF Unwindings, FiberTyped
  <2>2. n \in Nat
    BY <1>1, <1>p, FiberFacts
  <2> QED BY <1>2, <2>1, <2>2
<1>4. n \in DOMAIN fiberLists[g] /\ (e # 0 => e \in DOMAIN home /\ home[e][1] = g /\ home[e][2] = n)
  <2>1. Len(fiberLists[g]) \in Nat /\ DOMAIN fiberLists[g] = 1..Len(fiberLists[g])
    BY <1>1, <1>3, FiberFacts
  <2>2. n \in DOMAIN fiberLists[g]
    BY <1>3, <2>1
  <2> QED BY <1>1, <1>3, <1>p, <2>2 DEF Homes
<1>5. /\ task' \in [T -> Suspended]
      /\ task'[t].n = n - 1 /\ task'[t].g = g /\ Unwinds(t)'
      /\ \A u \in T \ {t} : task'[u] = task[u]
  <2>1. [task[t] EXCEPT !.n = n - 1] \in Suspended
    BY <1>1, <1>3 DEF FiberTyped, Suspended
  <2>2. task' = [task EXCEPT ![t] = [task[t] EXCEPT !.n = n - 1]]
    BY <1>2, <1>p
  <2>3. task \in [T -> Suspended]
    BY <1>1 DEF FiberTyped
  <2>4. task' \in [T -> Suspended] /\ \A u \in T : task'[u] = IF u = t THEN [task[t] EXCEPT !.n = n - 1] ELSE task[u]
    <3> HIDE DEF Suspended
    <3> QED BY <2>1, <2>2, <2>3
  <2>5. task[t] \in Suspended
    BY <2>3
  <2> QED BY <1>2, <1>p, <2>4, <2>5 DEF Suspended, Unwinds
<1>6. Homes'
  BY <1>1, <1>2 DEF Homes
<1>7. \A u \in T : IF Unwinds(u)' THEN task'[u].g \in closed /\ task'[u].n <= Len(fiberLists[task'[u].g])
                                  ELSE task'[u].g = 0 /\ task'[u].n = 0
  <2> TAKE u \in T
  <2>1. CASE u = t
    <3>1. Len(fiberLists[g]) \in Nat
      BY <1>1, <1>3, FiberFacts
    <3> QED BY <1>3, <1>5, <2>1, <3>1
  <2>2. CASE u # t
    BY <1>1, <1>5, <2>2 DEF Unwindings, Unwinds
  <2> QED BY <2>1, <2>2
<1>8. \A u \in T : Unwinds(u)' => Unwinds(u) /\ task'[u].g = task[u].g
  BY <1>2, <1>5, <1>p DEF Unwinds
<1>9. ASSUME NEW u \in T, NEW k \in DOMAIN unwound, Unwinds(u)', home[unwound[k]][1] = task'[u].g
      PROVE  home[unwound[k]][2] > task'[u].n
  <2>1. home[unwound[k]][2] > task[u].n
    BY <1>1, <1>8, <1>9 DEF Unwindings
  <2>2. unwound[k] \in DOMAIN home
    BY <1>1 DEF Unwindings, FiberTyped
  <2>3. home[unwound[k]][2] \in Nat
    BY <1>1, <2>2, FiberFacts
  <2>4. u # t => task'[u].n = task[u].n
    BY <1>5
  <2> QED BY <1>3, <1>5, <1>p, <2>1, <2>3, <2>4
<1>10. CASE e = 0 \/ e \in settled
  <2>1. UNCHANGED <<settled, fiberHeld, unwound>>
    BY <1>2, <1>10
  <2>2. FiberTyped(T, E, L)'
    BY <1>1, <1>2, <1>5, <2>1 DEF FiberTyped
  <2>3. Unwindings(T)'
    BY <1>1, <1>2, <1>7, <1>8, <1>9, <2>1 DEF Unwindings
  <2> QED BY <1>1, <1>2, <1>6, <2>1, <2>2, <2>3 DEF Undone, Reversed
<1>11. CASE e # 0 /\ e \notin settled
  <2>1. settled' = settled \cup {e} /\ fiberHeld' = fiberHeld \ {e} /\ unwound' = Append(unwound, e)
    BY <1>2, <1>11
  <2>c. PICK c : c = Len(unwound) + 1
    OBVIOUS
  <2>2. /\ unwound' \in Seq(Nat) /\ DOMAIN unwound = 1..Len(unwound) /\ Len(unwound) \in Nat
        /\ DOMAIN unwound' = DOMAIN unwound \cup {c} /\ unwound'[c] = e
        /\ \A k \in DOMAIN unwound : unwound'[k] = unwound[k]
    <3>1. e \in Nat /\ unwound \in Seq(Nat) /\ DOMAIN unwound = 1..Len(unwound) /\ Len(unwound) \in Nat
      BY <1>1, <1>4, <1>11, FiberFacts DEF FiberTyped
    <3>2. unwound' \in Seq(Nat) /\ Len(unwound') = c /\ unwound'[c] = e /\ \A k \in 1..Len(unwound) : unwound'[k] = unwound[k]
      BY <2>1, <2>c, <3>1, AppendProperties
    <3>3. DOMAIN unwound' = 1..c
      BY <3>2, LenProperties
    <3>4. 1..c = 1..Len(unwound) \cup {c}
      BY <2>c, <3>1
    <3> QED BY <3>1, <3>2, <3>3, <3>4
  <2>3. FiberTyped(T, E, L)'
    BY <1>1, <1>2, <1>4, <1>5, <1>11, <2>1, <2>2 DEF FiberTyped
  <2>4. \A k \in DOMAIN unwound' : unwound'[k] \in settled' /\ home[unwound'[k]][1] \in closed
    BY <1>1, <1>3, <1>4, <1>11, <2>1, <2>2 DEF Unwindings
  <2>5. ASSUME NEW u \in T, NEW k \in DOMAIN unwound', Unwinds(u)', home[unwound'[k]][1] = task'[u].g
        PROVE  home[unwound'[k]][2] > task'[u].n
    <3>1. CASE k = c
      <4>1. u = t
        BY <1>1, <1>2, <1>4, <1>8, <1>11, <1>p, <2>2, <2>5, <3>1 DEF Unwindings
      <4> QED BY <1>3, <1>4, <1>5, <1>11, <2>2, <3>1, <4>1
    <3>2. CASE k \in DOMAIN unwound
      BY <1>9, <2>2, <2>5, <3>2
    <3> QED BY <2>2, <3>1, <3>2
  <2>6. Unwindings(T)'
    BY <1>1, <1>2, <1>7, <1>8, <2>4, <2>5 DEF Unwindings
  <2>7. ASSUME NEW i \in DOMAIN unwound
        PROVE  unwound[i] # e /\ (home[unwound[i]][1] = g => unwound[i] > e)
    <3>1. unwound[i] \in settled /\ unwound[i] \in DOMAIN home
      BY <1>1 DEF Unwindings, FiberTyped
    <3>2. ASSUME home[unwound[i]][1] = g
          PROVE  unwound[i] > e
      <4>1. home[unwound[i]][2] > n /\ home[unwound[i]][2] \in Nat
        BY <1>1, <1>2, <1>p, <3>1, <3>2, FiberFacts DEF Unwindings
      <4>2. ~(unwound[i] < e)
        BY <1>1, <1>3, <1>4, <1>11, <3>1, <3>2, <4>1 DEF Homes
      <4>3. unwound[i] \in Nat /\ e \in Nat
        BY <1>1, <1>4, <1>11, <3>1, FiberFacts, SMTT(30)
      <4> QED BY <1>11, <3>1, <4>2, <4>3
    <3> QED BY <1>11, <3>1, <3>2
  <2>8. Reversed'
    <3>1. ASSUME NEW i \in DOMAIN unwound', NEW j \in DOMAIN unwound', i < j
          PROVE  /\ unwound'[i] # unwound'[j]
                 /\ home[unwound'[i]][1] = home[unwound'[j]][1] => unwound'[i] > unwound'[j]
      <4>1. i \in DOMAIN unwound
        BY <2>2, <2>c, <3>1
      <4>2. CASE j = c
        BY <1>4, <1>11, <2>2, <2>7, <4>1, <4>2
      <4>3. CASE j \in DOMAIN unwound
        BY <1>1, <2>2, <3>1, <4>1, <4>3 DEF Reversed
      <4> QED BY <2>2, <4>2, <4>3
    <3> QED BY <1>2, <3>1 DEF Reversed
  <2> QED BY <1>6, <2>3, <2>6, <2>8 DEF Undone
<1> QED BY <1>10, <1>11

\* A new effect stands behind those of the same list.
LEMMA AddsUndone ==
  ASSUME NEW T, NEW E \in Nat, NEW L, Undone(T, E, L), fiberState' \in FiberStates, Adds(E)
  PROVE  Undone(T, E, L)'
<1>1. FiberTyped(T, E, L) /\ Homes /\ Unwindings(T) /\ Reversed
  BY DEF Undone
<1>p. PICK e, m : e = Len(home) + 1 /\ m = Len(fiberLists[current]) + 1
  OBVIOUS
<1>2. UNCHANGED <<closed, current, settled, unwound, task>> /\ Len(home) < E
      /\ fiberLists' = [fiberLists EXCEPT ![current] = Append(@, e)]
      /\ home' = Append(home, <<current, m>>) /\ fiberHeld' = fiberHeld \cup {e}
  BY <1>p DEF Adds
<1>3. /\ current \in DOMAIN fiberLists /\ current \in Nat /\ fiberLists[current] \in Seq(Nat) /\ Len(fiberLists[current]) \in Nat
      /\ DOMAIN fiberLists[current] = 1..Len(fiberLists[current])
      /\ Len(home) \in Nat /\ DOMAIN home = 1..Len(home) /\ e \in Nat \ {0} /\ m \in Nat \ {0} /\ e \notin DOMAIN home
  BY <1>1, <1>p, FiberFacts
<1>4. /\ home' \in Seq(Nat \X Nat) /\ Len(home') = e /\ DOMAIN home' = DOMAIN home \cup {e}
      /\ home'[e] = <<current, m>> /\ \A d \in DOMAIN home : home'[d] = home[d]
  <2> DEFINE P == Nat \X Nat
  <2>1. home \in Seq(P) /\ <<current, m>> \in P
    BY <1>1, <1>3 DEF FiberTyped
  <2> HIDE DEF P
  <2>2. home' \in Seq(P) /\ Len(home') = e /\ home'[e] = <<current, m>> /\ \A d \in 1..Len(home) : home'[d] = home[d]
    BY <1>2, <1>p, <2>1, AppendProperties
  <2>3. DOMAIN home' = 1..e
    BY <2>2, LenProperties
  <2>4. 1..e = 1..Len(home) \cup {e}
    BY <1>3, <1>p
  <2> QED BY <1>3, <2>2, <2>3, <2>4 DEF P
<1>5. /\ Append(fiberLists[current], e) \in Seq(Nat) /\ Len(Append(fiberLists[current], e)) = m
      /\ DOMAIN Append(fiberLists[current], e) = DOMAIN fiberLists[current] \cup {m}
      /\ Append(fiberLists[current], e)[m] = e
      /\ \A i \in DOMAIN fiberLists[current] : Append(fiberLists[current], e)[i] = fiberLists[current][i]
  <2>1. /\ Append(fiberLists[current], e) \in Seq(Nat) /\ Len(Append(fiberLists[current], e)) = m
        /\ Append(fiberLists[current], e)[m] = e
        /\ \A i \in 1..Len(fiberLists[current]) : Append(fiberLists[current], e)[i] = fiberLists[current][i]
    BY <1>3, <1>p, AppendProperties
  <2>2. DOMAIN Append(fiberLists[current], e) = 1..m
    BY <2>1, LenProperties
  <2>3. 1..m = 1..Len(fiberLists[current]) \cup {m}
    BY <1>3, <1>p
  <2> QED BY <1>3, <2>1, <2>2, <2>3
<1>6. /\ fiberLists' \in Seq(Seq(Nat)) /\ Len(fiberLists') = Len(fiberLists) /\ DOMAIN fiberLists' = DOMAIN fiberLists
      /\ \A g \in DOMAIN fiberLists : fiberLists'[g] = IF g = current THEN Append(fiberLists[current], e) ELSE fiberLists[g]
  <2>1. fiberLists \in Seq(Seq(Nat)) /\ DOMAIN fiberLists = 1..Len(fiberLists)
    BY <1>1, FiberFacts DEF FiberTyped
  <2> HIDE <1>5
  <2>2. Append(fiberLists[current], e) \in Seq(Nat)
    BY <1>5
  <2>3. /\ fiberLists' \in Seq(Seq(Nat)) /\ Len(fiberLists') = Len(fiberLists)
        /\ \A g \in 1..Len(fiberLists) : fiberLists'[g] = IF g = current THEN Append(fiberLists[current], e) ELSE fiberLists[g]
    BY <1>2, <1>3, <2>1, <2>2, ExceptSeq
  <2> QED BY <2>1, <2>3, LenProperties
<1>7. FiberTyped(T, E, L)'
  <2>1. Len(home') <= E
    BY <1>2, <1>3, <1>4, <1>p
  <2>2. settled' \subseteq DOMAIN home' /\ fiberHeld' \subseteq DOMAIN home'
    BY <1>1, <1>2, <1>4 DEF FiberTyped
  <2> QED BY <1>1, <1>2, <1>4, <1>6, <2>1, <2>2 DEF FiberTyped
<1>8. Homes'
  <2>1. ASSUME NEW g \in DOMAIN fiberLists', NEW i \in DOMAIN fiberLists'[g], fiberLists'[g][i] # 0
        PROVE  fiberLists'[g][i] \in DOMAIN home' /\ home'[fiberLists'[g][i]] = <<g, i>>
    <3>1. CASE g = current /\ i = m
      BY <1>3, <1>4, <1>5, <1>6, <3>1
    <3>2. CASE ~(g = current /\ i = m)
      <4>1. i \in DOMAIN fiberLists[g] /\ fiberLists'[g][i] = fiberLists[g][i]
        BY <1>5, <1>6, <2>1, <3>2
      <4> QED BY <1>1, <1>4, <1>6, <2>1, <4>1 DEF Homes
    <3> QED BY <3>1, <3>2
  <2>2. \A g \in DOMAIN fiberLists : Len(fiberLists[g]) <= Len(home) /\ Len(fiberLists[g]) \in Nat
    BY <1>1, FiberFacts DEF Homes
  <2>3. \A g \in DOMAIN fiberLists' : Len(fiberLists'[g]) <= Len(home')
    <3>1. Len(home') = Len(home) + 1
      BY <1>4, <1>p
    <3>2. ASSUME NEW g \in DOMAIN fiberLists
          PROVE  Len(fiberLists'[g]) <= Len(home')
      <4>1. CASE g = current
        <5>1. Len(fiberLists'[g]) = Len(fiberLists[current]) + 1
          BY <1>3, <1>5, <1>6, <1>p, <4>1
        <5> QED BY <2>2, <3>1, <4>1, <5>1
      <4>2. CASE g # current
        BY <1>6, <2>2, <3>1, <4>2
      <4> QED BY <4>1, <4>2
    <3> QED BY <1>6, <3>2
  <2>4. ASSUME NEW d \in DOMAIN home'
        PROVE  /\ home'[d][1] \in DOMAIN fiberLists' /\ home'[d][2] \in 1..Len(home')
               /\ home'[d][1] = current' => home'[d][2] <= Len(fiberLists'[current'])
    <3>1. CASE d = e
      <4>1. home'[d][1] = current /\ home'[d][2] = m
        BY <1>4, <3>1
      <4>2. m \in 1..e
        BY <1>3, <1>p, <2>2
      <4> QED BY <1>2, <1>3, <1>4, <1>5, <1>6, <4>1, <4>2
    <3>2. CASE d \in DOMAIN home
      <4>1. home[d][1] \in DOMAIN fiberLists /\ home[d][2] \in 1..Len(home)
            /\ (home[d][1] = current => home[d][2] <= Len(fiberLists[current]))
        BY <1>1, <3>2 DEF Homes
      <4> QED BY <1>2, <1>3, <1>4, <1>5, <1>6, <1>p, <3>2, <4>1, SMTT(30)
    <3> QED BY <1>4, <3>1, <3>2
  <2>5. ASSUME NEW d \in DOMAIN home', NEW c \in DOMAIN home', d < c, home'[d][1] = home'[c][1]
        PROVE  home'[d][2] < home'[c][2]
    <3>1. d \in DOMAIN home
      BY <1>3, <1>4, <1>p, <2>5
    <3>2. CASE c = e
      <4>1. home[d][1] = current /\ home'[c][2] = m /\ home'[d] = home[d]
        BY <1>4, <2>5, <3>1, <3>2
      <4>2. home[d][2] <= Len(fiberLists[current]) /\ home[d][2] \in 1..Len(home)
        BY <1>1, <3>1, <4>1 DEF Homes
      <4> QED BY <1>3, <1>p, <4>1, <4>2
    <3>3. CASE c \in DOMAIN home
      BY <1>1, <1>4, <2>5, <3>1, <3>3 DEF Homes
    <3> QED BY <1>4, <3>2, <3>3
  <2> QED BY <2>1, <2>3, <2>4, <2>5 DEF Homes
<1>9. \A k \in DOMAIN unwound : unwound[k] \in DOMAIN home /\ home'[unwound[k]] = home[unwound[k]]
  BY <1>1, <1>4 DEF Unwindings, FiberTyped
<1>10. Unwindings(T)'
  <2>1. ASSUME NEW u \in T, Unwinds(u)
        PROVE  task[u].n <= Len(fiberLists'[task[u].g])
    <3>1. task[u].g \in DOMAIN fiberLists /\ task[u].n <= Len(fiberLists[task[u].g])
      BY <1>1, <2>1 DEF Unwindings, FiberTyped
    <3>2. task[u].n \in Nat
      BY <1>1, FiberFacts
    <3>3. CASE task[u].g = current
      BY <1>3, <1>5, <1>6, <1>p, <3>1, <3>2, <3>3
    <3>4. CASE task[u].g # current
      BY <1>6, <3>1, <3>4
    <3> QED BY <3>3, <3>4
  <2> QED BY <1>1, <1>2, <1>9, <2>1 DEF Unwindings, Unwinds
<1>11. Reversed'
  BY <1>1, <1>2, <1>9 DEF Reversed
<1> QED BY <1>7, <1>8, <1>10, <1>11 DEF Undone

\* A removed effect leaves a gap that moves no other.
LEMMA RemovesUndone ==
  ASSUME NEW T, NEW E, NEW L, Undone(T, E, L), fiberState' \in FiberStates, NEW e \in DOMAIN home, Removes(e)
  PROVE  Undone(T, E, L)'
<1>1. FiberTyped(T, E, L) /\ Homes /\ Unwindings(T) /\ Reversed
  BY DEF Undone
<1>p. PICK g, i : g = home[e][1] /\ i = home[e][2]
  OBVIOUS
<1>2. UNCHANGED <<closed, current, home, unwound, task>> /\ i \in DOMAIN fiberLists[g]
      /\ fiberLists' = [fiberLists EXCEPT ![g][i] = 0] /\ settled' = settled \cup {e} /\ fiberHeld' = fiberHeld \ {e}
  BY <1>p DEF Removes
<1>3. g \in DOMAIN fiberLists /\ fiberLists[g] \in Seq(Nat)
  BY <1>1, <1>p, FiberFacts DEF Homes
<1>l. PICK l : l = [fiberLists[g] EXCEPT ![i] = 0]
  OBVIOUS
<1>4. l \in Seq(Nat) /\ Len(l) = Len(fiberLists[g]) /\ DOMAIN l = DOMAIN fiberLists[g]
      /\ \A j \in DOMAIN l : l[j] = IF j = i THEN 0 ELSE fiberLists[g][j]
  <2>1. l \in Seq(Nat) /\ Len(l) = Len(fiberLists[g]) /\ \A j \in 1..Len(fiberLists[g]) : l[j] = IF j = i THEN 0 ELSE fiberLists[g][j]
    BY <1>2, <1>3, <1>l, ExceptSeq
  <2> QED BY <1>3, <2>1, LenProperties
<1>5. /\ fiberLists' \in Seq(Seq(Nat)) /\ Len(fiberLists') = Len(fiberLists) /\ DOMAIN fiberLists' = DOMAIN fiberLists
      /\ \A h \in DOMAIN fiberLists : fiberLists'[h] = IF h = g THEN l ELSE fiberLists[h]
  <2>1. fiberLists \in Seq(Seq(Nat)) /\ fiberLists' = [fiberLists EXCEPT ![g] = l]
    BY <1>1, <1>2, <1>l DEF FiberTyped
  <2>2. /\ fiberLists' \in Seq(Seq(Nat)) /\ Len(fiberLists') = Len(fiberLists)
        /\ \A h \in 1..Len(fiberLists) : fiberLists'[h] = IF h = g THEN l ELSE fiberLists[h]
    BY <1>3, <1>4, <2>1, ExceptSeq
  <2> QED BY <2>1, <2>2, LenProperties
<1>6. FiberTyped(T, E, L)'
  BY <1>1, <1>2, <1>5 DEF FiberTyped
<1>7. \A h \in DOMAIN fiberLists : Len(fiberLists'[h]) = Len(fiberLists[h]) /\ DOMAIN fiberLists'[h] = DOMAIN fiberLists[h]
  BY <1>4, <1>5
<1>8. Homes'
  <2>1. ASSUME NEW h \in DOMAIN fiberLists', NEW j \in DOMAIN fiberLists'[h], fiberLists'[h][j] # 0
        PROVE  fiberLists'[h][j] \in DOMAIN home /\ home[fiberLists'[h][j]] = <<h, j>>
    <3>1. fiberLists'[h][j] = fiberLists[h][j] /\ j \in DOMAIN fiberLists[h] /\ h \in DOMAIN fiberLists
      BY <1>4, <1>5, <1>7, <2>1
    <3> QED BY <1>1, <2>1, <3>1 DEF Homes
  <2>2. current \in DOMAIN fiberLists
    BY <1>1, FiberFacts
  <2> QED BY <1>1, <1>2, <1>5, <1>7, <2>1, <2>2 DEF Homes
<1>9. Unwindings(T)'
  <2>1. \A u \in T : Unwinds(u) => task[u].n <= Len(fiberLists'[task[u].g])
    BY <1>1, <1>7 DEF Unwindings, FiberTyped
  <2> QED BY <1>1, <1>2, <2>1 DEF Unwindings, Unwinds
<1>10. Reversed'
  BY <1>1, <1>2 DEF Reversed
<1> QED BY <1>6, <1>8, <1>9, <1>10 DEF Undone

\* Every step of every task keeps Undone.
LEMMA UndoneStep ==
  ASSUME NEW T, NEW E \in Nat, NEW L \in Nat, NEW X, NEW C, Undone(T, E, L),
         Fib(T, E, L, X, C)!Next \/ UNCHANGED fiberVars
  PROVE  Undone(T, E, L)'
<1>1. CASE Fib(T, E, L, X, C)!Next
  <2>1. /\ fiberState' \in FiberStates
        /\ \/ \E t \in T : Turns(t) \/ Begins(t) \/ Leaves(t, L) \/ Releases(t)
           \/ Adds(E)
           \/ \E e \in DOMAIN home : Removes(e)
    BY <1>1, FiberSteps DEF Undone
  <2> QED BY <2>1, TurnsUndone, BeginsUndone, LeavesUndone, ReleasesUndone, AddsUndone, RemovesUndone
<1>2. CASE UNCHANGED fiberVars
  BY <1>2 DEF fiberVars, Undone, FiberTyped, Homes, Unwindings, Unwinds, Reversed
<1> QED BY <1>1, <1>2

\* Fiber.Init, with tasks T.
Untouched(T) ==
    /\ fiberState = "pending" /\ fiberLists = <<<<>>>> /\ closed = {} /\ current = 1
    /\ home = <<>> /\ settled = {} /\ fiberHeld = {} /\ unwound = <<>>
    /\ task = [t \in T |-> Resting("idle")]

\* A fiber that was never loaded.
LEMMA UndoneInit ==
  ASSUME NEW T, NEW E \in Nat, NEW L \in Nat, L >= 1, Untouched(T)
  PROVE  Undone(T, E, L)
<1>1. /\ fiberState = "pending" /\ fiberLists = <<<<>>>> /\ closed = {} /\ current = 1
      /\ home = <<>> /\ settled = {} /\ fiberHeld = {} /\ unwound = <<>>
      /\ task = [t \in T |-> Resting("idle")]
  BY DEF Untouched
<1>2. fiberLists \in Seq(Seq(Nat)) /\ Len(fiberLists) = 1 /\ DOMAIN fiberLists = {1} /\ fiberLists[1] = <<>>
  BY <1>1
<1>3. \A t \in T : ~Unwinds(t) /\ task[t].g = 0 /\ task[t].n = 0
  BY <1>1, RestingFacts DEF Unwinds
<1>4. task \in [T -> Suspended]
  BY <1>1, RestingFacts
<1>5. FiberTyped(T, E, L)
  BY <1>1, <1>2, <1>4 DEF FiberTyped, FiberStates
<1>6. Homes /\ Unwindings(T) /\ Reversed
  BY <1>1, <1>2, <1>3 DEF Homes, Unwindings, Reversed
<1> QED BY <1>5, <1>6 DEF Undone

-----------------------------------------------------------------------------
(* What one task at a time adds, with no effects created late and no task   *)
(* cancelled.                                                               *)

\* Held effects stand in the current list, before what was unwound; the fiber
\* is at rest only with nothing fiberHeld.
Owed(t) ==
    /\ \A e \in fiberHeld : /\ home[e][1] = current /\ home[e][2] \in DOMAIN fiberLists[current]
                       /\ fiberLists[current][home[e][2]] = e /\ e \notin settled
    /\ IF Unwinds(t)
       THEN task[t].g = current /\ current \in closed /\ \A e \in fiberHeld : home[e][2] <= task[t].n
       ELSE current \notin closed
    /\ task[t].at = "idle" => fiberState \in {"pending", "active", "failed", "disposed"}
    /\ task[t].at \in {"body", "fail", "stale"} => fiberState = "loading"
    /\ task[t].at \in {"unload", "dispose"} => fiberState = "unloading"
    /\ fiberState \in {"pending", "failed", "disposed"} => fiberHeld = {}

\* A fiber that was never loaded holds nothing.
LEMMA OwedInit ==
  ASSUME NEW t, Untouched({t})
  PROVE  Owed(t)
BY DEF Untouched, Resting, Owed, Unwinds, Ends

\* When the one task begins to unwind, all that is held is in front of it.
LEMMA OwedBegins ==
  ASSUME NEW t, NEW E, NEW L, Undone({t}, E, L), Owed(t), ~Unwinds(t), NEW at \in Ends,
         Fib({t}, E, L, FALSE, FALSE)!StartUnwind(t, at), UNCHANGED <<home, settled, fiberHeld, unwound>>,
         current \in closed \/ fiberState' = IF at \in {"fail", "stale"} THEN "loading" ELSE "unloading"
  PROVE  Owed(t)'
<1>1. current \notin closed
  BY DEF Owed
<1>2. closed' = closed \cup {current} /\ UNCHANGED <<fiberLists, current>>
      /\ task' = [task EXCEPT ![t] = [at |-> at, g |-> current, n |-> Len(fiberLists[current])]]
      /\ fiberState' = IF at \in {"fail", "stale"} THEN "loading" ELSE "unloading"
  BY <1>1 DEF Fib!StartUnwind
<1>3. task'[t] = [at |-> at, g |-> current, n |-> Len(fiberLists[current])]
  BY <1>2 DEF Undone, FiberTyped
<1>4. current \in DOMAIN fiberLists /\ DOMAIN fiberLists[current] = 1..Len(fiberLists[current])
  BY FiberFacts DEF Undone
<1>5. Unwinds(t)' /\ task'[t].g = current /\ task'[t].n = Len(fiberLists[current]) /\ task'[t].at = at
  BY <1>3 DEF Unwinds
<1>6. \A e \in fiberHeld : home[e][2] <= Len(fiberLists[current])
  BY <1>4 DEF Owed
<1> QED BY <1>2, <1>5, <1>6 DEF Owed, Ends

\* Where the one task is agrees with the state of the fiber.
LEMMA OwedTurns ==
  ASSUME NEW t, NEW E, NEW L, Undone({t}, E, L), Owed(t), ~Unwinds(t), NEW at \in {"idle", "body"},
         task' = [task EXCEPT ![t] = Resting(at)], UNCHANGED <<fiberLists, closed, current, home, settled, fiberHeld, unwound>>,
         \/ at = "idle" /\ fiberState' = "active"
         \/ at = "body" /\ fiberState' = "loading"
         \/ at = "idle" /\ fiberState' = "disposed" /\ fiberHeld = {}
  PROVE  Owed(t)'
<1>1. task'[t] = Resting(at)
  BY DEF Undone, FiberTyped
<1>2. ~Unwinds(t)' /\ task'[t].at = at
  BY <1>1, RestingFacts DEF Unwinds
<1> QED BY <1>2 DEF Owed, Ends

\* One task that is not cancelled keeps Owed, and never leaves DISPOSED.
LEMMA OwedStep ==
  ASSUME NEW t, NEW E \in Nat, NEW L \in Nat, Undone({t}, E, L), Owed(t),
         Fib({t}, E, L, FALSE, FALSE)!Next \/ UNCHANGED fiberVars
  PROVE  Owed(t)' /\ (fiberState = "disposed" => fiberState' = "disposed")
<1> DEFINE T == {t}
<1>1. FiberTyped(T, E, L) /\ Homes /\ Unwindings(T) /\ task[t] \in Suspended
  BY DEF Undone, FiberTyped
<1>2. CASE Fib({t}, E, L, FALSE, FALSE)!Load(t)
  <2>1. task[t].at = "idle" /\ fiberState = "pending" /\ fiberState' = "loading" /\ task' = [task EXCEPT ![t] = Resting("body")]
        /\ UNCHANGED <<fiberLists, closed, current, home, settled, fiberHeld, unwound>>
    BY <1>2 DEF Fib!Load, Fib!Idle, Fib!listVars, Fib!effectVars, Resting
  <2> QED BY <2>1, OwedTurns DEF Unwinds, Ends
<1>3. CASE Fib({t}, E, L, FALSE, FALSE)!LoadFails(t, "fail") \/ Fib({t}, E, L, FALSE, FALSE)!LoadFails(t, "stale")
  <2>1. PICK at \in {"fail", "stale"} : Fib({t}, E, L, FALSE, FALSE)!LoadFails(t, at)
    BY <1>3
  <2>2. /\ task[t].at = "body" /\ Fib({t}, E, L, FALSE, FALSE)!StartUnwind(t, at)
        /\ current \in closed \/ fiberState' = fiberState
        /\ UNCHANGED <<home, settled, fiberHeld, unwound>>
    BY <2>1 DEF Fib!LoadFails, Fib!effectVars
  <2>3. fiberState = "loading" /\ ~Unwinds(t) /\ at \in Ends
    BY <2>2 DEF Owed, Unwinds, Ends
  <2> QED BY <2>2, <2>3, OwedBegins
<1>4. CASE Fib({t}, E, L, FALSE, FALSE)!LoadCommits(t)
  <2>1. task[t].at = "body" /\ fiberState' = "active" /\ task' = [task EXCEPT ![t] = Resting("idle")]
        /\ UNCHANGED <<fiberLists, closed, current, home, settled, fiberHeld, unwound>>
    BY <1>4 DEF Fib!LoadCommits, Fib!Idle, Fib!listVars, Fib!effectVars, Resting
  <2>2. fiberState = "loading"
    BY <2>1 DEF Owed
  <2> QED BY <2>1, <2>2, OwedTurns DEF Unwinds, Ends
<1>5. CASE Fib({t}, E, L, FALSE, FALSE)!Unload(t)
  <2>1. /\ task[t].at = "idle" /\ Fib({t}, E, L, FALSE, FALSE)!StartUnwind(t, "unload")
        /\ current \in closed \/ fiberState' = "unloading"
        /\ UNCHANGED <<home, settled, fiberHeld, unwound>>
    <3>1. task[t] = Resting("idle")
      BY <1>5 DEF Fib!Unload, Fib!Idle, Resting
    <3>2. task[t].at = "idle"
      BY <3>1 DEF Resting
    <3> QED BY <1>5, <3>2 DEF Fib!Unload, Fib!effectVars
  <2>2. ~Unwinds(t) /\ "unload" \in Ends /\ "unload" \notin {"fail", "stale"}
    BY <2>1 DEF Unwinds, Ends
  <2>3. fiberState \in {"loading", "active"} /\ Owed(t)'
    BY <1>5, <2>1, <2>2, OwedBegins DEF Fib!Unload, Fib!LiveStates
  <2> QED BY <2>3
<1>6. CASE Fib({t}, E, L, FALSE, FALSE)!Dispose(t)
  <2>1. /\ task[t] = Resting("idle") /\ task[t].at = "idle" /\ fiberState # "disposed"
        /\ UNCHANGED <<home, settled, fiberHeld, unwound>>
    BY <1>6 DEF Fib!Dispose, Fib!Idle, Fib!effectVars, Resting
  <2>2. ~Unwinds(t) /\ "dispose" \in Ends /\ fiberState \in {"pending", "active", "failed"}
    BY <2>1 DEF Unwinds, Ends, Owed
  <2>3. CASE fiberState = "active"
    <3>1. /\ Fib({t}, E, L, FALSE, FALSE)!StartUnwind(t, "dispose")
          /\ current \in closed \/ fiberState' = "unloading"
      BY <1>6, <2>3 DEF Fib!Dispose, Fib!LiveStates
    <3> QED BY <2>1, <2>2, <3>1, OwedBegins
  <2>4. CASE fiberState # "active"
    <3>1. fiberState' = "disposed" /\ UNCHANGED <<fiberLists, closed, current, task>> /\ fiberHeld = {}
      BY <1>6, <2>2, <2>4 DEF Fib!Dispose, Fib!LiveStates, Fib!listVars, Owed
    <3>2. task' = [task EXCEPT ![t] = Resting("idle")]
      BY <1>1, <2>1, <3>1 DEF FiberTyped
    <3> QED BY <2>1, <2>2, <3>1, <3>2, OwedTurns
  <2> QED BY <2>3, <2>4
<1>7. CASE Fib({t}, E, L, FALSE, FALSE)!UnwindStep(t)
  <2>p. PICK n, e : n = task[t].n /\ e = fiberLists[current][n]
    OBVIOUS
  <2>1. Unwinds(t) /\ task[t].g = current /\ current \in closed /\ \A d \in fiberHeld : home[d][2] <= n
    BY <1>7, <2>p DEF Fib!UnwindStep, Fib!Unwinding, Unwinds, Ends, Owed
  <2>2. /\ UNCHANGED <<fiberState, fiberLists, closed, current, home>> /\ n > 0
        /\ task' = [task EXCEPT ![t].n = @ - 1]
        /\ IF e = 0 \/ e \in settled
           THEN UNCHANGED <<settled, fiberHeld, unwound>>
           ELSE settled' = settled \cup {e} /\ fiberHeld' = fiberHeld \ {e}
    BY <1>7, <2>1, <2>p DEF Fib!UnwindStep, Fib!listVars
  <2>3. task'[t].at = task[t].at /\ task'[t].g = current /\ task'[t].n = n - 1 /\ n \in Nat
    BY <1>1, <2>1, <2>2, <2>p DEF FiberTyped, Suspended
  <2>4. \A d \in fiberHeld' : d \in fiberHeld /\ d # e /\ home[d][2] # n
    <3>1. ASSUME NEW d \in fiberHeld'
          PROVE  d \in fiberHeld /\ d # e
      <4>1. d \in fiberHeld /\ d \notin settled
        BY <2>2, <3>1 DEF Owed
      <4>2. d # 0
        BY <1>1, <4>1, FiberFacts DEF FiberTyped
      <4> QED BY <2>2, <3>1, <4>1, <4>2
    <3>2. \A d \in fiberHeld' : fiberLists[current][home[d][2]] = d
      BY <3>1 DEF Owed
    <3> QED BY <2>p, <3>1, <3>2
  <2>5. \A d \in fiberHeld' : home[d][2] <= n - 1
    <3>1. \A d \in fiberHeld' : home[d][2] \in Nat
      BY <1>1, <2>4, FiberFacts DEF FiberTyped
    <3> QED BY <2>1, <2>3, <2>4, <3>1
  <2>6. \A d \in fiberHeld' : d \notin settled'
    BY <2>2, <2>4 DEF Owed
  <2>7. \A d \in fiberHeld' : /\ home[d][1] = current /\ home[d][2] \in DOMAIN fiberLists[current]
                         /\ fiberLists[current][home[d][2]] = d
    BY <2>4 DEF Owed
  <2>8. fiberState \in {"loading", "unloading"} /\ Unwinds(t)'
    BY <2>1, <2>3 DEF Owed, Unwinds, Ends
  <2> QED BY <2>1, <2>2, <2>3, <2>5, <2>6, <2>7, <2>8 DEF Owed
<1>8. CASE Fib({t}, E, L, FALSE, FALSE)!UnwindEnds(t)
  <2>1. /\ Unwinds(t) /\ task[t].n = 0 /\ current' = Len(fiberLists) + 1 /\ UNCHANGED <<closed, home, settled, fiberHeld>>
        /\ task' = [task EXCEPT ![t] = Resting("idle")]
        /\ fiberState' \in {"pending", "failed", "disposed"}
    BY <1>8 DEF Fib!UnwindEnds, Fib!Unwinding, Fib!Idle, Fib!Final, Fib!effectVars, Unwinds, Ends, Resting
  <2>2. fiberHeld = {}
    <3>1. SUFFICES ASSUME NEW d \in fiberHeld
                   PROVE  FALSE
      OBVIOUS
    <3>2. home[d][2] <= 0 /\ home[d][2] \in DOMAIN fiberLists[current]
      BY <2>1 DEF Owed
    <3>3. current \in DOMAIN fiberLists /\ DOMAIN fiberLists[current] = 1..Len(fiberLists[current]) /\ Len(fiberLists[current]) \in Nat
      BY <1>1, FiberFacts
    <3> QED BY <3>2, <3>3
  <2>3. task'[t] = Resting("idle") /\ current' \notin closed
    BY <1>1, <2>1, FiberFacts DEF FiberTyped
  <2>4. ~Unwinds(t)' /\ task'[t].at = "idle"
    BY <2>3, RestingFacts DEF Unwinds
  <2>5. fiberState # "disposed"
    BY <2>1 DEF Owed, Unwinds, Ends
  <2> QED BY <2>1, <2>2, <2>3, <2>4, <2>5 DEF Owed
<1>9. CASE Fib({t}, E, L, FALSE, FALSE)!Effect
  <2>p. PICK e, m : e = Len(home) + 1 /\ m = Len(fiberLists[current]) + 1
    OBVIOUS
  <2>1. /\ UNCHANGED <<fiberState, closed, current, settled, task>> /\ fiberState \in {"loading", "active"} /\ current \notin closed
        /\ fiberLists' = [fiberLists EXCEPT ![current] = Append(@, e)]
        /\ home' = Append(home, <<current, m>>) /\ fiberHeld' = fiberHeld \cup {e}
    BY <1>9, <2>p DEF Fib!Effect, Fib!LiveStates
  <2>2. ~Unwinds(t) /\ (~Unwinds(t))'
    BY <2>1 DEF Owed, Unwinds
  <2>3. /\ current \in DOMAIN fiberLists /\ fiberLists[current] \in Seq(Nat) /\ DOMAIN fiberLists[current] = 1..Len(fiberLists[current])
        /\ Len(fiberLists[current]) \in Nat /\ Len(home) \in Nat /\ DOMAIN home = 1..Len(home) /\ fiberHeld \subseteq DOMAIN home
        /\ settled \subseteq DOMAIN home /\ e \in Nat /\ e \notin DOMAIN home
    BY <1>1, <2>p, FiberFacts DEF FiberTyped
  <2>4. home'[e] = <<current, m>> /\ \A d \in DOMAIN home : home'[d] = home[d]
    <3> DEFINE P == Nat \X Nat
    <3>1. home \in Seq(P) /\ <<current, m>> \in P
      BY <1>1, <2>3, <2>p, FiberFacts DEF FiberTyped
    <3> HIDE DEF P
    <3> QED BY <2>1, <2>3, <2>p, <3>1, AppendProperties
  <2>5. /\ fiberLists'[current] = Append(fiberLists[current], e)
        /\ Append(fiberLists[current], e)[m] = e /\ DOMAIN Append(fiberLists[current], e) = 1..m
        /\ \A i \in DOMAIN fiberLists[current] : Append(fiberLists[current], e)[i] = fiberLists[current][i] /\ i \in 1..m
    <3>1. fiberLists'[current] = Append(fiberLists[current], e)
      BY <2>1, <2>3
    <3>2. /\ Append(fiberLists[current], e) \in Seq(Nat) /\ Len(Append(fiberLists[current], e)) = m
          /\ Append(fiberLists[current], e)[m] = e
          /\ \A i \in 1..Len(fiberLists[current]) : Append(fiberLists[current], e)[i] = fiberLists[current][i]
      BY <2>3, <2>p, AppendProperties
    <3>3. DOMAIN Append(fiberLists[current], e) = 1..m /\ \A i \in 1..Len(fiberLists[current]) : i \in 1..m
      BY <2>3, <2>p, <3>2, LenProperties
    <3> QED BY <2>3, <3>1, <3>2, <3>3
  <2>6. ASSUME NEW d \in fiberHeld'
        PROVE  /\ home'[d][1] = current /\ home'[d][2] \in DOMAIN fiberLists'[current]
               /\ fiberLists'[current][home'[d][2]] = d /\ d \notin settled
    <3>1. CASE d = e
      <4>1. home'[d][1] = current /\ home'[d][2] = m /\ m \in 1..m /\ d \notin settled
        BY <2>3, <2>4, <2>p, <3>1
      <4> QED BY <2>5, <3>1, <4>1
    <3>2. CASE d \in fiberHeld
      BY <2>3, <2>4, <2>5, <3>2 DEF Owed
    <3> QED BY <2>1, <3>1, <3>2
  <2> QED BY <2>1, <2>2, <2>6 DEF Owed
<1>10. CASE Fib({t}, E, L, FALSE, FALSE)!CallHandle
  <2>1. PICK e \in DOMAIN home :
           /\ UNCHANGED <<fiberState, closed, current, home, task>>
           /\ home[e][2] \in DOMAIN fiberLists[home[e][1]] /\ fiberLists' = [fiberLists EXCEPT ![home[e][1]][home[e][2]] = 0]
           /\ settled' = settled \cup {e} /\ fiberHeld' = fiberHeld \ {e}
    BY <1>10 DEF Fib!CallHandle
  <2>2. ASSUME NEW d \in fiberHeld'
        PROVE  /\ d \in fiberHeld /\ home[d][1] = current /\ home[d][2] \in DOMAIN fiberLists'[current]
               /\ fiberLists'[current][home[d][2]] = d /\ d \notin settled'
    <3>1. d \in fiberHeld /\ d # e /\ d \in DOMAIN home /\ home[d][1] = current
          /\ home[d][2] \in DOMAIN fiberLists[current] /\ fiberLists[current][home[d][2]] = d /\ d \notin settled
      BY <1>1, <2>1 DEF Owed, FiberTyped
    <3>2. ~(home[e][1] = current /\ home[e][2] = home[d][2])
      <4>1. d \in Nat /\ e \in Nat /\ home[d][2] \in Nat
        BY <1>1, <3>1, FiberFacts, SMTT(30)
      <4>2. d < e \/ e < d
        BY <3>1, <4>1
      <4> QED BY <1>1, <3>1, <4>1, <4>2, SMTT(30) DEF Homes
    <3>3. fiberLists \in Seq(Seq(Nat)) /\ current \in DOMAIN fiberLists
      BY <1>1, FiberFacts DEF FiberTyped
    <3>4. DOMAIN fiberLists'[current] = DOMAIN fiberLists[current] /\ fiberLists'[current][home[d][2]] = fiberLists[current][home[d][2]]
      BY <2>1, <3>1, <3>2, <3>3
    <3> QED BY <2>1, <3>1, <3>4
  <2> QED BY <2>1, <2>2 DEF Owed, Unwinds
<1>11. CASE UNCHANGED fiberVars
  BY <1>11 DEF fiberVars, Owed, Unwinds
<1>12. ~Fib({t}, E, L, FALSE, FALSE)!LoadCancelled(t) /\ ~Fib({t}, E, L, FALSE, FALSE)!UnwindCancelled(t)
  BY DEF Fib!LoadCancelled, Fib!UnwindCancelled
<1> QED
  BY <1>2, <1>3, <1>4, <1>5, <1>6, <1>7, <1>8, <1>9, <1>10, <1>11, <1>12 DEF Fib!Next

\* A sequence whose elements are in a smaller set.
LEMMA Narrowed ==
  ASSUME NEW X, NEW S, NEW s \in Seq(X), \A i \in 1..Len(s) : s[i] \in S
  PROVE  s \in Seq(S)
<1>1. Len(s) \in Nat /\ s \in [1..Len(s) -> X]
  BY LenProperties
<1>2. s = [i \in 1..Len(s) |-> s[i]]
  BY <1>1
<1>3. s \in [1..Len(s) -> S]
  BY <1>2
<1> QED BY <1>1, <1>3, SeqDef

\* The type invariant and the order of disposal that TLC checks.
LEMMA UndoneTyped ==
  ASSUME NEW T, NEW E \in Nat, NEW L \in Nat, NEW X, NEW C, Undone(T, E, L)
  PROVE  Fib(T, E, L, X, C)!TypeOK /\ Fib(T, E, L, X, C)!ReverseOnce
<1>1. FiberTyped(T, E, L) /\ Homes /\ Unwindings(T) /\ Reversed
  BY DEF Undone
<1>2. /\ Len(fiberLists) \in 1..L /\ DOMAIN fiberLists = 1..Len(fiberLists) /\ Len(home) \in 0..E /\ DOMAIN home = 1..Len(home)
      /\ \A g \in DOMAIN fiberLists :
            fiberLists[g] \in Seq(Nat) /\ Len(fiberLists[g]) \in Nat /\ DOMAIN fiberLists[g] = 1..Len(fiberLists[g])
  BY <1>1, FiberFacts DEF FiberTyped
<1>3. fiberLists \in Seq(Seq(0..E))
  <2>1. ASSUME NEW g \in DOMAIN fiberLists
        PROVE  fiberLists[g] \in Seq(0..E)
    <3>1. \A i \in 1..Len(fiberLists[g]) : fiberLists[g][i] \in 0..E
      BY <1>1, <1>2 DEF Homes
    <3> QED BY <1>2, <3>1, Narrowed
  <2>2. fiberLists \in Seq(Seq(Nat))
    BY <1>1 DEF FiberTyped
  <2> QED BY <1>2, <2>1, <2>2, Narrowed
<1>4. home \in Seq((1..L) \X (1..E))
  <2>1. ASSUME NEW e \in 1..Len(home)
        PROVE  home[e] \in (1..L) \X (1..E)
    <3>1. home[e] = <<home[e][1], home[e][2]>> /\ home[e][1] \in DOMAIN fiberLists /\ home[e][2] \in 1..Len(home)
      BY <1>1, <1>2, <2>1, FiberFacts DEF Homes
    <3>2. home[e][1] \in 1..L /\ home[e][2] \in 1..E
      BY <1>2, <3>1
    <3> QED BY <3>1, <3>2
  <2>2. home \in Seq(Nat \X Nat)
    BY <1>1 DEF FiberTyped
  <2> QED BY <2>1, <2>2, Narrowed
<1>5. settled \subseteq 1..E /\ fiberHeld \subseteq 1..E
  BY <1>1, <1>2 DEF FiberTyped
<1>6. unwound \in Seq(1..E)
  <2>1. \A k \in 1..Len(unwound) : unwound[k] \in 1..E
    BY <1>1, <1>5, FiberFacts DEF Unwindings
  <2>2. unwound \in Seq(Nat)
    BY <1>1 DEF FiberTyped
  <2> QED BY <2>1, <2>2, Narrowed
<1>7. task \in [T -> [at : {"idle", "body", "fail", "stale", "unload", "dispose"}, g : 0..L, n : 0..E]]
  <2>1. ASSUME NEW t \in T
        PROVE  task[t] \in [at : {"idle", "body", "fail", "stale", "unload", "dispose"}, g : 0..L, n : 0..E]
    <3>1. task[t] \in Suspended
      BY <1>1 DEF FiberTyped
    <3>2. task[t].g \in 0..L /\ task[t].n \in 0..E
      <4>1. CASE Unwinds(t)
        <5>1. task[t].g \in DOMAIN fiberLists /\ task[t].n <= Len(fiberLists[task[t].g]) /\ Len(fiberLists[task[t].g]) <= Len(home)
          BY <1>1, <4>1 DEF Unwindings, Homes, FiberTyped
        <5>2. task[t].n \in Nat /\ Len(fiberLists[task[t].g]) \in Nat
          BY <1>1, <1>2, <5>1, FiberFacts
        <5> QED BY <1>2, <5>1, <5>2
      <4>2. CASE ~Unwinds(t)
        BY <1>1, <4>2 DEF Unwindings
      <4> QED BY <4>1, <4>2
    <3> QED BY <3>1, <3>2 DEF Suspended, Ends
  <2> QED BY <1>1, <2>1 DEF FiberTyped
<1>8. current \in 1..Len(fiberLists) /\ closed \subseteq 1..L /\ fiberState \in FiberStates
  BY <1>1, <1>2 DEF FiberTyped
<1> QED
  BY <1>1, <1>2, <1>3, <1>4, <1>5, <1>6, <1>7, <1>8
     DEF Fib!TypeOK, Fib!States, Fib!ReverseOnce, FiberStates, Reversed

-----------------------------------------------------------------------------
(* The theorems.  TLC checks these properties on the two small trees and    *)
(* the fibers of the plugin runtime; here they hold of every forest, any    *)
(* tasks and every bound.                                                   *)

\* An effect keeps its place in its scope's list for as long as it is held,
\* and every dispose() under way is of a scope marked disposed.
THEOREM TypeCorrect == Spec => []TypeOK
<1>1. Init => Safe
  BY InitSafe
<1>2. Safe /\ [Next]_vars => Safe'
  BY SafeStep
<1>3. Safe => TypeOK
  BY SafeTyped
<1> QED BY <1>1, <1>2, <1>3, PTL DEF Spec

\* A scope that was disposed stays so, and once on_disposed fired it takes no
\* registration and is not disposed again, also when disposers raise, scopes
\* are orphaned and several tasks dispose at once.
THEOREM DisposedForGood == Spec => [][ForGood]_vars
<1>1. Init => Safe
  BY InitSafe
<1>2. Safe /\ [Next]_vars => Safe' /\ ForGood
  BY SafeStep, SafeForGood
<1> QED BY <1>1, <1>2, PTL DEF Spec

\* When no dispose() is under way nothing below a disposed scope is held,
\* whoever called them and in whatever order they interleaved.
THEOREM RestIsSettled ==
  ASSUME Forest, Raising = FALSE, NestedMints = TRUE
  PROVE  Spec => []AllSettled
<1>1. Init => Safe /\ Nested
  BY InitSafe, InitNested
<1>2. Safe /\ Nested /\ [Next]_vars => Safe' /\ Nested'
  BY SafeStep, NestedStep, Zenon
<1>3. Safe /\ Nested => AllSettled
  BY NestedSettles
<1> QED BY <1>1, <1>2, <1>3, PTL DEF Spec

\* With one task to dispose of scopes, a scope unwinds its own registrations
\* only when nothing below it is held.
THEOREM DescendantsGoFirst ==
  ASSUME Forest, Raising = FALSE, NestedMints = TRUE, \A t, u \in Tasks : t = u
  PROVE  Spec => []DeepestFirst
<1>1. Init => Safe /\ Nested /\ Settled
  BY InitSafe, InitNested DEF Init, Settled, Closed, Scopes
<1>2. Safe /\ Nested /\ Settled /\ [Next]_vars => Safe' /\ Nested' /\ Settled'
  BY SafeStep, NestedStep, SettledStep
<1>3. Safe /\ Settled => DeepestFirst
  BY SettledDeepest
<1> QED BY <1>1, <1>2, <1>3, PTL DEF Spec

\* A fiber that any tasks load, unload and dispose at once, cancelled anywhere,
\* calls a disposer at most once, and those of one list last-in first-out.
THEOREM FibersUnwindInReverse ==
  ASSUME NEW CONSTANT T, NEW CONSTANT E \in Nat, NEW CONSTANT L \in Nat, L >= 1,
         NEW CONSTANT X, NEW CONSTANT C
  PROVE  Fib(T, E, L, X, C)!Spec => [](Fib(T, E, L, X, C)!TypeOK /\ Fib(T, E, L, X, C)!ReverseOnce)
<1>1. Fib(T, E, L, X, C)!Init => Undone(T, E, L)
  <2>1. Fib(T, E, L, X, C)!Init => Untouched(T)
    BY DEF Fib!Init, Fib!Idle, Untouched, Resting
  <2> QED BY <2>1, UndoneInit
<1>2. Undone(T, E, L) /\ [Fib(T, E, L, X, C)!Next]_(Fib(T, E, L, X, C)!vars) => Undone(T, E, L)'
  BY UndoneStep DEF Fib!vars, Fib!listVars, Fib!effectVars, fiberVars
<1>3. Undone(T, E, L) => Fib(T, E, L, X, C)!TypeOK /\ Fib(T, E, L, X, C)!ReverseOnce
  BY UndoneTyped
<1> QED BY <1>1, <1>2, <1>3, PTL DEF Fib!Spec

\* No call begins on a disposed fiber, and its state is written over only where
\* a call ends, whatever the tasks.
LEMMA DisposedStep ==
  ASSUME NEW T, NEW E, NEW L, NEW X, NEW C, FiberTyped(T, E, L),
         Fib(T, E, L, X, C)!Next \/ UNCHANGED fiberVars
  PROVE  Fib(T, E, L, X, C)!NothingBeginsDisposed
<1> DEFINE Rest == [at |-> "idle", g |-> 0, n |-> 0]
<1> SUFFICES ASSUME fiberState = "disposed"
             PROVE  /\ \A u \in T : task[u] = Rest => task'[u] = Rest
                    /\ fiberState' = "disposed" \/ \E u \in T : task[u] # Rest /\ task'[u] = Rest
  BY DEF Fib!NothingBeginsDisposed, Fib!Idle
<1>1. task \in [T -> Suspended] /\ Rest.at = "idle"
  BY DEF FiberTyped
<1>2. ASSUME NEW t \in T, task[t] # Rest, task' = [task EXCEPT ![t] = Rest]
      PROVE  task[t] # Rest /\ task'[t] = Rest /\ \A u \in T : task[u] = Rest => task'[u] = Rest
  BY <1>1, <1>2
<1>3. ASSUME NEW t \in T, task[t] # Rest, \E r : task' = [task EXCEPT ![t] = r], fiberState' = fiberState
      PROVE  fiberState' = "disposed" /\ \A u \in T : task[u] = Rest => task'[u] = Rest
  BY <1>1, <1>3
<1>4. ASSUME NEW t \in T
      PROVE  ~Fib(T, E, L, X, C)!Load(t) /\ ~Fib(T, E, L, X, C)!Unload(t) /\ ~Fib(T, E, L, X, C)!Dispose(t)
  BY DEF Fib!Load, Fib!Unload, Fib!Dispose, Fib!LiveStates
<1>5. ASSUME NEW t \in T, NEW at \in {"fail", "stale"}, Fib(T, E, L, X, C)!LoadFails(t, at)
      PROVE  /\ task[t] # Rest
             /\ \/ task' = [task EXCEPT ![t] = Rest]
                \/ (\E r : task' = [task EXCEPT ![t] = r]) /\ fiberState' = fiberState
  BY <1>5 DEF Fib!LoadFails, Fib!StartUnwind, Fib!Idle
<1>6. ASSUME NEW t \in T,
             \/ Fib(T, E, L, X, C)!LoadCommits(t) \/ Fib(T, E, L, X, C)!LoadCancelled(t)
             \/ Fib(T, E, L, X, C)!UnwindCancelled(t) \/ Fib(T, E, L, X, C)!UnwindEnds(t)
      PROVE  task[t] # Rest /\ task' = [task EXCEPT ![t] = Rest]
  BY <1>6 DEF Fib!LoadCommits, Fib!LoadCancelled, Fib!UnwindCancelled, Fib!UnwindEnds, Fib!Unwinding, Fib!Idle
<1>7. ASSUME NEW t \in T, Fib(T, E, L, X, C)!UnwindStep(t)
      PROVE  task[t] # Rest /\ fiberState' = fiberState /\ \E r : task' = [task EXCEPT ![t] = r]
  <2>1. task[t] # Rest /\ fiberState' = fiberState /\ task' = [task EXCEPT ![t].n = @ - 1]
    BY <1>7 DEF Fib!UnwindStep, Fib!Unwinding
  <2>2. task' = [task EXCEPT ![t] = [task[t] EXCEPT !.n = @ - 1]]
    BY <2>1
  <2> QED BY <2>1, <2>2
<1>8. ASSUME Fib(T, E, L, X, C)!Effect \/ Fib(T, E, L, X, C)!CallHandle \/ UNCHANGED fiberVars
      PROVE  task' = task /\ fiberState' = fiberState
  BY <1>8 DEF Fib!Effect, Fib!CallHandle, fiberVars
<1> QED BY <1>2, <1>3, <1>4, <1>5, <1>6, <1>7, <1>8 DEF Fib!Next

\* With one task to drive it, effects created while it is live and nobody
\* cancelled, a fiber at rest that is not active holds no effect.
THEOREM FibersLeakNothing ==
  ASSUME NEW CONSTANT t, NEW CONSTANT E \in Nat, NEW CONSTANT L \in Nat, L >= 1
  PROVE  Fib({t}, E, L, FALSE, FALSE)!Spec => []Fib({t}, E, L, FALSE, FALSE)!NothingLeaks
<1>1. Fib({t}, E, L, FALSE, FALSE)!Init => Undone({t}, E, L) /\ Owed(t)
  <2>1. Fib({t}, E, L, FALSE, FALSE)!Init => Untouched({t})
    BY DEF Fib!Init, Fib!Idle, Untouched, Resting
  <2> QED BY <2>1, UndoneInit, OwedInit
<1>2. Undone({t}, E, L) /\ Owed(t) /\ [Fib({t}, E, L, FALSE, FALSE)!Next]_(Fib({t}, E, L, FALSE, FALSE)!vars)
         => Undone({t}, E, L)' /\ Owed(t)'
  BY UndoneStep, OwedStep DEF Fib!vars, Fib!listVars, Fib!effectVars, fiberVars
<1>3. Undone({t}, E, L) /\ Owed(t) => Fib({t}, E, L, FALSE, FALSE)!NothingLeaks
  BY DEF Owed, Fib!NothingLeaks
<1> QED BY <1>1, <1>2, <1>3, PTL DEF Fib!Spec

\* "DISPOSED: Terminal.": no step leaves it, with one task that nobody cancels.
THEOREM FibersStayDisposed ==
  ASSUME NEW CONSTANT t, NEW CONSTANT E \in Nat, NEW CONSTANT L \in Nat, L >= 1
  PROVE  Fib({t}, E, L, FALSE, FALSE)!Spec
            => [][Fib({t}, E, L, FALSE, FALSE)!StaysDisposed]_(Fib({t}, E, L, FALSE, FALSE)!vars)
<1>1. Fib({t}, E, L, FALSE, FALSE)!Init => Undone({t}, E, L) /\ Owed(t)
  <2>1. Fib({t}, E, L, FALSE, FALSE)!Init => Untouched({t})
    BY DEF Fib!Init, Fib!Idle, Untouched, Resting
  <2> QED BY <2>1, UndoneInit, OwedInit
<1>2. Undone({t}, E, L) /\ Owed(t) /\ [Fib({t}, E, L, FALSE, FALSE)!Next]_(Fib({t}, E, L, FALSE, FALSE)!vars)
         => /\ Undone({t}, E, L)' /\ Owed(t)'
            /\ [Fib({t}, E, L, FALSE, FALSE)!StaysDisposed]_(Fib({t}, E, L, FALSE, FALSE)!vars)
  BY UndoneStep, OwedStep DEF Fib!vars, Fib!listVars, Fib!effectVars, fiberVars, Fib!StaysDisposed
<1> QED BY <1>1, <1>2, PTL DEF Fib!Spec

\* Whatever the tasks, cancelled or not: no call begins on a disposed fiber, and
\* only one that was under way before can write over its state, when it ends.
THEOREM NothingBeginsOnDisposed ==
  ASSUME NEW CONSTANT T, NEW CONSTANT E \in Nat, NEW CONSTANT L \in Nat, L >= 1,
         NEW CONSTANT X, NEW CONSTANT C
  PROVE  Fib(T, E, L, X, C)!Spec
            => [][Fib(T, E, L, X, C)!NothingBeginsDisposed]_(Fib(T, E, L, X, C)!vars)
<1>1. Fib(T, E, L, X, C)!Init => Undone(T, E, L)
  <2>1. Fib(T, E, L, X, C)!Init => Untouched(T)
    BY DEF Fib!Init, Fib!Idle, Untouched, Resting
  <2> QED BY <2>1, UndoneInit
<1>2. Undone(T, E, L) /\ [Fib(T, E, L, X, C)!Next]_(Fib(T, E, L, X, C)!vars) => Undone(T, E, L)'
  BY UndoneStep DEF Fib!vars, Fib!listVars, Fib!effectVars, fiberVars
<1>3. Undone(T, E, L) /\ [Fib(T, E, L, X, C)!Next]_(Fib(T, E, L, X, C)!vars)
         => [Fib(T, E, L, X, C)!NothingBeginsDisposed]_(Fib(T, E, L, X, C)!vars)
  BY DisposedStep DEF Undone
<1> QED BY <1>1, <1>2, <1>3, PTL DEF Fib!Spec

=============================================================================
