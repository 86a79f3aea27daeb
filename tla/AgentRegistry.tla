--------------------------- MODULE AgentRegistry ---------------------------
(***************************************************************************)
(* The agents of a runtime (agent/registry.py), their session logs         *)
(* (session/service.py) and the tools registered for them                  *)
(* (tools/registry.py over runtime/scoped_registry.py).  An instance has a *)
(* scope, whose key is made of its definition and its id: an instance that *)
(* takes the id of an earlier one has the same key.  A registration is     *)
(* filed under its scope's key and withdrawn when the scope is disposed,   *)
(* which takes a while.                                                    *)
(***************************************************************************)
EXTENDS Naturals, Sequences, FiniteSets, SequencesExt, FiniteSetsExt

CONSTANTS
    Ids,           \* the instance ids
    Tools,         \* the names of tools
    Definition,    \* the key of the definition the instances share
    Untagged,      \* the bucket of registrations outside any scope
    MaxInstances,  \* bound on the instances ever created
    MaxTools       \* bound on the registrations ever made

VARIABLES
    instances,  \* AgentRegistry._instances: the live instance of each id, 0 for none
    logs,       \* SessionService._logs: the instance each log was made for, 0 for none
    idOf,       \* idOf[i]: the id of the i-th instance created
    stage,      \* stage[i]: its scope: "live", "disposing" or "disposed"
    entries,    \* ScopedRegistry._entries: of each key, the registrations; 0 where withdrawn
    tool,       \* tool[r]: the name, the key, the index and the owner of registration r
    owned       \* owned[i]: the registrations in the scope's DisposableList

vars == <<instances, logs, idOf, stage, entries, tool, owned>>

Instances == DOMAIN idOf
Keys == Ids \cup {Definition, Untagged}
Plugin == 0   \* the owner of what is not registered through an instance

Init ==
    /\ instances = [id \in Ids |-> 0] /\ logs = [id \in Ids |-> 0]
    /\ idOf = <<>> /\ stage = <<>>
    /\ entries = [k \in Keys |-> <<>>] /\ tool = <<>> /\ owned = <<>>

-----------------------------------------------------------------------------

\* AgentRegistry.create(): refused while the id is live.
Create(id) ==
    /\ instances[id] = 0 /\ Len(idOf) < MaxInstances
    /\ LET i == Len(idOf) + 1
       IN  /\ instances' = [instances EXCEPT ![id] = i]
           /\ logs' = [logs EXCEPT ![id] = i]
    /\ idOf' = Append(idOf, id) /\ stage' = Append(stage, "live") /\ owned' = Append(owned, <<>>)
    /\ UNCHANGED <<entries, tool>>

\* ScopedRegistry.add(): the handle remembers the place.
Add(k, name, owner) ==
    /\ Len(tool) < MaxTools
    /\ entries' = [entries EXCEPT ![k] = Append(@, Len(tool) + 1)]
    /\ tool' = Append(tool, [name |-> name, key |-> k, index |-> Len(entries[k]) + 1, owner |-> owner])

\* register_tool() through an instance's context; refused once its scope is
\* being disposed.
RegisterTool(i, name) ==
    /\ stage[i] = "live"
    /\ Add(idOf[i], name, i)
    /\ owned' = [owned EXCEPT ![i] = Append(@, Len(tool) + 1)]
    /\ UNCHANGED <<instances, logs, idOf, stage>>

\* ToolRegistry.register() by a plugin, for all or for a definition.
Register(k, name) ==
    /\ k \in {Definition, Untagged} /\ Add(k, name, Plugin)
    /\ UNCHANGED <<instances, logs, idOf, stage, owned>>

\* What is registered and not withdrawn, by handle or with its scope.
Standing == {r \in DOMAIN tool : \E n \in DOMAIN entries[tool[r].key] : entries[tool[r].key][n] = r}

\* Mutant: the entry is taken out of its bucket.
BlankPops(r) ==
    entries' = [entries EXCEPT ![tool[r].key] =
        [n \in 1..(Len(@) - 1) |-> IF n < tool[r].index THEN @[n] ELSE @[n + 1]]]

\* remove(): the entry becomes blank, its neighbours keep their places.
Blank(r) == entries' = [entries EXCEPT ![tool[r].key][tool[r].index] = 0]

\* The handle of a registration, called by its owner at any time: also while the
\* scope is being disposed it blanks its slot of the list and withdraws the entry.
\* Only once the list is cleared is there no slot, and it raises.
Withdraw(r) ==
    /\ tool[r].owner # Plugin => stage[tool[r].owner] # "disposed"
    /\ r \in Standing /\ Blank(r)
    /\ owned' = IF tool[r].owner = Plugin THEN owned
                ELSE [owned EXCEPT ![tool[r].owner] = SelectSeq(@, LAMBDA o : o # r)]
    /\ UNCHANGED <<instances, logs, idOf, stage, tool>>

\* AgentHandle.dispose(), once, and detach(): the id is given up only by the
\* instance that has it; then the scope unwinds.
DisposeHandle(i) ==
    /\ stage[i] = "live"
    /\ instances' = IF instances[idOf[i]] = i THEN [instances EXCEPT ![idOf[i]] = 0] ELSE instances
    /\ stage' = [stage EXCEPT ![i] = "disposing"]
    /\ UNCHANGED <<logs, idOf, entries, tool, owned>>

\* One disposer of the scope's list, last registered first.
Unwind(i) ==
    /\ stage[i] = "disposing"
    /\ IF owned[i] = <<>>
       THEN stage' = [stage EXCEPT ![i] = "disposed"] /\ UNCHANGED <<entries, owned>>
       ELSE Blank(Last(owned[i])) /\ owned' = [owned EXCEPT ![i] = Front(@)] /\ UNCHANGED stage
    /\ UNCHANGED <<instances, logs, idOf, tool>>

Next ==
    \/ \E id \in Ids : Create(id)
    \/ \E name \in Tools : (\E i \in Instances : RegisterTool(i, name)) \/ \E k \in Keys : Register(k, name)
    \/ \E r \in DOMAIN tool : Withdraw(r)
    \/ \E i \in Instances : DisposeHandle(i) \/ Unwind(i)

Spec == Init /\ [][Next]_vars

-----------------------------------------------------------------------------
(* Looking up *)

\* ScopedRegistry.visible_from(): nearest first.
visible_from(k) ==
    LET chain == (IF k \in Ids THEN <<k>> ELSE <<>>) \o (IF k = Untagged THEN <<>> ELSE <<Definition>>) \o <<Untagged>>
    IN  SelectSeq(FlattenSeq([n \in DOMAIN chain |-> entries[chain[n]]]), LAMBDA r : r # 0)

\* ToolRegistry.resolve(): the first of the name, or 0.
resolve(k, name) ==
    LET named == SelectSeq(visible_from(k), LAMBDA r : tool[r].name = name)
    IN  IF named = <<>> THEN 0 ELSE named[1]

-----------------------------------------------------------------------------

TypeOK ==
    /\ instances \in [Ids -> 0..Len(idOf)] /\ logs \in [Ids -> 0..Len(idOf)]
    /\ \A i \in Instances : stage[i] \in {"live", "disposing", "disposed"}

\* An instance is found under its id until its own handle is disposed: no stale
\* handle takes it away.  The log of an id is that of its latest instance.
LiveUntilDisposed ==
    /\ \A i \in Instances : stage[i] = "live" <=> instances[idOf[i]] = i
    /\ \A id \in Ids : logs[id] = Max({0} \cup {i \in Instances : idOf[i] = id})

\* Handles withdraw their own entry and no other, in any order, also while the
\* scope unwinds, and a disposed scope leaves none; what a live instance calls a tool is the oldest standing
\* registration of the name through itself, else for its definition, else for
\* all.  (While an earlier instance of the id unwinds, its tools show too: the
\* keys are equal.)
ToolsOfTheLiving ==
    /\ \A r \in DOMAIN tool : tool[r].owner # Plugin =>
           (r \in Standing <=> r \in ToSet(owned[tool[r].owner]))
    /\ \A i \in Instances : stage[i] = "disposed" => owned[i] = <<>>
    /\ \A i \in Instances, name \in Tools :
           LET of(k, o) == {r \in Standing : tool[r].name = name /\ tool[r].key = k /\ tool[r].owner = o}
               candidates == <<of(idOf[i], i), of(Definition, Plugin), of(Untagged, Plugin)>>
               nearest == SelectSeq(candidates, LAMBDA c : c # {})
           IN  /\ stage[i] = "live"
               /\ \A j \in Instances : idOf[j] = idOf[i] /\ j # i => stage[j] = "disposed"
               => resolve(idOf[i], name) = IF nearest = <<>> THEN 0 ELSE Min(nearest[1])

=============================================================================
