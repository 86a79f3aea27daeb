----------------------------- MODULE LlmService -----------------------------
(***************************************************************************)
(* LlmService (llm/service.py): adapters register the models they supply   *)
(* and withdraw them, requests are routed to the adapter of their model,   *)
(* and _settled() wraps the stream of that adapter so that it always ends  *)
(* with one terminal chunk.  Registration r is the r-th call of            *)
(* register(); two calls may register the same adapter.  A chunk is        *)
(* described by the partial message it carries, here its length.           *)
(***************************************************************************)
EXTENDS Naturals, Sequences, SequencesExt

CONSTANTS
    Models,    \* the model ids
    Adapters,  \* the adapter objects
    Supplies,  \* Adapter.models of each adapter
    Requests,  \* the requests in flight
    MaxCalls,  \* bound on the calls of register()
    MaxChunks  \* bound on the chunks an adapter sends in one stream

ASSUME LlmAssumption == MaxChunks \in Nat

VARIABLES
    entries,   \* LlmService._adapters: the registration that supplies a model
    calls,     \* calls[r]: the adapter of registration r
    withdrawn, \* registrations whose handle was called
    streams    \* streams[q]: what request q is doing

llmVars == <<entries, calls, withdrawn, streams>>

\* at: "idle", "open" while the consumer iterates, "raised" by stream(),
\* "closed" when the consumer left the iteration, "ended" otherwise; via: the
\* registration it was routed to; source: what the adapter sent; out: what the
\* consumer got; partial: the last partial _settled() saw, or none.
Idle == [at |-> "idle", via |-> 0, source |-> <<>>, out |-> <<>>, partial |-> 0]

Chunk(n) == [kind |-> "chunk", length |-> n]
Done(n) == [kind |-> "done", length |-> n]
Failed(n) == [kind |-> "error", length |-> n]
Terminal(c) == c.kind \in {"done", "error"}

LlmInit ==
    /\ entries = [m \in Models |-> 0]
    /\ calls = <<>> /\ withdrawn = {}
    /\ streams = [q \in Requests |-> Idle]

-----------------------------------------------------------------------------

Register(a) ==
    /\ Len(calls) < MaxCalls
    /\ calls' = Append(calls, a)
    /\ entries' = [m \in Models |-> IF m \in Supplies[a] THEN Len(calls) + 1 ELSE entries[m]]
    /\ UNCHANGED <<withdrawn, streams>>

\* Mutant: the handle looks at the adapter, not at the token of its call.
WithdrawByAdapter(r) ==
    /\ withdrawn' = withdrawn \cup {r}
    /\ entries' = [m \in Models |->
          IF m \in Supplies[calls[r]] /\ entries[m] # 0 /\ calls[entries[m]] = calls[r]
          THEN 0 ELSE entries[m]]
    /\ UNCHANGED <<calls, streams>>

\* The handle register() returned, called any number of times.
Withdraw(r) ==
    /\ withdrawn' = withdrawn \cup {r}
    /\ entries' = [m \in Models |->
          IF m \in Supplies[calls[r]] /\ entries[m] = r THEN 0 ELSE entries[m]]
    /\ UNCHANGED <<calls, streams>>

\* stream(): the adapter is looked up once; without one it raises.
Stream(q, m) ==
    /\ streams[q].at = "idle"
    /\ streams' = [streams EXCEPT ![q].at = IF entries[m] = 0 THEN "raised" ELSE "open",
                                  ![q].via = entries[m]]
    /\ UNCHANGED <<entries, calls, withdrawn>>

Open(q) == streams[q].at = "open"
Become(q, s) ==
    /\ streams' = [streams EXCEPT ![q] = s]
    /\ UNCHANGED <<entries, calls, withdrawn>>

\* A chunk of the adapter, whatever it carries, and its terminal chunk, after
\* which the source is not read any more.
SendChunk(q) ==
    /\ Open(q) /\ Len(streams[q].source) < MaxChunks
    /\ \E n \in 1..MaxChunks :
          Become(q, [streams[q] EXCEPT !.source = Append(@, Chunk(n)),
                                       !.partial = n,
                                       !.out = Append(@, Chunk(n))])

SendTerminal(q) ==
    /\ Open(q)
    /\ \E n \in 0..MaxChunks : \E c \in {Done(n), Failed(n)} :
          Become(q, [streams[q] EXCEPT !.source = Append(@, c),
                                       !.partial = n,
                                       !.out = Append(@, c),
                                       !.at = "ended"])

\* The adapter raises or ends without a terminal chunk: one is made from the
\* partial message so far.
SettleStream(q) ==
    /\ Open(q)
    /\ Become(q, [streams[q] EXCEPT !.out = Append(@, Failed(streams[q].partial)),
                                    !.at = "ended"])

\* The consumer leaves the iteration before its end.
Close(q) ==
    /\ Open(q)
    /\ Become(q, [streams[q] EXCEPT !.at = "closed"])

LlmNext ==
    \/ \E a \in Adapters : Register(a)
    \/ \E r \in DOMAIN calls : Withdraw(r)
    \/ \E q \in Requests :
          \/ \E m \in Models : Stream(q, m)
          \/ SendChunk(q) \/ SendTerminal(q) \/ SettleStream(q) \/ Close(q)

LlmSpec == LlmInit /\ [][LlmNext]_llmVars

-----------------------------------------------------------------------------

\* The types, and that an entry names a call of register() for that model.
LlmTypeOK ==
    /\ calls \in Seq(Adapters) /\ withdrawn \subseteq DOMAIN calls
    /\ \A m \in Models : entries[m] # 0 => m \in Supplies[calls[entries[m]]]
    /\ \A q \in Requests :
          /\ streams[q].at \in {"idle", "open", "raised", "closed", "ended"}
          /\ streams[q].partial \in 0..MaxChunks
          /\ \A i \in DOMAIN streams[q].out : streams[q].out[i].length \in 0..MaxChunks

Suppliers(m) == {r \in DOMAIN calls : m \in Supplies[calls[r]]}
Latest(m) == CHOOSE r \in Suppliers(m) : \A s \in Suppliers(m) : s <= r

\* A model is supplied by the latest registration of it, until the handle of
\* that very registration is called: neither the handle of an earlier one,
\* even of the same adapter, nor a repeated call of a handle takes it away.
LatestSupplies ==
    \A m \in Models :
        entries[m] = IF Suppliers(m) = {} \/ Latest(m) \in withdrawn THEN 0 ELSE Latest(m)

\* What _settled() yields is what the adapter sent, and a stream that was read
\* to its end has exactly one terminal chunk, the last; when _settled() had to
\* make it, it carries the message of the last chunk the adapter sent.
StreamSettled ==
    \A q \in Requests :
        LET s == streams[q] IN
        /\ \A i \in DOMAIN s.out : Terminal(s.out[i]) <=> s.at = "ended" /\ i = Len(s.out)
        /\ s.at = "ended" =>
              \/ s.out = s.source
              \/ /\ Front(s.out) = s.source
                 /\ Last(s.out) = Failed(IF s.source = <<>> THEN 0 ELSE Last(s.source).length)
        /\ s.at # "ended" => s.out = s.source

\* A model is supplied by its latest registration until the handle of that very
\* registration is called; and a stream read to its end has one terminal chunk,
\* the last, and loses nothing of what the adapter sent before it failed.
LlmServes == LlmTypeOK /\ LatestSupplies /\ StreamSettled

=============================================================================
