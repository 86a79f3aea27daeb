----------------------------- MODULE MCHistory -----------------------------
(* What is read back from a session log: the model's history over a log and *)
(* its forks, the lifecycle events of the runs it recorded, with and        *)
(* without failures, the messages themselves, and what a model is sent of   *)
(* them.  They share no state, so a behaviour exercises the one `part`      *)
(* names.                                                                   *)
EXTENDS SessionLog

CONSTANTS
    MaxInput,   \* the longest history that is transformed
    Null        \* Python's None

VARIABLES
    part,
    input,      \* the history to transform, or the message to store
    log, live, causes, pc, made, newMessages, reply, results, begun, sent, turns, opened,
    streaming, chunks, runs

runVars == <<log, live, causes, pc, made, newMessages, reply, results, begun, sent, turns, opened,
             streaming, chunks, runs>>

\* Two runs of up to two turns, and a longer one with three calls, a start chunk
\* amid a reply and follow-ups.
Ordinary == INSTANCE Projection WITH
    MaxRuns <- 2, MaxTurns <- 2, MaxMessages <- 4, MaxCalls <- 3, MaxChunks <- 1, MaxCauses <- 1, Raises <- FALSE
Long == INSTANCE Projection WITH
    MaxRuns <- 1, MaxTurns <- 2, MaxMessages <- 5, MaxCalls <- 3, MaxChunks <- 2, MaxCauses <- 2, Raises <- FALSE

\* Two runs of one turn and one of two, with an exception or a cancellation at
\* any await.
Failing == INSTANCE Projection WITH
    MaxRuns <- 2, MaxTurns <- 1, MaxMessages <- 3, MaxCalls <- 2, MaxChunks <- 1, MaxCauses <- 1, Raises <- TRUE
FailingLong == INSTANCE Projection WITH
    MaxRuns <- 1, MaxTurns <- 2, MaxMessages <- 5, MaxCalls <- 2, MaxChunks <- 1, MaxCauses <- 2, Raises <- TRUE

Wire == INSTANCE TransformMessages
Codec == INSTANCE SessionCodec WITH None <- Null

\* Two normalizers of call ids: none, and one that drops what follows a bar.
Ids == {"ok", "b|x", "b", "|", ""}
NoNormalizer == [id \in Ids |-> id]
StripBar == [NoNormalizer EXCEPT !["b|x"] = "b", !["|"] = ""]

\* Messages of the target "A" and of another model, with what each may hold.
SentMessages ==
    {Wire!User("str", <<>>), Wire!User("none", <<>>),
     Wire!User("blocks", <<Wire!Image, Wire!Text("user image", "None"), Wire!Image, Wire!Image>>),
     Wire!Result("ok", FALSE, <<>>), Wire!Result("b|x", FALSE, <<Wire!Image, Wire!Image>>),
     Wire!Result("|", FALSE, <<>>),
     Wire!Assistant("A", "stop", <<Wire!Thinking("", "sig", FALSE), Wire!Thinking("t", "None", TRUE),
                                   Wire!Text("t", "sig"), Wire!Call("ok", "sig")>>),
     Wire!Assistant("A", "stop", <<Wire!Thinking("blank", "None", FALSE), Wire!Call("b|x", "sig")>>),
     Wire!Assistant("B", "stop", <<Wire!Thinking("t", "sig", FALSE), Wire!Thinking("t", "None", TRUE),
                                   Wire!Call("b|x", "sig"), Wire!Call("ok", "")>>),
     Wire!Assistant("B", "stop", <<Wire!Text("t", "sig"), Wire!Thinking("blank", "sig", FALSE),
                                   Wire!Call("|", "None")>>),
     Wire!Assistant("B", "error", <<Wire!Call("b|x", "None")>>)}

\* Messages to store, with every optional field unset, set, and set to a value
\* that is false.
Signatures == {Null, "", "sig"}
Texts == {[type |-> "text", text |-> "t", text_signature |-> s] : s \in Signatures}
Images == {[type |-> "image", mime_type |-> "png", reference |-> Null, data |-> "d"],
           [type |-> "image", mime_type |-> "png", reference |-> "r", data |-> Null]}
Thoughts == {[type |-> "thinking", thinking |-> "t", thinking_signature |-> s, redacted |-> r] :
             s \in Signatures, r \in BOOLEAN}
Index(n) == [type |-> "n", at |-> n]
ToolCalls == {[type |-> "tool_call", id |-> "c", arguments |-> a, thought_signature |-> s, namespace |-> Null] :
              a \in {<<>>, <<[type |-> "k", at |-> 0], Index(2), Index(1), Index(3)>>}, s \in Signatures}
Blocks(kinds) == {[str |-> FALSE, of |-> s] : s \in {<<>>} \cup {<<b>> : b \in kinds}
                                                       \cup {<<b, c>> : b, c \in kinds}}
Usages == {[input |-> 1, cache_write_1h |-> n, reasoning |-> Null, total_tokens |-> 0, cost |-> 1] :
           n \in {Null, 0}}
Diagnostics ==
    {[type |-> "d", timestamp |-> 1, error |-> e, details |-> Null] :
     e \in {Null, [message |-> "m", name |-> Null, stack |-> Null, code |-> "c"]}}
Handles == {[provider |-> "p", model_id |-> "m", api |-> "a", id |-> "i", expires_at |-> n,
             poll_after_ms |-> Null, data |-> Null] : n \in {Null, 0}}

StoredMessages ==
    {[role |-> "user", content |-> c] : c \in Blocks(Texts \cup Images) \cup {[str |-> TRUE, of |-> "t"]}}
    \cup {[role |-> "assistant", content |-> c, stop_reason |-> "stop", error_message |-> Null, usage |-> u,
           api |-> "a", response_id |-> Null, diagnostics |-> Null, deferred |-> Null, end_turn |-> Null] :
          c \in Blocks(Texts \cup Thoughts \cup ToolCalls), u \in Usages}
    \cup {[role |-> "assistant", content |-> [str |-> FALSE, of |-> <<>>], stop_reason |-> "stop",
           error_message |-> "m", usage |-> u, api |-> "a", response_id |-> r, diagnostics |-> d,
           deferred |-> h, end_turn |-> e] :
          u \in Usages, r \in {Null, ""}, d \in {Null, <<>>} \cup {<<x>> : x \in Diagnostics},
          h \in {Null} \cup Handles, e \in {Null, FALSE}}
    \cup {[role |-> "tool_result", content |-> c, tool_call_id |-> "c", is_error |-> FALSE,
           details |-> Null, usage |-> u, added_tool_names |-> n] :
          c \in Blocks(Texts \cup Images), u \in {Null} \cup Usages, n \in {Null, <<>>, <<"t">>}}

MCInit ==
    /\ part \in {"logs", "ordinary", "long", "failing", "failing long", "sent", "stored"}
    /\ input \in IF part = "stored" THEN {<<m>> : m \in StoredMessages} ELSE {<<>>}
    /\ Init /\ Ordinary!Init

\* A history to transform grows by a message.
Extend ==
    /\ Len(input) < MaxInput
    /\ \E m \in SentMessages : input' = Append(input, m)

MCNext ==
    /\ UNCHANGED part
    /\ \/ part = "logs" /\ Next /\ UNCHANGED <<runVars, input>>
       \/ part = "ordinary" /\ Ordinary!Next /\ UNCHANGED <<vars, input>>
       \/ part = "long" /\ Long!Next /\ UNCHANGED <<vars, input>>
       \/ part = "failing" /\ Failing!Next /\ UNCHANGED <<vars, input>>
       \/ part = "failing long" /\ FailingLong!Next /\ UNCHANGED <<vars, input>>
       \/ part = "sent" /\ Extend /\ UNCHANGED <<vars, runVars>>

MCSpec == MCInit /\ [][MCNext]_<<part, input, vars, runVars>>

\* What transform_messages() makes of any history, for a model that sees images
\* and keeps ids and for one that does neither: every call answered, nothing
\* foreign, a request an extension of the one before, and transforming it again
\* changes nothing.  (It is a library function that no request path calls yet.)
\* And a message read back from the log is the one that was stored.
WireFaithful ==
    /\ part = "sent" =>
           /\ Wire!SentWell(input, [model |-> "A", images |-> TRUE], NoNormalizer)
           /\ Wire!SentWell(input, [model |-> "A", images |-> FALSE], StripBar)
    /\ part = "stored" => 
           /\ Codec!RoundTrips(input[1]) /\ Codec!NoneUnwritten(input[1])
           /\ \A c \in ToolCalls : Codec!OrderKept(c.arguments)

\* What a step does to the histories: writes stay private to the log they are
\* made to, an append extends its history by one, and a compaction leaves the
\* summary and the last entries, if asked for no more than there are.
HistorySteps == WritesStayPrivate /\ AppendExtends /\ CompactKeepsWhatFits

\* "Derivation can never emit both an original and a copy of it": no message is
\* projected twice, and messages keep the order in which they were logged.  As
\* long as nothing raised, project() rebuilds from the log of finished runs the
\* events that were dispatched, with what they carried; but an AgentStart has
\* the causes the run had in the end, the tool starts of a batch precede its
\* ends, and calls an abort kept from starting are shown as started.  And at
\* every moment, whatever raised or was cancelled, the run and turn brackets it
\* rebuilds are the ones that were dispatched, with what they carried.
HistoryReadBack ==
    /\ TypeOK /\ ProjectedOnceInOrder
    /\ part = "ordinary" => Ordinary!TypeOK /\ Ordinary!ProjectsOrdinaryRuns
    /\ part = "long" => Long!TypeOK /\ Long!ProjectsOrdinaryRuns
    /\ part = "failing" => Failing!TypeOK /\ Failing!ProjectsBrackets
    /\ part = "failing long" => FailingLong!TypeOK /\ FailingLong!ProjectsBrackets

=============================================================================
