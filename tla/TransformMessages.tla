-------------------------- MODULE TransformMessages -------------------------
(***************************************************************************)
(* What a model is sent of a history (llm/transform_messages.py), as       *)
(* operators over sequences of messages.  A text is a name; of the texts   *)
(* only blank ones and the placeholders are told apart.  A normalizer is a *)
(* function on tool call ids; having none is the identity, which rewrites  *)
(* nothing.                                                                *)
(***************************************************************************)
EXTENDS Naturals, Sequences, SequencesExt

Text(text, sig) == [type |-> "text", text |-> text, sig |-> sig]
Thinking(text, sig, redacted) ==
    [type |-> "thinking", text |-> text, sig |-> sig, redacted |-> redacted]
Image == [type |-> "image"]
Call(id, sig) == [type |-> "call", id |-> id, sig |-> sig]

\* `form` tells a bare string ("str") and the missing content of a legacy
\* caller ("none") from a sequence of blocks.
User(form, blocks) == [role |-> "user", form |-> form, blocks |-> blocks]
Assistant(model, stop, blocks) ==
    [role |-> "assistant", form |-> "blocks", model |-> model, stop |-> stop, blocks |-> blocks]
Result(id, error, blocks) ==
    [role |-> "result", form |-> "blocks", id |-> id, error |-> error, blocks |-> blocks]

Truthy(s) == s \notin {"None", ""}

\* An image a model without vision is not sent, by the role that had it.
Placeholder(role) == IF role = "user" THEN "user image" ELSE "tool image"

\* _normalize_legacy_content()
normalize_legacy_content(m) ==
    IF m.form = "none" THEN [m EXCEPT !.form = "blocks", !.blocks = <<>>] ELSE m

\* _replace_images_with_placeholder(): one placeholder for a run of images, and
\* none for a run that follows a text equal to it.
replace_images(blocks, placeholder) ==
    FoldLeft(LAMBDA r, b :
                 IF b.type # "image"
                 THEN [out |-> Append(r.out, b), after |-> b.type = "text" /\ b.text = placeholder]
                 ELSE [out |-> IF r.after THEN r.out ELSE Append(r.out, Text(placeholder, "None")),
                       after |-> TRUE],
             [out |-> <<>>, after |-> FALSE], blocks).out

\* _downgrade_unsupported_images(): a bare string is left alone.
downgrade(messages, target) ==
    [i \in DOMAIN messages |->
        LET m == messages[i]
        IN  IF target.images \/ m.role = "assistant" \/ m.form = "str" THEN m
            ELSE [m EXCEPT !.blocks = replace_images(m.blocks, Placeholder(m.role))]]

\* _transform_thinking(): opaque or signed thinking only goes to its own model.
transform_thinking(b, same) ==
    CASE b.redacted -> IF same THEN <<b>> ELSE <<>>
      [] ~b.redacted /\ same /\ Truthy(b.sig) -> <<b>>
      [] OTHER -> CASE b.text \in {"", "blank"} -> <<>>
                    [] b.text \notin {"", "blank"} -> IF same THEN <<b>> ELSE <<Text(b.text, "None")>>

\* One block of an assistant message: what is sent for it, and the ids mapped so
\* far (_transform_tool_call() maps an id it changes).
transform_block(b, same, normalize, map) ==
    CASE b.type = "thinking" -> [out |-> transform_thinking(b, same), map |-> map]
      [] b.type = "text" -> [out |-> <<IF same THEN b ELSE Text(b.text, "None")>>, map |-> map]
      [] b.type = "call" ->
             IF same THEN [out |-> <<b>>, map |-> map]
             ELSE [out |-> <<Call(normalize[b.id], IF Truthy(b.sig) THEN "None" ELSE b.sig)>>,
                   map |-> IF normalize[b.id] = b.id THEN map
                           ELSE [map EXCEPT ![b.id] = normalize[b.id]]]

\* _transform_assistant_content()
transform_assistant(m, target, normalize, map) ==
    FoldLeft(LAMBDA r, b :
                 LET t == transform_block(b, m.model = target.model, normalize, r.map)
                 IN  [out |-> r.out \o t.out, map |-> t.map],
             [out |-> <<>>, map |-> map], m.blocks)

\* _content_transform_pass(): a result is rewritten by what its id has been
\* mapped to so far; a mapping to the empty id rewrites none.
content_transform_pass(messages, target, normalize) ==
    FoldLeft(LAMBDA r, m :
                 CASE m.role = "user" -> [r EXCEPT !.out = Append(@, m)]
                   [] m.role = "result" ->
                        [r EXCEPT !.out = Append(@, IF Truthy(r.map[m.id]) THEN [m EXCEPT !.id = r.map[m.id]]
                                                    ELSE m)]
                   [] m.role = "assistant" ->
                        LET t == transform_assistant(m, target, normalize, r.map)
                        IN  [out |-> Append(r.out, [m EXCEPT !.blocks = t.out]), map |-> t.map],
             [out |-> <<>>, map |-> [id \in DOMAIN normalize |-> "None"]], messages).out

Calls(m) == SelectSeq(m.blocks, LAMBDA b : b.type = "call")
Failed(m) == m.role = "assistant" /\ m.stop \in {"error", "aborted"}

Orphan(call) == Result(call.id, TRUE, <<Text("No result provided", "None")>>)

\* flush_orphans()
flush_orphans(r) ==
    LET open == SelectSeq(r.pending, LAMBDA c : c.id \notin r.resolved)
    IN  [out |-> r.out \o [i \in DOMAIN open |-> Orphan(open[i])], pending |-> <<>>, resolved |-> {}]

\* Mutant: a failed assistant message is skipped before the orphans are flushed.
orphans_unflushed(messages) ==
    flush_orphans(
        FoldLeft(LAMBDA r, m :
                     CASE Failed(m) -> r
                       [] m.role = "result" ->
                            [r EXCEPT !.out = Append(@, m), !.resolved = @ \cup {m.id}]
                       [] m.role = "assistant" /\ ~Failed(m) ->
                            [out |-> Append(r.out, m), pending |-> Calls(m), resolved |-> {}]
                       [] m.role = "user" ->
                            LET f == flush_orphans(r) IN [f EXCEPT !.out = Append(@, m)],
                 [out |-> <<>>, pending |-> <<>>, resolved |-> {}], messages)).out

\* _orphan_synthesis_pass(): failed assistant messages are dropped, and a call
\* without a result gets one before the next message that is not a result.
orphan_synthesis_pass(messages) ==
    flush_orphans(
        FoldLeft(LAMBDA r, m :
                     IF m.role = "result"
                     THEN [r EXCEPT !.out = Append(@, m), !.resolved = @ \cup {m.id}]
                     ELSE LET f == flush_orphans(r)
                          IN  CASE Failed(m) -> f
                                [] m.role = "assistant" /\ ~Failed(m) ->
                                       [f EXCEPT !.out = Append(@, m), !.pending = Calls(m)]
                                [] m.role = "user" -> [f EXCEPT !.out = Append(@, m)],
                 [out |-> <<>>, pending |-> <<>>, resolved |-> {}], messages)).out

\* transform_messages()
transform_messages(messages, target, normalize) ==
    orphan_synthesis_pass(
        content_transform_pass(
            downgrade([i \in DOMAIN messages |-> normalize_legacy_content(messages[i])], target),
            target, normalize))

-----------------------------------------------------------------------------
\* What a request owes the provider that receives it.

\* The results that follow message i, up to the next message of another role.
Answers(messages, i) ==
    {j \in i + 1..Len(messages) : \A k \in i + 1..j : messages[k].role = "result"}

\* Every call is answered before the conversation goes on, whatever the history.
EveryCallAnswered(sent) ==
    \A i \in DOMAIN sent : sent[i].role = "assistant" =>
        \A c \in ToSet(Calls(sent[i])) : \E j \in Answers(sent, i) : sent[j].id = c.id

\* A history the agent loop can have recorded: no call id is used twice, and
\* results only follow the message that called for them, one for each call.
Recorded(messages) ==
    LET ids(i) == IF messages[i].role = "assistant" THEN {c.id : c \in ToSet(Calls(messages[i]))} ELSE {}
    IN  /\ \A i, j \in DOMAIN messages : i # j => ids(i) \cap ids(j) = {}
        /\ \A j \in DOMAIN messages : messages[j].role = "result" =>
               /\ \E i \in DOMAIN messages :
                      j \in Answers(messages, i) /\ ~Failed(messages[i]) /\ messages[j].id \in ids(i)
               /\ \A k \in DOMAIN messages \ {j} :
                      messages[k].role = "result" => messages[k].id # messages[j].id

\* Of such a history, normalized without collisions, no result is sent that
\* answers no call, and none twice.
AnsweredExactly(messages, sent, normalize) ==
    LET used == {c.id : c \in UNION {ToSet(Calls(messages[i])) :
                                     i \in {k \in DOMAIN messages : messages[k].role = "assistant"}}}
        clean == /\ \A a, b \in used : normalize[a] \in {b, normalize[b]} => a = b
                 /\ \A a \in used : normalize[a] # ""
    IN  Recorded(messages) /\ clean =>
            \A j \in DOMAIN sent : sent[j].role = "result" =>
                /\ \E i \in DOMAIN sent : /\ j \in Answers(sent, i) /\ sent[i].role = "assistant"
                                          /\ sent[j].id \in {c.id : c \in ToSet(Calls(sent[i]))}
                /\ \A k \in DOMAIN sent \ {j} :
                       sent[k].role = "result" => sent[k].id # sent[j].id

\* The target is sent nothing it could not read: no image it cannot see, no
\* thinking or signature of another model, no failed reply.
NothingForeign(sent, target) ==
    \A i \in DOMAIN sent :
        /\ ~Failed(sent[i]) /\ sent[i].form # "none"
        /\ \A b \in ToSet(sent[i].blocks) :
               /\ b.type = "image" => target.images
               /\ sent[i].role = "assistant" /\ sent[i].model # target.model =>
                      b.type # "thinking" /\ ~Truthy(b.sig)

\* A request extends the previous one whenever the history was extended by
\* something other than a result, so that the provider's cache of it stays good.
PrefixStable(messages, target, normalize) ==
    LET last == messages[Len(messages)]
    IN  messages # <<>> /\ last.role # "result" =>
            IsPrefix(transform_messages(Front(messages), target, normalize),
                     transform_messages(messages, target, normalize))

\* Transforming what was transformed changes nothing.
Settled(sent, target, normalize) == transform_messages(sent, target, normalize) = sent

SentWell(messages, target, normalize) ==
    LET sent == transform_messages(messages, target, normalize)
    IN  /\ EveryCallAnswered(sent)
        /\ AnsweredExactly(messages, sent, normalize)
        /\ NothingForeign(sent, target)
        /\ PrefixStable(messages, target, normalize)
        /\ Settled(sent, target, normalize)
=============================================================================
