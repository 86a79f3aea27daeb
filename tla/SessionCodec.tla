---------------------------- MODULE SessionCodec ----------------------------
(***************************************************************************)
(* How a message is stored in the log and read back (session/derive.py), as *)
(* operators.  A message, a block, a usage... is a record of all its        *)
(* fields, with None for the ones that are not set; what is stored is a     *)
(* record of the keys that were written.  Fields treated alike are          *)
(* represented by one of them.                                              *)
(***************************************************************************)
EXTENDS Naturals, Sequences, SequencesExt

CONSTANT None

\* What is written of an object: its required fields, and those of the optional
\* ones that are set.
Written(x, required, optional) ==
    [k \in required \cup {o \in optional : x[o] # None} |-> x[k]]

\* raw.get(key, default)
get(raw, key, default) == IF key \in DOMAIN raw THEN raw[key] ELSE default

\* The fields of what was read, the absent ones at their default.
Read(raw, fields, default) == [k \in fields |-> get(raw, k, default)]

Each(F(_), s) == [i \in DOMAIN s |-> F(s[i])]

\* es_order() of the keys of an arguments object: the array indices, ascending,
\* then the others as inserted.  A key is an index ("n", its value) or not.
es_order(keys) ==
    SortSeq(SelectSeq(keys, LAMBDA k : k.type = "n"), LAMBDA j, k : j.at < k.at)
    \o SelectSeq(keys, LAMBDA k : k.type # "n")

\* JsObject.__setitem__(): a new index moves every later key behind it.
set_item(keys, key) ==
    LET later(k) == k.type # "n" \/ k.at > key.at
    IN  IF key \in ToSet(keys) THEN keys
        ELSE IF key.type # "n" THEN Append(keys, key)
        ELSE SelectSeq(keys, LAMBDA k : ~later(k)) \o <<key>> \o SelectSeq(keys, later)

\* _encode_block(): of an image the reference or else the bytes, in base64;
\* redacted is written only when set.
encode_block(b) ==
    CASE b.type = "text" -> Written(b, {"type", "text"}, {"text_signature"})
      [] b.type = "thinking" ->
             Written([b EXCEPT !.redacted = IF b.redacted THEN TRUE ELSE None],
                     {"type", "thinking"}, {"thinking_signature", "redacted"})
      [] b.type = "image" ->
             IF b.reference # None THEN Written(b, {"type", "mime_type", "reference"}, {})
             ELSE Written([b EXCEPT !.data = [base64 |-> b.data]], {"type", "mime_type", "data"}, {})
      [] b.type = "tool_call" ->
             Written([b EXCEPT !.arguments = es_order(b.arguments)],
                     {"type", "id", "arguments"}, {"thought_signature", "namespace"})

\* _decode_block()
decode_block(raw) ==
    CASE raw.type = "text" -> Read(raw, {"type", "text", "text_signature"}, None)
      [] raw.type = "thinking" ->
             [Read(raw, {"type", "thinking", "thinking_signature", "redacted"}, None)
              EXCEPT !.redacted = get(raw, "redacted", FALSE)]
      [] raw.type = "image" ->
             IF "reference" \in DOMAIN raw THEN Read(raw, {"type", "mime_type", "reference", "data"}, None)
             ELSE [Read(raw, {"type", "mime_type", "reference", "data"}, None)
                   EXCEPT !.data = raw.data.base64]
      [] raw.type = "tool_call" ->
             Read(raw, {"type", "id", "arguments", "thought_signature", "namespace"}, None)

\* _encode_usage(): everything, None included.
UsageFields == {"input", "cache_write_1h", "reasoning", "total_tokens", "cost"}
encode_usage(u) == Written(u, UsageFields, {})

\* _decode_usage(): older logs lack some of it.
decode_usage(raw) ==
    [input |-> raw.input, cache_write_1h |-> get(raw, "cache_write_1h", None),
     reasoning |-> raw.reasoning, total_tokens |-> get(raw, "total_tokens", 0),
     cost |-> IF get(raw, "cost", None) = None THEN 0 ELSE raw.cost]

ErrorFields == {"message", "name", "stack", "code"}

\* _encode_diagnostic()
encode_diagnostic(d) ==
    Written([d EXCEPT !.error = IF @ = None THEN None ELSE Written(@, {"message"}, ErrorFields)],
            {"type", "timestamp"}, {"error", "details"})

\* _decode_diagnostic()
decode_diagnostic(raw) ==
    [Read(raw, {"type", "timestamp", "error", "details"}, None)
     EXCEPT !.error = IF @ = None THEN None ELSE Read(@, ErrorFields, None)]

DeferredFields == {"provider", "model_id", "api", "id", "expires_at", "poll_after_ms", "data"}

\* _encode_deferred()
encode_deferred(h) ==
    Written(h, {"provider", "model_id", "api", "id"}, {"expires_at", "poll_after_ms", "data"})

\* _decode_deferred()
decode_deferred(raw) == Read(raw, DeferredFields, None)

\* The content of a message: its blocks, or the bare string of a user.
encode_content(c) == IF c.str THEN c ELSE [c EXCEPT !.of = Each(encode_block, c.of)]
decode_content(c) == IF c.str THEN c ELSE [c EXCEPT !.of = Each(decode_block, c.of)]

AssistantRequired == {"role", "content", "stop_reason", "error_message", "usage", "api"}
AssistantOptional == {"response_id", "diagnostics", "deferred", "end_turn"}
ResultRequired == {"role", "content", "tool_call_id", "is_error"}
ResultOptional == {"details", "usage", "added_tool_names"}

\* encode_message()
encode_message(m) ==
    LET c == [m EXCEPT !.content = encode_content(m.content)]
    IN  CASE m.role = "user" -> c
          [] m.role = "assistant" ->
                 Written([c EXCEPT !.usage = encode_usage(@),
                                   !.diagnostics = IF @ = None THEN None ELSE Each(encode_diagnostic, @),
                                   !.deferred = IF @ = None THEN None ELSE encode_deferred(@)],
                         AssistantRequired, AssistantOptional)
          [] m.role = "tool_result" ->
                 Written([c EXCEPT !.usage = IF @ = None THEN None ELSE encode_usage(@)],
                         ResultRequired, ResultOptional)

\* decode_message()
decode_message(raw) ==
    LET c == [raw EXCEPT !.content = decode_content(raw.content)]
    IN  CASE raw.role = "user" -> c
          [] raw.role = "assistant" ->
                 [Read(c, AssistantRequired \cup AssistantOptional, None)
                  EXCEPT !.usage = decode_usage(@), !.api = get(raw, "api", "mock"),
                         !.diagnostics = IF @ = None THEN None ELSE Each(decode_diagnostic, @),
                         !.deferred = IF @ = None THEN None ELSE decode_deferred(@)]
          [] raw.role = "tool_result" ->
                 [Read(c, ResultRequired \cup ResultOptional, None)
                  EXCEPT !.usage = IF @ = None THEN None ELSE decode_usage(@)]

-----------------------------------------------------------------------------
\* A message with the keys of every arguments object in ECMAScript order.
Ordered(m) ==
    [m EXCEPT !.content.of =
        IF m.content.str THEN @
        ELSE Each(LAMBDA b : IF b.type = "tool_call" THEN [b EXCEPT !.arguments = es_order(@)] ELSE b, @)]

\* Keys assigned one by one stand in the order in which they are stored.
OrderKept(keys) == FoldLeft(set_item, <<>>, keys) = es_order(keys)

\* A message read back is the one that was stored, whatever of it was set (the
\* order of argument keys is the canonical one), and storing it again stores
\* the same.
RoundTrips(m) ==
    /\ decode_message(encode_message(m)) = Ordered(m)
    /\ encode_message(decode_message(encode_message(m))) = encode_message(m)

\* Nothing that is not set is stored, but for what a usage or a failure reports.
NoneUnwritten(m) ==
    \A k \in DOMAIN encode_message(m) \ {"error_message"} : encode_message(m)[k] # None
=============================================================================
