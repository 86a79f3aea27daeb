----------------------------- MODULE BashOutput -----------------------------
(***************************************************************************)
(* OutputAccumulator and truncate_tail() of tools/builtin/bash_output.py:  *)
(* the chunks of a command's output are decoded as they come, counted, and *)
(* kept only as a rolling tail, from which the text for the model is cut.  *)
(*                                                                         *)
(* Bytes are "a", "n" (a newline), "e" (0xEF, which opens a character of   *)
(* three bytes) and "c" (a continuation).  Characters are "a", "n", "bom"  *)
(* (U+FEFF, three bytes) and "bad" (U+FFFD, three bytes).                  *)
(***************************************************************************)
EXTENDS Integers, Sequences, FiniteSets, SequencesExt, FiniteSetsExt

CONSTANTS
    MaxBytes,  \* max_bytes
    MaxLines,  \* max_lines
    MaxRaw,    \* bound on the length of the output
    MaxChunk   \* bound on the length of a chunk

VARIABLES
    raw,       \* auxiliary: every byte so far
    pend,      \* how many bytes of an incomplete character the decoder holds
    atStart,   \* _at_stream_start
    tail,      \* _tail_text
    boundary,  \* _tail_starts_at_line_boundary
    decoded,   \* total_decoded_bytes
    completed, \* _completed_lines
    openLine,  \* _has_open_line
    lastLine,  \* last_line_bytes
    finished

vars == <<raw, pend, atStart, tail, boundary, decoded, completed, openLine, lastLine, finished>>

Byte == {"a", "n", "e", "c"}

-----------------------------------------------------------------------------
(* Text.                                                                   *)

Width(char) == IF char \in {"bom", "bad"} THEN 3 ELSE 1

Size(text) == FoldLeft(LAMBDA sum, char : sum + Width(char), 0, text)

From(text, i) == SubSeq(text, i, Len(text))

\* _bytes_from_end(): the longest end of the text that fits, in whole characters.
BytesFromEnd(text, max) ==
    From(text, Min({i \in 1..(Len(text) + 1) : Size(From(text, i)) <= max}))

Newlines(text) == {i \in DOMAIN text : text[i] = "n"}

\* _split_lines_for_counting(): a newline at the end opens no line.
Lines(text) ==
    LET Extend(lines, char) ==
            IF char = "n" THEN Append(lines, <<>>)
            ELSE [lines EXCEPT ![Len(lines)] = Append(@, char)]
        split == FoldLeft(Extend, << <<>> >>, text)
    IN  IF Last(split) = <<>> THEN Front(split) ELSE split

\* The last k lines as one text, without a newline at its end.
LastLines(text, k) ==
    LET lines == Lines(text)
        n == Len(lines)
    IN  FoldLeft(LAMBDA joined, i : IF i = n - k + 1 THEN lines[i] ELSE joined \o <<"n">> \o lines[i],
                 <<>>, [i \in 1..k |-> n - k + i])

\* truncate_tail(): as many of the last lines as fit, or the end of the last
\* line if not even that one does.
TruncateTail(text) ==
    LET n == Len(Lines(text))
        kept == Max({k \in 0..Min({n, MaxLines}) : Size(LastLines(text, k)) <= MaxBytes})
    IN  IF n <= MaxLines /\ Size(text) <= MaxBytes
        THEN [content |-> text, by |-> "none", lines |-> n, partial |-> FALSE]
        ELSE IF kept = 0
        THEN [content |-> BytesFromEnd(Lines(text)[n], MaxBytes), lines |-> 1, partial |-> TRUE,
              by |-> IF MaxLines = 1 THEN "lines" ELSE "bytes"]
        ELSE [content |-> LastLines(text, kept), lines |-> kept, partial |-> FALSE,
              by |-> IF kept < n /\ kept < MaxLines THEN "bytes" ELSE "lines"]

-----------------------------------------------------------------------------
(* Decoding: the incremental UTF-8 decoder replaces what is malformed.     *)

DecodeByte(state, byte) ==
    LET broken == IF state.pend > 0 THEN Append(state.text, "bad") ELSE state.text
    IN  CASE byte = "c" /\ state.pend = 0 -> [state EXCEPT !.text = Append(@, "bad")]
          [] byte = "c" /\ state.pend = 1 -> [state EXCEPT !.pend = 2]
          [] byte = "c" /\ state.pend = 2 -> [pend |-> 0, text |-> Append(state.text, "bom")]
          [] byte = "e" -> [pend |-> 1, text |-> broken]
          [] OTHER -> [pend |-> 0, text |-> Append(broken, byte)]

Decoded(before, bytes) == FoldLeft(DecodeByte, [pend |-> before, text |-> <<>>], bytes)

\* One byte order mark at the start of the whole output is dropped.
StripBom(text) == IF atStart /\ text # <<>> /\ text[1] = "bom" THEN Tail(text) ELSE text

-----------------------------------------------------------------------------

Init ==
    /\ raw = <<>> /\ pend = 0 /\ atStart = TRUE
    /\ tail = <<>> /\ boundary = TRUE
    /\ decoded = 0 /\ completed = 0 /\ openLine = FALSE /\ lastLine = 0
    /\ finished = FALSE

\* _max_rolling_bytes
Rolling == 2 * MaxBytes

\* _trim_tail(), once the tail is twice as long as it may become.
TrimTail(text) ==
    IF Size(text) > 2 * Rolling
    THEN LET cut == BytesFromEnd(text, Rolling)
         IN  /\ tail' = cut
             /\ boundary' = (text[Len(text) - Len(cut)] = "n")
    ELSE tail' = text /\ UNCHANGED boundary

\* The line counters.
CountLines(text) ==
    LET newlines == Newlines(text)
        rest == IF newlines = {} THEN text ELSE From(text, Max(newlines) + 1)
    IN  /\ completed' = completed + Cardinality(newlines)
        /\ lastLine' = Size(rest) + (IF newlines = {} THEN lastLine ELSE 0)
        /\ openLine' = (rest # <<>>)

\* _append_decoded()
AppendDecoded(text) ==
    IF text = <<>>
    THEN UNCHANGED <<tail, boundary, decoded, completed, openLine, lastLine>>
    ELSE /\ decoded' = decoded + Size(text)
         /\ TrimTail(tail \o text)
         /\ CountLines(text)

\* append(): a chunk of either pipe.
AppendChunk ==
    /\ ~finished
    /\ \E bytes \in BoundedSeq(Byte, MaxChunk) :
          /\ bytes # <<>> /\ Len(raw) + Len(bytes) <= MaxRaw
          /\ LET result == Decoded(pend, bytes)
             IN  /\ raw' = raw \o bytes
                 /\ pend' = result.pend
                 /\ atStart' = (atStart /\ result.text = <<>>)
                 /\ AppendDecoded(StripBom(result.text))
    /\ UNCHANGED finished

\* finish(): what the decoder still holds becomes a replacement character.
Finish ==
    /\ ~finished
    /\ finished' = TRUE
    /\ pend' = 0
    /\ AppendDecoded(IF pend > 0 THEN <<"bad">> ELSE <<>>)
    /\ atStart' = (atStart /\ pend = 0)
    /\ UNCHANGED raw

Next == AppendChunk \/ Finish

Spec == Init /\ [][Next]_vars

-----------------------------------------------------------------------------
(* The snapshot.                                                           *)

TotalLines == completed + (IF openLine THEN 1 ELSE 0)

\* _snapshot_text(): a first line that was cut is dropped, if there is another.
SnapshotText ==
    IF boundary \/ Newlines(tail) = {} THEN tail
    ELSE From(tail, Min(Newlines(tail)) + 1)

Truncated == TotalLines > MaxLines \/ decoded > MaxBytes

Snapshot ==
    LET cut == TruncateTail(SnapshotText)
    IN  [cut EXCEPT !.by = IF ~Truncated THEN "none"
                           ELSE IF @ # "none" THEN @
                           ELSE IF decoded > MaxBytes THEN "bytes" ELSE "lines"]

-----------------------------------------------------------------------------

TypeOK ==
    /\ raw \in Seq(Byte) /\ pend \in 0..2
    /\ {atStart, boundary, openLine, finished} \subseteq BOOLEAN
    /\ tail \in Seq({"a", "n", "bom", "bad"}) /\ Size(tail) <= 2 * Rolling
    /\ decoded \in Nat /\ completed \in Nat /\ lastLine \in 0..decoded

\* The whole output, decoded in one piece.
Whole ==
    LET result == Decoded(0, raw)
        text == IF result.pend > 0 /\ finished THEN Append(result.text, "bad") ELSE result.text
    IN  IF text # <<>> /\ text[1] = "bom" THEN Tail(text) ELSE text

\* However the output was cut into chunks, the counters are those of the
\* output decoded in one piece.
CountsExact ==
    /\ decoded = Size(Whole)
    /\ TotalLines = Len(Lines(Whole))

\* What the model is shown of the rolling tail is what truncating the whole
\* output would have shown: wherever the tail was cut it still holds every line
\* that fits.  (A newline at the end may be left.)  Excepted is an output
\* whose last line alone is longer than the tail and ends with a newline.
SnapshotExact ==
    LET full == TruncateTail(Whole)
    IN  SnapshotText # <<>> \/ tail = <<>> =>
            /\ Snapshot.content \in {full.content, Append(full.content, "n")}
            /\ Snapshot.lines = full.lines /\ Snapshot.partial = full.partial

=============================================================================
