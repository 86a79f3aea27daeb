------------------------------ MODULE EditDiff ------------------------------
(***************************************************************************)
(* How the edit tool computes the new content, and what it shows of the    *)
(* change (tools/builtin/edit_diff.py and _jsdiff.py).  First operators    *)
(* over texts, as sequences of characters: NewLine, Space (which fuzzy     *)
(* matching drops at the end of a line), Quote (which it turns into Plain) *)
(* and others; an edit is a pair of texts.  Then, over sequences of lines  *)
(* that are mere names, the search of diff_tokens() for a shortest script  *)
(* from the old text to the new, the hunks of a patch made of it, and the  *)
(* numbered listing of generate_diff_string(); positions count the lines   *)
(* consumed: old_pos + 1 and new_pos + 1 of the code.                      *)
(***************************************************************************)
EXTENDS Naturals, Integers, Sequences, SequencesExt, FiniteSetsExt, TLC

CONSTANTS
    Lines,      \* the lines there are
    MaxLines    \* bound on the lines of a text

NoPath == [at |-> -1, parts |-> <<>>]
Searching == <<[kind |-> "searching", count |-> 0]>>
Far == 2 * MaxLines + 1   \* beyond every diagonal: infinity

VARIABLES
    oldText, newText,  \* the texts
    best,        \* best_path: of each diagonal, how much of oldText is consumed and by which parts
    diagonal,    \* the one looked at next
    editLength,  \* the insertions and deletions of the paths in this round
    low, high,   \* min_diagonal and max_diagonal
    script       \* the parts of the script found

diffVars == <<oldText, newText, best, diagonal, editLength, low, high, script>>

-----------------------------------------------------------------------------
(* The new content *)

NewLine == "n"
Space == "s"
Quote == "q"
Plain == "p"

Cut(t, from, to) == SubSeq(t, from + 1, to)   \* t[from:to]

\* The places at which old stands in t, counted from 0.
Places(t, old) == {i \in 0..(Len(t) - Len(old)) : Cut(t, i, i + Len(old)) = old}

\* fuzzy_normalize(): line by line, trailing blanks dropped; quotes replaced.
fuzzy_normalize(t) ==
    LET trailing(i) == \E j \in i..Len(t) : /\ \A k \in i..j : t[k] = Space
                                            /\ j = Len(t) \/ t[j + 1] = NewLine
        kept == {i \in DOMAIN t : ~trailing(i)}
        at(i) == IF t[i] = Quote THEN Plain ELSE t[i]
    IN  FoldLeft(LAMBDA r, i : IF i \in kept THEN Append(r, at(i)) ELSE r, <<>>,
                 [i \in 1..Len(t) |-> i])

\* fuzzy_find(): exactly, else in the normalized text.
fuzzy_find(t, old) ==
    LET exact == Places(t, old)
        fuzzyOld == fuzzy_normalize(old)
        fuzzy == Places(fuzzy_normalize(t), fuzzyOld)
    IN  CASE exact # {} -> [found |-> TRUE, index |-> Min(exact), length |-> Len(old), fuzzy |-> FALSE]
          [] exact = {} /\ fuzzy # {} ->
                 [found |-> TRUE, index |-> Min(fuzzy), length |-> Len(fuzzyOld), fuzzy |-> TRUE]
          [] OTHER -> [found |-> FALSE, index |-> 0, length |-> 0, fuzzy |-> FALSE]

\* count_occurrences() > 1: always in the normalized text, without overlaps; an
\* empty text is counted once for every character but one.
Ambiguous(t, old) ==
    LET fuzzyOld == fuzzy_normalize(old)
        places == Places(fuzzy_normalize(t), fuzzyOld)
    IN  IF fuzzyOld = <<>> THEN Len(fuzzy_normalize(t)) - 1 > 1
        ELSE \E i, j \in places : i + Len(fuzzyOld) <= j

\* Mutant: the replacements are made from the first to the last.
replacements_forward(t, replacements, offset) ==
    FoldLeft(LAMBDA r, m : Cut(r, 0, m.index - offset) \o m.new
                           \o Cut(r, m.index - offset + m.length, Len(r)),
             t, replacements)

\* apply_replacements(): from the last to the first, so that the places stay.
apply_replacements(t, replacements, offset) ==
    FoldRight(LAMBDA m, r : Cut(r, 0, m.index - offset) \o m.new
                            \o Cut(r, m.index - offset + m.length, Len(r)),
              replacements, t)

\* _line_spans(): where the lines begin and end, their newlines included.
line_spans(t) ==
    LET ends == {i \in 1..Len(t) : t[i] = NewLine \/ i = Len(t)}
        ordered == SetToSortSeq(ends, <)
    IN  [k \in 1..Len(ordered) |-> [from |-> IF k = 1 THEN 0 ELSE ordered[k - 1], to |-> ordered[k]]]

\* _replacement_line_range(): the first and last line a replacement touches, or
\* NoRange when it is outside the text.
NoRange == [first |-> 0, last |-> 0]
line_range(spans, m) ==
    LET starts == {k \in DOMAIN spans : spans[k].from <= m.index /\ m.index < spans[k].to}
        ends == {k \in DOMAIN spans : spans[k].to >= m.index + m.length}
    IN  IF starts = {} \/ ends = {} THEN NoRange
        ELSE [first |-> Min(starts), last |-> Max({Min(starts), Min(ends)})]

\* A line no replacement touches: as it was.
untouched(original, base, k) ==
    Cut(original, line_spans(original)[k].from, line_spans(original)[k].to)

\* preserve_unchanged_lines(): replacements that share a line make a group; the
\* lines of a group are taken from the normalized text, all others as they were.
preserve_unchanged_lines(original, base, replacements) ==
    LET spans == line_spans(base)
        range == [i \in DOMAIN replacements |-> line_range(spans, replacements[i])]
        grouped == FoldLeft(
            LAMBDA groups, i :
                IF groups # <<>> /\ range[i].first <= Last(groups).last
                THEN [groups EXCEPT ![Len(groups)] =
                          [@ EXCEPT !.last = Max({@, range[i].last}), !.members = Append(@, replacements[i])]]
                ELSE Append(groups, [first |-> range[i].first, last |-> range[i].last,
                                     members |-> <<replacements[i]>>]),
            <<>>, [i \in DOMAIN replacements |-> i])
        kept(from, to) == FlattenSeq([k \in 1..(to + 1 - from) |-> untouched(original, base, from + k - 1)])
        done == FoldLeft(
            LAMBDA r, g :
                LET from == spans[g.first].from
                IN  [text |-> r.text \o kept(r.next, g.first - 1)
                              \o apply_replacements(Cut(base, from, spans[g.last].to), g.members, from),
                     next |-> g.last + 1],
            [text |-> <<>>, next |-> 1], grouped)
    IN  CASE Len(line_spans(original)) # Len(spans) -> [error |-> "line count"]
          [] \E i \in DOMAIN range : range[i] = NoRange -> [error |-> "range"]
          [] OTHER -> [error |-> "none", text |-> done.text \o kept(done.next, Len(spans))]

\* The edits with their matches, in the order of the text.
Matched(base, edits) ==
    SortSeq([i \in DOMAIN edits |-> fuzzy_find(base, edits[i].old) @@ [new |-> edits[i].new, edit |-> i]],
            LAMBDA a, b : a.index < b.index \/ (a.index = b.index /\ a.edit < b.edit))

\* The replacements made, in the text as it is or in its normalized form.
Replaced(t, fuzzy, base, matched) ==
    IF fuzzy THEN preserve_unchanged_lines(t, base, matched)
    ELSE [error |-> "none", text |-> apply_replacements(base, matched, 0)]

\* Why there is no new content, or "none": an old text is empty, or does not
\* stand there exactly once, two overlap, or nothing would change.
Failure(t, edits, base, matched, result) ==
    IF \E i \in DOMAIN edits : edits[i].old = <<>> THEN "empty"
    ELSE IF \E i \in DOMAIN matched : ~matched[i].found \/ Ambiguous(base, edits[matched[i].edit].old)
    THEN "not once"
    ELSE IF \E i \in 1..(Len(matched) - 1) :
                matched[i].index + matched[i].length > matched[i + 1].index
    THEN "overlap"
    ELSE IF result.error # "none" THEN result.error
    ELSE IF result.text = t THEN "no change" ELSE "none"

Outcome(t, edits, fuzzy, base, matched) ==
    LET result == Replaced(t, fuzzy, base, matched)
        error == Failure(t, edits, base, matched, result)
    IN  [error |-> error, fuzzy |-> fuzzy, base |-> base,
         matched |-> IF error = "none" THEN matched ELSE <<>>,
         text |-> IF error = "none" THEN result.text ELSE <<>>]

OutcomeIn(t, edits, fuzzy, base) == Outcome(t, edits, fuzzy, base, Matched(base, edits))

\* apply_edits(): the new content, or why there is none; with what was matched
\* and in which text.
apply_edits(t, edits) ==
    LET fuzzy == \E i \in DOMAIN edits : fuzzy_find(t, edits[i].old).fuzzy
    IN  OutcomeIn(t, edits, fuzzy, IF fuzzy THEN fuzzy_normalize(t) ELSE t)

-----------------------------------------------------------------------------

\* Reference: the text with its matched parts exchanged, put together once from
\* left to right.
Exchanged(base, matched) ==
    LET done == FoldLeft(LAMBDA r, m : [text |-> r.text \o Cut(base, r.next, m.index) \o m.new,
                                        next |-> m.index + m.length],
                         [text |-> <<>>, next |-> 0], matched)
    IN  done.text \o Cut(base, done.next, Len(base))

LinesOf(t) == [k \in DOMAIN line_spans(t) |-> Cut(t, line_spans(t)[k].from, line_spans(t)[k].to)]

\* An edit that succeeds exchanges each old text for its new one and nothing
\* else: exactly when the texts were found as they stand, and up to blanks and
\* quotes when they were not; and then the lines before and after the first and
\* the last match keep every character they had.  It fails for an internal
\* reason only on a text whose last line is blank or that is empty.
Exact(t, r, exchanged, spans) ==
    LET before == line_range(spans, r.matched[1]).first - 1
        after == Len(spans) - Max({line_range(spans, r.matched[i]).last : i \in DOMAIN r.matched})
        original == LinesOf(t)
    IN  /\ r.error = "none" /\ ~r.fuzzy => r.text = exchanged
        /\ r.error = "none" /\ r.fuzzy =>
               /\ fuzzy_normalize(r.text) = fuzzy_normalize(exchanged)
               /\ IsPrefix(FlattenSeq(SubSeq(original, 1, before)), r.text)
               /\ IsSuffix(FlattenSeq(SubSeq(original, Len(original) + 1 - after, Len(original))), r.text)
        /\ r.error \in {"line count", "range"} => t = <<>> \/ Last(t) = Space \/ r.base = <<>>

ExactIn(t, r) == Exact(t, r, Exchanged(r.base, r.matched), line_spans(r.base))
EditsExact(t, edits) == ExactIn(t, apply_edits(t, edits))

-----------------------------------------------------------------------------
(* The search for a script *)

\* _add_to_path(): one more line of the kind, merged into a last part of it.
add_to_path(path, kind, consumed) ==
    LET parts == path.parts
    IN  [at |-> path.at + consumed,
         parts |-> IF parts # <<>> /\ Last(parts).kind = kind
                   THEN Append(Front(parts), [kind |-> kind, count |-> Last(parts).count + 1])
                   ELSE Append(parts, [kind |-> kind, count |-> 1])]

\* _extract_common(): the lines both texts have from here on.
extract_common(path, d) ==
    LET o == path.at
        n == o - d
        common == Max({k \in 0..Min({Len(oldText) - o, Len(newText) - n}) :
                       \A i \in 1..k : oldText[o + i] = newText[n + i]})
    IN  IF common = 0 THEN path
        ELSE [at |-> o + common, parts |-> Append(path.parts, [kind |-> "same", count |-> common])]

Consumed(path, d) == path.at >= Len(oldText) /\ path.at - d >= Len(newText)

Texts == UNION {[1..n -> Lines] : n \in 0..MaxLines}

Init ==
    /\ oldText \in Texts /\ newText \in Texts
    /\ LET seed == extract_common([at |-> 0, parts |-> <<>>], 0)
       IN  /\ best = [d \in (-Far)..Far |-> IF d = 0 THEN seed ELSE NoPath]
           /\ script = IF Consumed(seed, 0) THEN seed.parts ELSE Searching
    /\ editLength = 1 /\ diagonal = -1 /\ low = -Far /\ high = Far

\* The path of an insertion or of a deletion, whichever reached further.
Extends(removes, adds, d) ==
    LET canAdd == adds # NoPath /\ adds.at - d - 1 \in 0..(Len(newText) - 1)
        canRemove == removes # NoPath /\ removes.at < Len(oldText)
    IN  CASE ~canAdd /\ ~canRemove -> NoPath
          [] canAdd /\ (~canRemove \/ removes.at < adds.at) ->
                 extract_common(add_to_path(adds, "added", 0), d)
          [] OTHER -> extract_common(add_to_path(removes, "removed", 1), d)

\* One diagonal of a round.  A path that has consumed a text keeps the search
\* from diagonals on its far side.
Look ==
    /\ script = Searching /\ diagonal <= Min({high, editLength})
    /\ LET path == Extends(best[diagonal - 1], best[diagonal + 1], diagonal)
       IN  /\ best' = [best EXCEPT ![diagonal - 1] = NoPath, ![diagonal] = path]
           /\ script' = IF path # NoPath /\ Consumed(path, diagonal) THEN path.parts ELSE script
           /\ high' = IF path # NoPath /\ path.at >= Len(oldText) THEN Min({high, diagonal - 1}) ELSE high
           /\ low' = IF path # NoPath /\ path.at - diagonal >= Len(newText) THEN Max({low, diagonal + 1}) ELSE low
    /\ diagonal' = diagonal + 2
    /\ UNCHANGED <<oldText, newText, editLength>>

\* The next round.
Lengthen ==
    /\ script = Searching /\ diagonal > Min({high, editLength})
    /\ editLength' = editLength + 1
    /\ diagonal' = Max({low, -editLength'})
    /\ UNCHANGED <<oldText, newText, best, low, high, script>>

Next == Look \/ Lengthen

-----------------------------------------------------------------------------
(* What is made of the script *)

Kept(kind, side) == kind = "same" \/ kind = side

\* How many lines of a text the parts before the i-th stand for.
Before(side, i) ==
    FoldLeft(LAMBDA sum, p : sum + IF Kept(p.kind, side) THEN p.count ELSE 0, 0, SubSeq(script, 1, i - 1))

\* _build_values(): the lines of a part.
Value(i) ==
    LET part == script[i]
        from == Before(IF part.kind = "removed" THEN "removed" ELSE "added", i)
        text == IF part.kind = "removed" THEN oldText ELSE newText
    IN  SubSeq(text, from + 1, from + part.count)

Changed(i) == i \in DOMAIN script /\ script[i].kind # "same"
Marked(mark, lines) == [i \in DOMAIN lines |-> [mark |-> mark, line |-> lines[i]]]
Mark(i) == IF script[i].kind = "added" THEN "+" ELSE "-"

\* The last `context' of the lines, lines[-context:].
Ending(lines, context) == SubSeq(lines, Max({0, Len(lines) - context}) + 1, Len(lines))

NoHunk == [oldStart |-> 0, newStart |-> 0, lines |-> <<>>]

\* _structured_hunks(): the changes with their context, those that are close in
\* one hunk.  The part after the last, which closes a hunk, has no lines.
structured_hunks(context) ==
    LET step(s, i) ==
            LET lines == IF i \in DOMAIN script THEN Value(i) ELSE <<>>
                before == IF i > 1 THEN Ending(Value(i - 1), context) ELSE <<>>
                opened == IF s.open # NoHunk THEN s.open
                          ELSE [oldStart |-> Before("removed", i) + 1 - Len(before),
                                newStart |-> Before("added", i) + 1 - Len(before),
                                lines |-> Marked(" ", before)]
                after == Min({Len(lines), context})
                closed == [oldStart |-> s.open.oldStart, newStart |-> s.open.newStart,
                           oldLines |-> Before("removed", i) + 1 - s.open.oldStart + after,
                           newLines |-> Before("added", i) + 1 - s.open.newStart + after,
                           lines |-> s.open.lines \o Marked(" ", SubSeq(lines, 1, after))]
            IN  CASE Changed(i) -> [s EXCEPT !.open = [opened EXCEPT !.lines = @ \o Marked(Mark(i), lines)]]
                  [] ~Changed(i) /\ s.open = NoHunk -> s
                  [] OTHER -> IF Len(lines) <= context * 2 /\ i < Len(script)
                              THEN [s EXCEPT !.open.lines = @ \o Marked(" ", lines)]
                              ELSE [hunks |-> Append(s.hunks, closed), open |-> NoHunk]
    IN  FoldLeft(step, [hunks |-> <<>>, open |-> NoHunk], [i \in 1..(Len(script) + 1) |-> i]).hunks

\* generate_diff_string(): every changed line with its number, the context with
\* the numbers it has in the old text, and the number of the first change.
generate_diff_string(context) ==
    LET numbered(mark, lines, from) ==
            [i \in DOMAIN lines |-> [mark |-> mark, line |-> lines[i], number |-> from + i]]
        gap == <<[mark |-> "...", line |-> "", number |-> 0]>>
        shown(i) ==
            LET lines == Value(i)
                all == numbered(" ", lines, Before("removed", i))
                leading == SubSeq(all, 1, Min({context, Len(lines)}))
                trailing == Ending(all, context)
                long == Len(lines) > context
            IN  CASE script[i].kind = "added" -> numbered("+", lines, Before("added", i))
                  [] script[i].kind = "removed" -> numbered("-", lines, Before("removed", i))
                  [] Changed(i - 1) /\ Changed(i + 1) ->
                         IF Len(lines) <= context * 2 THEN all ELSE leading \o gap \o trailing
                  [] Changed(i - 1) /\ ~Changed(i + 1) -> leading \o IF long THEN gap ELSE <<>>
                  [] ~Changed(i - 1) /\ Changed(i + 1) -> (IF long THEN gap ELSE <<>>) \o trailing
                  [] OTHER -> <<>>
        changes == {i \in DOMAIN script : Changed(i)}
    IN  [output |-> FlattenSeq([i \in DOMAIN script |-> shown(i)]),
         first |-> IF changes = {} THEN 0 ELSE Before("added", Min(changes)) + 1]

-----------------------------------------------------------------------------

DiffTypeOK ==
    /\ oldText \in Texts /\ newText \in Texts
    /\ editLength \in 1..(2 * MaxLines + 1) /\ low \in (-Far)..Far /\ high \in (-Far)..Far

Sides(lines, marks) == LET kept == SelectSeq(lines, LAMBDA x : x.mark \in marks)
                       IN  [i \in DOMAIN kept |-> kept[i].line]

\* The script turns old into new, and no shorter one does: the diagonals that
\* are left out are never needed.
ScriptShortest ==
    script # Searching =>
        LET parts(kinds) == FlattenSeq([i \in DOMAIN script |->
                                IF script[i].kind \in kinds THEN Value(i) ELSE <<>>])
            common == Max({Len(s) : s \in AllSubSeqs(oldText) \cap AllSubSeqs(newText)})
        IN  /\ parts({"same", "removed"}) = oldText /\ parts({"same", "added"}) = newText
            /\ Len(parts({"same"})) = common

\* "editLength never exceeds newLen + oldLen": the search comes to an end.
SearchBounded == script = Searching => editLength <= Len(oldText) + Len(newText)

\* The patch applies: a hunk holds the lines of both texts it says it does, and
\* between hunks, before the first and behind the last the texts agree.
PatchApplies(hunks) ==
    LET ends == [oldStart |-> Len(oldText) + 1, newStart |-> Len(newText) + 1]
        start(k) == IF k > Len(hunks) THEN ends ELSE hunks[k]
        oldEnd(k) == IF k = 0 THEN 1 ELSE hunks[k].oldStart + hunks[k].oldLines
        newEnd(k) == IF k = 0 THEN 1 ELSE hunks[k].newStart + hunks[k].newLines
    IN  /\ \A k \in DOMAIN hunks :
               /\ Sides(hunks[k].lines, {" ", "-"}) = SubSeq(oldText, hunks[k].oldStart, oldEnd(k) - 1)
               /\ Sides(hunks[k].lines, {" ", "+"}) = SubSeq(newText, hunks[k].newStart, newEnd(k) - 1)
        /\ \A k \in 0..Len(hunks) :
               /\ oldEnd(k) <= start(k + 1).oldStart
               /\ SubSeq(oldText, oldEnd(k), start(k + 1).oldStart - 1) = SubSeq(newText, newEnd(k), start(k + 1).newStart - 1)

\* The listing is true: every changed line is shown once, in order, under the
\* number it has in its text, and context under that of the old text.
ListingTrue(listing) ==
    LET numbers(marks) == LET of == SelectSeq(listing.output, LAMBDA x : x.mark \in marks)
                          IN  [i \in DOMAIN of |-> of[i].number]
        increasing(s) == \A i, j \in DOMAIN s : i < j => s[i] < s[j]
        changed(kind) == FlattenSeq([i \in DOMAIN script |->
                             IF script[i].kind = kind THEN Value(i) ELSE <<>>])
    IN  /\ \A i \in DOMAIN listing.output :
               LET x == listing.output[i]
               IN  /\ x.mark = "+" => newText[x.number] = x.line
                   /\ x.mark \in {" ", "-"} => oldText[x.number] = x.line
        /\ increasing(numbers({" ", "-"})) /\ increasing(numbers({"+"}))
        /\ Sides(listing.output, {"-"}) = changed("removed")
        /\ Sides(listing.output, {"+"}) = changed("added")
        /\ listing.first = 0 <=> oldText = newText
        /\ listing.first # 0 => SubSeq(oldText, 1, listing.first - 1) = SubSeq(newText, 1, listing.first - 1)

ShownExactly ==
    script # Searching =>
        \A context \in 0..1 :
            PatchApplies(structured_hunks(context)) /\ ListingTrue(generate_diff_string(context))
=============================================================================
