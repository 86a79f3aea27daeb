---------------------------- MODULE IgnoreRules ----------------------------
(***************************************************************************)
(* The matcher of ignore rules (skills/_ignore.py): rules are added batch  *)
(* by batch while paths are asked for, and what was found out about a path *)
(* and the directories above it is remembered in between.  A path is its   *)
(* names, with a slash behind when it is a directory.  A pattern is what   *)
(* its regular expression looks for: names, from the root of the walk or   *)
(* anywhere, a directory or anything.                                      *)
(***************************************************************************)
EXTENDS Naturals, Sequences, SequencesExt, FiniteSetsExt, TLC

CONSTANTS
    Patterns,   \* the patterns that may be added
    Asked,      \* the paths that may be asked for
    MaxRules    \* bound on the rules

AnyName == "*"

VARIABLES
    rules,      \* Ignore._rules: the patterns in force, in the order they were added
    cache,      \* Ignore._cache: what is known of paths
    verdict     \* the path last asked for, and the answer; no path when rules came since

ignoreVars == <<rules, cache, verdict>>

NoVerdict == [path |-> [names |-> <<>>, slash |-> FALSE], ignored |-> FALSE]

Init == rules = <<>> /\ cache = <<>> /\ verdict = NoVerdict

\* rule.regex.search(path): behind an anchor the whole path, else its end.
Matches(rule, path) ==
    LET from == Len(path.names) - Len(rule.names)
    IN  /\ IF rule.anchored THEN from = 0 ELSE from >= 0
        /\ \A i \in DOMAIN rule.names : rule.names[i] \in {AnyName, path.names[from + i]}
        /\ rule.directory => path.slash

\* Ignore.add_valid(): blank patterns and comments are passed over, those without
\* a valid expression rejected, and what was known is forgotten with a new rule.
add_valid(patterns) ==
    LET valid == SelectSeq(patterns, LAMBDA p : p.form = "valid")
    IN  /\ Len(rules) + Len(valid) <= MaxRules
        /\ rules' = rules \o valid
        /\ cache' = IF valid = <<>> THEN cache ELSE <<>>
        /\ verdict' = NoVerdict

\* Ignore._test(): the rules one after the other, without looking at those that
\* could not change the result.
test(path) ==
    FoldLeft(LAMBDA r, rule :
                 IF \/ r.unignored = rule.negative /\ r.ignored # r.unignored
                    \/ rule.negative /\ ~r.ignored /\ ~r.unignored
                    \/ ~Matches(rule, path)
                 THEN r
                 ELSE [ignored |-> ~rule.negative, unignored |-> rule.negative],
             [ignored |-> FALSE, unignored |-> FALSE], rules)

\* The directories above a path, topmost first, and the path.
Chain(path) ==
    [i \in DOMAIN path.names |->
        [names |-> SubSeq(path.names, 1, i), slash |-> IF i = Len(path.names) THEN path.slash ELSE TRUE]]

\* Ignore._t(): from the nearest that is known downwards, each ignored with the
\* one above it, else by the rules; all of them are known then.
Ignores(path) ==
    LET chain == Chain(path)
        known == Max({0} \cup {i \in DOMAIN chain : chain[i] \in DOMAIN cache})
        below(c, i) ==
            LET inherits == i > 1 /\ c[chain[i - 1]].ignored
            IN  (chain[i] :> IF inherits THEN c[chain[i - 1]] ELSE test(chain[i])) @@ c
        evaluated == FoldLeft(below, cache, [i \in 1..(Len(chain) - known) |-> known + i])
    IN  /\ cache' = evaluated
        /\ verdict' = [path |-> path, ignored |-> evaluated[path].ignored]
        /\ UNCHANGED rules

Next ==
    \/ \E p \in Patterns : add_valid(<<p>>) \/ \E q \in Patterns : add_valid(<<p, q>>)
    \/ \E path \in Asked : Ignores(path)

-----------------------------------------------------------------------------

\* Reference: the last rule that matches decides, and nothing below an ignored
\* directory comes back.
LastRuleIgnores(path) ==
    LET matching == {k \in DOMAIN rules : Matches(rules[k], path)}
    IN  matching # {} /\ ~rules[Max(matching)].negative
ShouldIgnore(path) == \E i \in DOMAIN path.names : LastRuleIgnores(Chain(path)[i])

\* What is remembered is what the rules now in force say, whatever was asked
\* before they came, and so is every answer.
NothingStale ==
    /\ \A path \in DOMAIN cache : cache[path].ignored <=> ShouldIgnore(path)
    /\ verdict # NoVerdict => (verdict.ignored <=> ShouldIgnore(verdict.path))
=============================================================================
