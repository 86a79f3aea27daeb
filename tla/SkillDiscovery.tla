--------------------------- MODULE SkillDiscovery ---------------------------
(***************************************************************************)
(* How skills are found (skills/discovery.py): load_skills() walks its     *)
(* roots one after the other, depth first with a stack of its own, and     *)
(* collects the ignore rules of the directories as it meets them in one    *)
(* matcher.  Directories are nodes; a path is a sequence of names, so that *)
(* a symbolic link to a directory above makes paths without end, which     *)
(* only the host's limit cuts off.                                         *)
(***************************************************************************)
EXTENDS Naturals, Sequences, SequencesExt

CONSTANTS
    Sub,       \* the directories in each directory: names to nodes
    Top,       \* the directory the roots name
    Note,      \* the node of a plain .md file
    Order,     \* the names, in the order of the pinned collation
    Hidden,    \* names that begin with a dot, and node_modules
    Roots,     \* how many times the directory is given as a root
    MaxPath    \* the longest path the host accepts

Nodes == DOMAIN Sub
SkillFile == "SKILL.md"
IgnoreFile == "ignore file"
Unreadable == {IgnoreFile}   \* stands for the rules of an ignore file that cannot be read

VARIABLES
    skill,       \* the SKILL.md of each node, or the note: "none", "good", "bad" or "unreadable"
    rules,       \* what the ignore file of each directory names, or Unreadable
    refused,     \* directories that cannot be listed
    root,        \* the number of the root being walked, Roots + 1 at the end
    walking,     \* is it being walked?
    stack,       \* the frames: a path, and its children still to visit
    matcher,     \* the rules met under this root, each with its prefix
    skills,      \* what was loaded, in order
    diagnostics  \* what was reported, in order

vars == <<skill, rules, refused, root, walking, stack, matcher, skills, diagnostics>>
tree == <<skill, rules, refused>>

\* The node a path leads to from the top, through links.
NodeAt(path) == FoldLeft(LAMBDA n, name : Sub[n][name], Top, path)

Init ==
    /\ skill \in [Nodes -> {"none", "good", "bad", "unreadable"}]
    /\ rules \in [Nodes \ {Note} -> (SUBSET {Order[1], SkillFile}) \cup {Unreadable}]
    /\ refused \in SUBSET (Nodes \ {Note})
    /\ root = 1 /\ walking = FALSE /\ stack = <<>> /\ matcher = {} /\ skills = <<>> /\ diagnostics = <<>>

-----------------------------------------------------------------------------

Readable(node) == rules[node] \ Unreadable

\* Mutant: a rule is kept without the directory it is from.
add_rules_bare(path) == matcher \cup {[prefix |-> <<>>, name |-> n] : n \in Readable(NodeAt(path))}

\* _add_ignore_rules(): the rules of a directory, prefixed with its path.  An
\* ignore file that cannot be read is reported and gives none.  (Of a pattern the
\* library refuses, reported too, IgnoreRules has more.)
add_ignore_rules(path) == matcher \cup {[prefix |-> path, name |-> n] : n \in Readable(NodeAt(path))}

\* Ignore.ignores(): a rule of the root holds at any depth; one with a prefix
\* is anchored there.
Ignores(m, path) ==
    \E r \in m : r.name = Last(path) /\ (r.prefix = <<>> \/ r.prefix = Front(path))

Report(code, path) == [code |-> code, root |-> root, path |-> path]

RulesReport(path) ==
    IF rules[NodeAt(path)] = Unreadable THEN <<Report("read_failed", Append(path, IgnoreFile))>> ELSE <<>>

\* _load_file() of a SKILL.md: what it adds to the skills, and its diagnostic.
Loads(path) == IF skill[NodeAt(path)] = "good" THEN <<[root |-> root, path |-> path]>> ELSE <<>>
LoadReport(path) ==
    CASE skill[NodeAt(path)] = "bad" -> <<Report("parse_failed", path)>>
      [] skill[NodeAt(path)] = "unreadable" -> <<Report("read_failed", path)>>
      [] OTHER -> <<>>

\* The children of a directory, in order.
Children(path) == SelectSeq(Order, LAMBDA n : n \in DOMAIN Sub[NodeAt(path)])

\* _enter(): a path the host refuses is reported; then the ignore rules, the
\* listing, and a SKILL.md that is not ignored, which ends the directory;
\* otherwise a frame is pushed on `below'.
Enter(path, below) ==
    LET known == add_ignore_rules(path)
        declares == skill[NodeAt(path)] # "none" /\ ~Ignores(known, Append(path, SkillFile))
        none(reports) == stack' = below /\ diagnostics' = diagnostics \o reports
    IN  IF Len(path) > MaxPath
        THEN none(<<Report("file_info_failed", path)>>) /\ UNCHANGED <<matcher, skills>>
        ELSE /\ matcher' = known
             /\ CASE NodeAt(path) \in refused ->
                         none(Append(RulesReport(path), Report("list_failed", path))) /\ UNCHANGED skills
                  [] NodeAt(path) \notin refused /\ declares ->
                         none(RulesReport(path) \o LoadReport(path)) /\ skills' = skills \o Loads(path)
                  [] OTHER ->
                         /\ stack' = Append(below, [path |-> path, children |-> Children(path)])
                         /\ diagnostics' = diagnostics \o RulesReport(path)
                         /\ UNCHANGED skills

\* load_skills(): the next root, with a matcher of its own.
StartRoot ==
    /\ ~walking /\ root <= Roots
    /\ walking' = TRUE
    /\ Enter(<<>>, <<>>)
    /\ UNCHANGED <<tree, root>>

EndRoot ==
    /\ walking /\ stack = <<>>
    /\ walking' = FALSE /\ root' = root + 1 /\ matcher' = {}
    /\ UNCHANGED <<tree, stack, skills, diagnostics>>

\* A plain .md file is loaded directly below a root only, and without a word
\* when it is no skill.
VisitNote(path, rest) ==
    /\ stack' = rest
    /\ skills' = IF Len(path) = 1 THEN skills \o Loads(path) ELSE skills
    /\ diagnostics' = IF Len(path) = 1 /\ skill[Note] = "unreadable"
                      THEN Append(diagnostics, Report("read_failed", path)) ELSE diagnostics
    /\ UNCHANGED matcher

\* One turn of _walk(): the next child of the frame on top is skipped when it
\* is hidden or ignored, and entered otherwise; a frame without children is
\* dropped.
Visit ==
    LET frame == Last(stack)
        child == Append(frame.path, Head(frame.children))
        rest == [stack EXCEPT ![Len(stack)].children = Tail(@)]
    IN  /\ walking /\ stack # <<>> /\ frame.children # <<>>
        /\ IF Last(child) \in Hidden \/ Ignores(matcher, child)
           THEN stack' = rest /\ UNCHANGED <<matcher, skills, diagnostics>>
           ELSE IF NodeAt(child) = Note THEN VisitNote(child, rest) ELSE Enter(child, rest)
        /\ UNCHANGED <<tree, root, walking>>

Drop ==
    /\ walking /\ stack # <<>> /\ Last(stack).children = <<>>
    /\ stack' = Front(stack)
    /\ UNCHANGED <<tree, root, walking, matcher, skills, diagnostics>>

Load == StartRoot \/ Visit \/ Drop \/ EndRoot
Next == Load

Spec == Init /\ [][Next]_vars /\ WF_vars(Load)

-----------------------------------------------------------------------------

TypeOK ==
    /\ root \in 1..(Roots + 1) /\ walking \in BOOLEAN
    /\ \A i \in DOMAIN stack : Len(stack[i].path) = i - 1

\* Reference: a path is ignored by the rules of the top and of its own parent;
\* a directory is reached if on the way to it nothing was ignored or hidden, no
\* listing failed and no directory was a skill itself.
Above(path) == {SubSeq(path, 1, i) : i \in 0..(Len(path) - 1)}
RefIgnores(path) == Last(path) \in rules[Top] \cup rules[NodeAt(Front(path))]
Declares(path) == skill[NodeAt(path)] # "none" /\ ~RefIgnores(Append(path, SkillFile))
Reached(path) ==
    /\ \A p \in Above(path) : ~Declares(p) /\ NodeAt(p) \notin refused
    /\ \A p \in (Above(path) \cup {path}) \ {<<>>} : Last(p) \notin Hidden /\ ~RefIgnores(p)
Paths ==
    {p \in UNION {[1..n -> {Order[i] : i \in DOMAIN Order}] : n \in 0..MaxPath} :
        \A i \in DOMAIN p : p[i] \in DOMAIN Sub[NodeAt(SubSeq(p, 1, i - 1))]}
IsSkill(p) == IF NodeAt(p) = Note THEN Len(p) = 1 ELSE NodeAt(p) \notin refused /\ Declares(p)
Expected == {p \in Paths : Reached(p) /\ IsSkill(p) /\ skill[NodeAt(p)] = "good"}

\* Each root yields the skills below it that nothing hides, each under every
\* path that leads to it and once under each; the rules of one directory never
\* reach into another, although all of them share the matcher, and never into
\* the next root.
SkillsFound ==
    /\ ~walking => \A r \in 1..(root - 1) :
           {skills[i].path : i \in {j \in DOMAIN skills : skills[j].root = r}} = Expected
    /\ \A i, j \in DOMAIN skills : skills[i] = skills[j] => i = j

\* Nothing is dropped without a word: what can be reached and is neither loaded
\* nor empty has its diagnostic, and so have rules that could not be read.
Reported(path) == \E i \in DOMAIN diagnostics : diagnostics[i].path = path
FailuresReported ==
    root > Roots => \A p \in Paths :
        Reached(p) /\ NodeAt(p) # Note =>
            /\ NodeAt(p) \in refused \/ (Declares(p) /\ skill[NodeAt(p)] # "good") => Reported(p)
            /\ rules[NodeAt(p)] = Unreadable => Reported(Append(p, IgnoreFile))

\* The walk ends, also in a tree with a cycle: at the host's limit.
Ends == <>(root > Roots)

=============================================================================
