------------------------------ MODULE MCFiles ------------------------------
(* The file system provider, the tools above it and the discovery of        *)
(* skills.  The mutation queue runs alone with four calls, and with the edit *)
(* and write tools in it; removal is looked at on both platforms; the        *)
(* accumulator of command output is given every cut of a short output, and   *)
(* the pure functions every input of a small set.  They share no state      *)
(* here: a behaviour exercises the one `part` names, the others are at rest. *)
EXTENDS FileTools, TLC

CONSTANTS c1, c2, c3, c4

VARIABLES
    part,
    kind, fault, options, at, pending, first, failures, outside, renewed,
    op, stage, abort, cwd, resolved, thread, outcome, world, before, answer,
    there, denied, walk, looking, ended,
    lines, limit, offset, reading, work, fired, late, page, shown,
    skill, rules, refused, root, walking, stack, matcher, skills, diagnostics,
    oldText, newText, best, diagonal, editLength, low, high, script,
    added, cache, verdict,
    raw, pend, atStart, tail, boundary, decoded, completed, openLine, lastLine, finished,
    input

toolVars == <<vars, workVars>>
removeVars == <<kind, fault, options, at, pending, first, failures, outside, renewed>>
opVars == <<op, stage, abort, cwd, resolved, thread, outcome, world, before, answer>>
dirVars == <<there, denied, walk, looking, ended>>
readVars == <<lines, limit, offset, reading, work, fired, late, page, shown>>
skillVars == <<skill, rules, refused, root, walking, stack, matcher, skills, diagnostics>>
diffVars == <<oldText, newText, best, diagonal, editLength, low, high, script>>
ignoreVars == <<added, cache, verdict>>
outputVars == <<raw, pend, atStart, tail, boundary, decoded, completed, openLine, lastLine, finished>>
showVars == <<diffVars, ignoreVars, outputVars>>

-----------------------------------------------------------------------------
(* Two edits, one through a symbolic link, and a write *)

MCTool == (c1 :> "edit") @@ (c2 :> "edit") @@ (c3 :> "write")
MaxFired == 1   \* bound on the signals that fire
MCSpelling == (c1 :> "direct") @@ (c2 :> "linked") @@ (c3 :> "direct")

-----------------------------------------------------------------------------
(* A tree to remove: two entries, one with an entry of its own *)

Tree == ("top" :> "nothing") @@ ("a" :> "top") @@ ("b" :> "a") @@ ("c" :> "top")
HostFaults == {"none", "denied", "eperm", "readonly", "unlistable", "hidden"}

Posix == INSTANCE RemoveTree WITH
    Parent <- Tree, NoNode <- "nothing", Faults <- HostFaults, Windows <- FALSE, MaxOutside <- 1
Win32 == INSTANCE RemoveTree WITH
    Parent <- Tree, NoNode <- "nothing", Faults <- HostFaults, Windows <- TRUE, MaxOutside <- 1

\* One name has a fault, and perhaps the deepest cannot be removed.
FewFaults ==
    \E n \in DOMAIN Tree : \A m \in DOMAIN Tree \ {n} :
        fault[m] = "none" \/ (m = "b" /\ fault[m] = "denied")

-----------------------------------------------------------------------------
(* One operation of the provider, two walkers making directories *)

Ops == INSTANCE FileOps WITH signal <- abort, Walkers <- {c1, c2}, Depth <- 3
Reads == INSTANCE ReadTool WITH
    stage <- reading, signal <- fired, answer <- page,
    MaxLines <- 2, MaxBytes <- 3, MaxLength <- 4, Sizes <- {0, 1, 2, 4}, Limits <- {0, 1, 2, 3, 99}

-----------------------------------------------------------------------------
(* Skills in a directory with two entries, the second a link back to it *)

Directories ==
    ("top" :> (("a" :> "deep") @@ ("b" :> "leaf") @@ ("hid" :> "leaf") @@ ("m" :> "note"))) @@
    ("deep" :> (("a" :> "leaf") @@ ("b" :> "top") @@ ("m" :> "note"))) @@
    ("leaf" :> <<>>) @@ ("note" :> <<>>)

Skills == INSTANCE SkillDiscovery WITH
    Sub <- Directories, Top <- "top", Note <- "note", Order <- <<"a", "b", "hid", "m">>,
    Hidden <- {"hid"}, Roots <- 2, MaxPath <- 3

\* What cannot be listed or loaded is looked at with rules in one directory, and
\* one skill in the tree cannot be loaded.
FewTroubles ==
    /\ skill["note"] \in {"none", "good"}
    /\ \E d \in DOMAIN skill : \A n \in DOMAIN skill \ {d} : skill[n] \in {"none", "good"}
    /\ \/ refused = {} /\ \A n \in DOMAIN skill : skill[n] \in {"none", "good"}
       \/ rules["deep"] = {} /\ rules["leaf"] = {} /\ refused \in {{}, {"deep"}, {"leaf"}}

-----------------------------------------------------------------------------
(* The matcher of the rules, the texts a diff is shown of, and the output of *)
(* a command                                                                 *)

PatternsOf(names, anchored, directory, negative, form) ==
    [names : {names}, anchored : {anchored}, directory : {directory}, negative : negative, form : form]
Directory(names) == [names |-> names, slash |-> TRUE]
File(names) == [names |-> names, slash |-> FALSE]

Ignore == INSTANCE IgnoreRules WITH
    rules <- added, MaxRules <- 3,
    Patterns <- PatternsOf(<<"a">>, FALSE, FALSE, BOOLEAN, {"valid"}) \cup
                PatternsOf(<<"b">>, FALSE, TRUE, {FALSE}, {"valid", "invalid"}) \cup
                PatternsOf(<<"a", "b">>, TRUE, FALSE, {TRUE}, {"valid"}) \cup
                PatternsOf(<<"*">>, FALSE, FALSE, BOOLEAN, {"valid"}),
    Asked <- {Directory(<<"a">>), File(<<"a", "b">>), Directory(<<"a", "b">>),
              File(<<"a", "b", "c">>), Directory(<<"b">>)}

Diff == INSTANCE EditDiff WITH Lines <- {"x", "y"}, MaxLines <- 4

Output == INSTANCE BashOutput WITH MaxBytes <- 3, MaxLines <- 2, MaxRaw <- 6, MaxChunk <- 2

-----------------------------------------------------------------------------
(* The pure functions *)

TextsUpTo(n) == UNION {[1..k -> {"n", "s", "p"}] : k \in 0..n}
Edits == [old : TextsUpTo(2), new : {<<>>, <<"p">>}]
EditInputs == [t : TextsUpTo(3), e : [1..1 -> Edits] \cup [1..2 -> Edits]]

Unset == Ops!Path("none", FALSE, <<>>)
Drives == {"C", "D"}
Relative == [device : {"none"} \cup Drives, absolute : BOOLEAN,
             segments : UNION {[1..k -> {"..", "a"}] : k \in 0..2}]
Places == [device : Drives, absolute : {TRUE}, segments : {<<>>, <<"w">>, <<"w", "v">>}]
Inherited == {h \in [Drives -> {Unset} \cup Places] : \A d \in Drives : h[d] # Unset => h[d].device = d}
PathInputs == [p : [1..1 -> Relative] \cup {<<x, y>> : x \in Places, y \in Relative},
               h : Inherited, w : Places]

NoInput == "none"

-----------------------------------------------------------------------------

Removals == {"remove posix", "remove windows"}
Parts == {"queue", "tools", "operations", "directories", "reads", "skills", "ignore", "diff", "output", "texts",
          "paths"} \cup Removals

MCInit ==
    /\ part \in Parts
    /\ Init
    /\ WorkInit /\ (part # "tools" => file = Fresh(TRUE))
    /\ IF part \in Removals THEN Posix!Init /\ FewFaults
       ELSE /\ kind = NoInput /\ fault = NoInput /\ options = NoInput /\ at = NoInput /\ pending = NoInput
            /\ first = NoInput /\ failures = NoInput /\ outside = NoInput /\ renewed = NoInput
    /\ IF part = "operations" THEN Ops!Init
       ELSE /\ op = NoInput /\ stage = NoInput /\ abort = NoInput /\ cwd = NoInput /\ resolved = NoInput
            /\ thread = NoInput /\ outcome = NoInput /\ world = NoInput /\ before = NoInput
            /\ answer = NoInput
    /\ IF part = "directories" THEN Ops!WalkInit
       ELSE there = NoInput /\ denied = NoInput /\ walk = NoInput /\ looking = NoInput /\ ended = NoInput
    /\ IF part = "reads" THEN Reads!Init
       ELSE /\ lines = NoInput /\ limit = NoInput /\ offset = NoInput /\ reading = NoInput
            /\ work = NoInput /\ fired = NoInput /\ late = NoInput /\ page = NoInput /\ shown = NoInput
    /\ IF part = "skills" THEN Skills!Init /\ FewTroubles
       ELSE /\ skill = NoInput /\ rules = NoInput /\ refused = NoInput /\ root = NoInput
            /\ walking = NoInput /\ stack = NoInput /\ matcher = NoInput /\ skills = NoInput
            /\ diagnostics = NoInput
    /\ IF part = "diff" THEN Diff!Init
       ELSE /\ oldText = NoInput /\ newText = NoInput /\ best = NoInput /\ diagonal = NoInput
            /\ editLength = NoInput /\ low = NoInput /\ high = NoInput /\ script = NoInput
    /\ IF part = "ignore" THEN Ignore!Init
       ELSE added = NoInput /\ cache = NoInput /\ verdict = NoInput
    /\ IF part = "output" THEN Output!Init
       ELSE /\ raw = NoInput /\ pend = NoInput /\ atStart = NoInput /\ tail = NoInput
            /\ boundary = NoInput /\ decoded = NoInput /\ completed = NoInput
            /\ openLine = NoInput /\ lastLine = NoInput /\ finished = NoInput
    /\ input \in CASE part = "texts" -> EditInputs [] part = "paths" -> PathInputs [] OTHER -> {NoInput}

MCNext ==
    /\ UNCHANGED <<part, input>>
    /\ \/ part = "queue" /\ Next /\ UNCHANGED workVars
          /\ UNCHANGED <<removeVars, opVars, dirVars, readVars, skillVars, showVars>>
       \/ part = "tools" /\ ToolsNext /\ Cardinality(signal') <= MaxFired /\ OneQueue'
          /\ UNCHANGED <<removeVars, opVars, dirVars, readVars, skillVars, showVars>>
       \/ part = "remove posix" /\ Posix!Next /\ UNCHANGED <<toolVars, opVars, dirVars, readVars, skillVars, showVars>>
       \/ part = "remove windows" /\ Win32!Next /\ UNCHANGED <<toolVars, opVars, dirVars, readVars, skillVars, showVars>>
       \/ part = "operations" /\ Ops!Next /\ UNCHANGED <<toolVars, removeVars, dirVars, readVars, skillVars, showVars>>
       \/ part = "directories" /\ Ops!WalkNext /\ UNCHANGED <<toolVars, removeVars, opVars, readVars, skillVars, showVars>>
       \/ part = "reads" /\ Reads!Next /\ UNCHANGED <<toolVars, removeVars, opVars, dirVars, skillVars, showVars>>
       \/ part = "skills" /\ Skills!Next /\ UNCHANGED <<toolVars, removeVars, opVars, dirVars, readVars, showVars>>
       \/ part = "ignore" /\ Ignore!Next
          /\ UNCHANGED <<toolVars, removeVars, opVars, dirVars, readVars, skillVars, diffVars, outputVars>>
       \/ part = "diff" /\ Diff!Next
          /\ UNCHANGED <<toolVars, removeVars, opVars, dirVars, readVars, skillVars, ignoreVars, outputVars>>
       \/ part = "output" /\ Output!Next
          /\ UNCHANGED <<toolVars, removeVars, opVars, dirVars, readVars, skillVars, diffVars, ignoreVars>>

mcVars == <<part, toolVars, removeVars, opVars, dirVars, readVars, skillVars, showVars, input>>

\* The event loop runs what is ready, and the file system answers.  A behaviour
\* stays in one part, so that the walks share a conjunct.
MCFairness ==
    /\ \A c \in Calls : WF_vars(part = "queue" /\ Settle(c))
    /\ \A c \in ToolCalls : WF_toolVars(part = "tools" /\ Proceeds(c))
    /\ WF_<<removeVars, skillVars, diffVars>>(
           \/ part = "remove posix" /\ Posix!Remove /\ UNCHANGED <<skillVars, diffVars>>
           \/ part = "remove windows" /\ Win32!Remove /\ UNCHANGED <<skillVars, diffVars>>
           \/ part = "skills" /\ Skills!Load /\ UNCHANGED <<removeVars, diffVars>>
           \/ part = "diff" /\ Diff!Next /\ UNCHANGED <<removeVars, skillVars>>)

MCSpec == MCInit /\ [][MCNext]_mcVars /\ MCFairness

-----------------------------------------------------------------------------

\* The provider does what it answers: an operation whose signal fired first
\* touches nothing, one that answers has come to its end, and a directory path
\* is made or refused for what is really in its way, also when two make it at
\* once.  remove() on either platform: success means that the target is gone,
\* what is left is what the host refused or somebody made meanwhile, and the
\* failure reported is the first.
ProviderHonest ==
    /\ part = "operations" =>
           Ops!TypeOK /\ Ops!AbortedBeforeUntouched /\ Ops!AnswerIsFinal /\ Ops!AnswerIsHonest
    /\ part = "directories" => Ops!WalkTypeOK /\ Ops!PathMade
    /\ part = "remove posix" =>
           /\ Posix!TypeOK /\ Posix!OkMeansGone
           /\ Posix!EverythingRemovableGone /\ Posix!FirstFailureReported
    /\ part = "remove windows" =>
           /\ Win32!TypeOK /\ Win32!OkMeansGone
           /\ Win32!EverythingRemovableGone /\ Win32!FirstFailureReported

\* The skills found are those no rule, hidden name or skill above hides, under
\* every path and once; what could not be loaded is reported.  The matcher of
\* the rules answers and remembers what the rules now in force say, whatever was
\* asked before a directory further down added its own.
SkillsFound ==
    /\ part = "skills" => Skills!TypeOK /\ Skills!SkillsFound /\ Skills!FailuresReported
    /\ part = "ignore" => Ignore!NothingStale

\* What is shown and changed is exact: the pages of a file follow one another,
\* edits change what they name and nothing else, also when they match only
\* after normalisation, and a path resolves as a shell would go there.  The
\* diff shown of an edit is a shortest one, found within its bound, its patch
\* applies to the old text and gives the new, and its numbers are those of the
\* lines.  However the output of a command was cut into chunks, its accumulator
\* counts and shows what it would have of the output decoded in one piece.
TextsExact ==
    /\ part = "diff" => Diff!DiffTypeOK /\ Diff!SearchBounded /\ Diff!ScriptShortest /\ Diff!ShownExactly
    /\ part = "reads" => Reads!TypeOK /\ Reads!PagesInOrder /\ Reads!OrderDecides
    /\ part = "output" => Output!TypeOK /\ Output!CountsExact /\ Output!SnapshotExact
    /\ part = "texts" => Diff!EditsExact(input.t, input.e)
    /\ part = "paths" =>
           /\ input.h[input.w.device] \in {Unset, input.w} =>
                  Ops!ResolvesLikeCd(input.p, Drives, input.h, input.w)
           /\ Len(input.p) = 2 =>
                  Ops!ResolveIsStable(input.p[1], input.p[2], Drives, input.h, input.w)

\* Every call made comes to an end and gives up its entry, with the tools at
\* work too; a removal ends on a tree that changes, the walk for skills in a
\* tree with a cycle, and the search for a diff.
CallsSettle ==
    []<>(/\ AllSettled
         /\ part \in Removals => at.step = "answer"
         /\ part = "skills" => root > 2
         /\ part = "diff" => script # Diff!Searching)

=============================================================================
