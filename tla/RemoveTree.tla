----------------------------- MODULE RemoveTree -----------------------------
(***************************************************************************)
(* LocalFileSystem.remove() (execution/filesystem.py): _remove_sync() and  *)
(* the walk of _rimraf(), one step per native call, so that somebody else  *)
(* may change the tree between any two.  A directory is tried with rmdir   *)
(* first, listed when that says it is not empty, and tried again when its  *)
(* children are gone.  A failure does not stop the siblings.               *)
(***************************************************************************)
EXTENDS Naturals, Sequences

CONSTANTS
    Parent,      \* the tree of names: the directory of each, NoNode for the target
    NoNode,
    Faults,      \* what the host may refuse, a subset of AllFaults
    Windows,     \* sys.platform == "win32"
    MaxOutside   \* changes somebody else makes meanwhile

Names == DOMAIN Parent
Root == CHOOSE n \in Names : Parent[n] = NoNode

\* denied: its removal is refused (EACCES); eperm: refused with EPERM, for good;
\* readonly: with EPERM until its attribute is corrected; unlistable: a
\* directory that cannot be read; hidden: denied, and so is its lstat.
AllFaults == {"none", "denied", "eperm", "readonly", "unlistable", "hidden"}

VARIABLES
    kind,      \* what each name is: "none", "file" or "dir"
    fault,     \* what the host refuses of it
    options,   \* the arguments recursive and force
    at,        \* the native call next made, on which entry, with _rmdir's original error
    pending,   \* the directories being emptied: their children left, any failure below
    first,     \* the failure to report
    failures,  \* auxiliary: the failures met, in order
    outside,   \* changes left to somebody else
    renewed    \* auxiliary: names somebody else made

vars == <<kind, fault, options, at, pending, first, failures, outside, renewed>>

NoError == "none"
Children(n) == {c \in Names : Parent[c] = n /\ kind[c] # "none"}
Call(step, n, original) == [step |-> step, entry |-> n, original |-> original]
Failure(n, error) == [entry |-> n, error |-> error]
NoFailure == Failure(NoNode, NoError)

\* Every directory above a name is there.
WellFormed(k) == \A n \in Names : k[n] # "none" /\ Parent[n] # NoNode => k[Parent[n]] = "dir"

Init ==
    /\ kind \in {k \in [Names -> {"none", "file", "dir"}] : WellFormed(k)}
    /\ fault \in [Names -> Faults]
    /\ options \in [recursive : BOOLEAN, force : BOOLEAN]
    /\ at = Call("validate", Root, NoError)
    /\ pending = <<>> /\ first = NoFailure /\ failures = <<>>
    /\ outside = MaxOutside /\ renewed = {}

-----------------------------------------------------------------------------
(* The host *)

\* lstat(): ENOENT is what _vanished() recognises.
LstatError(n) ==
    CASE kind[n] = "none" -> "ENOENT" [] fault[n] = "hidden" -> "EACCES"
      [] Windows /\ fault[n] = "eperm" -> "EPERM" [] OTHER -> NoError

Refused(n) ==
    CASE fault[n] \in {"denied", "hidden"} -> "EACCES"
      [] fault[n] = "eperm" \/ (Windows /\ fault[n] = "readonly") -> "EPERM"
      [] OTHER -> NoError

UnlinkError(n) ==
    CASE kind[n] = "none" -> "ENOENT"
      [] Refused(n) # NoError -> Refused(n)
      [] kind[n] = "dir" -> IF Windows THEN "EPERM" ELSE "EISDIR"
      [] OTHER -> NoError

\* On Windows rmdir() of a file is error 267, which counts as vanished.
RmdirError(n) ==
    CASE kind[n] = "none" \/ (Windows /\ kind[n] = "file") -> "ENOENT"
      [] kind[n] = "file" -> "ENOTDIR"
      [] Refused(n) # NoError -> Refused(n)
      [] Children(n) # {} -> "ENOTEMPTY"
      [] OTHER -> NoError

Gone(n) == kind' = [kind EXCEPT ![n] = "none"]

-----------------------------------------------------------------------------
(* The walk *)

\* The next thing to do when an entry is settled: the frame on top of the
\* stack, or the answer.
Onward == Call(IF pending = <<>> THEN "answer" ELSE "next", NoNode, NoError)

\* The entry is settled without an error.
Settled == at' = Onward /\ UNCHANGED <<pending, first, failures>>

\* Mutant: the failure reported is the last one.
RaisesLast(n, error) ==
    /\ failures' = Append(failures, Failure(n, error))
    /\ first' = Failure(n, error)
    /\ at' = Onward
    /\ pending' = IF pending = <<>> THEN pending ELSE [pending EXCEPT ![Len(pending)].failed = TRUE]

\* An OSError for an entry: _rimraf() keeps the first one, marks the directory
\* the entry is in and goes on.  Before the walk it is the answer.
Raises(n, error) ==
    /\ failures' = Append(failures, Failure(n, error))
    /\ first' = IF first = NoFailure THEN Failure(n, error) ELSE first
    /\ at' = Onward
    /\ pending' = IF pending = <<>> THEN pending ELSE [pending EXCEPT ![Len(pending)].failed = TRUE]

\* The call goes on with another native call on the same entry.
Then(step, original) ==
    /\ at' = Call(step, at.entry, original)
    /\ UNCHANGED <<pending, first, failures>>

\* _remove_sync(): the target is validated, then classified afresh.
Validate ==
    LET error == LstatError(Root)
    IN  /\ at.step = "validate"
        /\ CASE error # NoError /\ ~(options.force /\ error = "ENOENT") -> Raises(Root, error)
             [] error = NoError /\ kind[Root] = "dir" /\ ~options.recursive -> Raises(Root, "EISDIR")
             [] OTHER -> Then("lstat", NoError)
        /\ UNCHANGED <<kind, fault>>

\* _rimraf_entry(): only a directory is returned to the walk.
RimrafEntry ==
    LET n == at.entry
        error == LstatError(n)
    IN  /\ at.step = "lstat"
        /\ CASE error = "ENOENT" -> Settled
             [] Windows /\ error = "EPERM" -> Then("correct", error)
             [] error = NoError /\ kind[n] = "dir" -> Then("rmdir", NoError)
             [] OTHER -> Then("unlink", NoError)
        /\ UNCHANGED <<kind, fault>>

\* _unlink_routed()
UnlinkRouted ==
    LET n == at.entry
        error == UnlinkError(n)
    IN  /\ at.step = "unlink"
        /\ CASE error = NoError -> Gone(n) /\ Settled
             [] error = "ENOENT" -> Settled /\ UNCHANGED kind
             [] error = "EPERM" /\ Windows -> Then("correct", error) /\ UNCHANGED kind
             [] error \in {"EISDIR", "EPERM"} /\ ~Windows -> Then("rmdir", error) /\ UNCHANGED kind
             [] OTHER -> Raises(n, error) /\ UNCHANGED kind
        /\ UNCHANGED fault

\* _fix_win_eperm() up to the inspection of the corrected entry.
FixWinEperm ==
    LET n == at.entry
    IN  /\ at.step = "correct"
        /\ \/ /\ kind[n] = "none" /\ Settled /\ UNCHANGED fault
           \/ /\ kind[n] # "none" /\ fault[n] = "eperm"
              /\ Raises(n, at.original) /\ UNCHANGED fault
           \/ /\ kind[n] # "none" /\ fault[n] # "eperm"
              /\ fault' = [fault EXCEPT ![n] = IF @ = "readonly" THEN "none" ELSE @]
              /\ IF kind[n] = "dir" THEN Then("rmdir", at.original) ELSE Then("retry", NoError)
        /\ UNCHANGED kind

\* The one retry of _fix_win_eperm().
Retry ==
    LET n == at.entry
        error == UnlinkError(n)
    IN  /\ at.step = "retry"
        /\ CASE error = NoError -> Gone(n) /\ Settled
             [] error = "ENOENT" -> Settled /\ UNCHANGED kind
             [] OTHER -> Raises(n, error) /\ UNCHANGED kind
        /\ UNCHANGED fault

\* _rmdir_first(), its rmdir: an entry that turned out to be no directory
\* answers the error that routed it there.
RmdirFirst ==
    LET n == at.entry
        error == RmdirError(n)
    IN  /\ at.step = "rmdir"
        /\ CASE error = NoError -> Gone(n) /\ Settled
             [] error = "ENOENT" -> Settled /\ UNCHANGED kind
             [] error = "ENOTDIR" ->
                    /\ IF at.original # NoError THEN Raises(n, at.original) ELSE Settled
                    /\ UNCHANGED kind
             [] error \in {"ENOTEMPTY", "EPERM"} -> Then("list", NoError) /\ UNCHANGED kind
             [] OTHER -> Raises(n, error) /\ UNCHANGED kind
        /\ UNCHANGED fault

\* _rmdir_first(), its listing: the children it has now.
ListChildren ==
    LET n == at.entry
    IN  /\ at.step = "list"
        /\ CASE kind[n] = "none" -> Settled
             [] kind[n] = "file" -> IF Windows THEN Settled ELSE Raises(n, "ENOTDIR")
             [] fault[n] \in {"unlistable", "hidden"} -> Raises(n, "EACCES")
             [] OTHER ->
                    /\ pending' = Append(pending, [directory |-> n, remaining |-> Children(n),
                                                   failed |-> FALSE])
                    /\ at' = Call("next", NoNode, NoError)
                    /\ UNCHANGED <<first, failures>>
        /\ UNCHANGED <<kind, fault>>

\* One turn of _rimraf()'s loop: the next child, in the order of the listing,
\* which the host chooses.
NextChild ==
    LET top == Len(pending)
    IN  /\ at.step = "next" /\ pending[top].remaining # {}
        /\ \E c \in pending[top].remaining :
               /\ pending' = [pending EXCEPT ![top].remaining = @ \ {c}]
               /\ at' = Call("lstat", c, NoError)
        /\ UNCHANGED <<kind, fault, first, failures>>

\* The children were all tried: _rmdir_last(), unless one of them failed; a
\* failure marks the directory above.
Emptied ==
    LET top == Len(pending)
        frame == pending[top]
        error == RmdirError(frame.directory)
        failed == frame.failed \/ error \notin {NoError, "ENOENT"}
        below == SubSeq(pending, 1, top - 1)
    IN  /\ at.step = "next" /\ frame.remaining = {}
        /\ pending' = IF failed /\ below # <<>> THEN [below EXCEPT ![top - 1].failed = TRUE] ELSE below
        /\ at' = Call(IF below = <<>> THEN "answer" ELSE "next", NoNode, NoError)
        /\ IF ~frame.failed /\ error = NoError THEN Gone(frame.directory) ELSE UNCHANGED kind
        /\ IF ~frame.failed /\ failed
           THEN /\ failures' = Append(failures, Failure(frame.directory, error))
                /\ first' = IF first = NoFailure THEN Failure(frame.directory, error) ELSE first
           ELSE UNCHANGED <<first, failures>>
        /\ UNCHANGED fault

Remove ==
    /\ \/ Validate \/ RimrafEntry \/ UnlinkRouted \/ FixWinEperm \/ Retry
       \/ RmdirFirst \/ ListChildren \/ NextChild \/ Emptied
    /\ UNCHANGED <<options, outside, renewed>>

\* Somebody else makes a file or a directory, or removes a file or an empty
\* directory; to replace one by the other takes both.
Outside ==
    /\ outside > 0 /\ at.step # "answer"
    /\ \E n \in Names, k \in {"none", "file", "dir"} :
           /\ kind[n] = "none" <=> k # "none"
           /\ IF k = "none" THEN Children(n) = {}
              ELSE Parent[n] # NoNode => kind[Parent[n]] = "dir"
           /\ kind' = [kind EXCEPT ![n] = k]
           /\ renewed' = IF k = "none" THEN renewed ELSE renewed \cup {n}
    /\ outside' = outside - 1
    /\ UNCHANGED <<fault, options, at, pending, first, failures>>

Next == Remove \/ Outside

Spec == Init /\ [][Next]_vars /\ WF_vars(Remove)

-----------------------------------------------------------------------------

TypeOK ==
    /\ WellFormed(kind)
    /\ fault \in [Names -> AllFaults]
    /\ at.step \in {"validate", "lstat", "unlink", "correct", "retry", "rmdir", "list", "next", "answer"}
    /\ at.step \in {"next", "answer"} <=> at.entry = NoNode
    /\ \A i \in DOMAIN pending : pending[i].remaining \subseteq Names
    /\ at.step = "next" => pending # <<>>

Answered == at.step = "answer"

\* The names above and below one name, itself included.
Path(n) == LET up[m \in Names] == {m} \cup IF Parent[m] = NoNode THEN {} ELSE up[Parent[m]] IN up[n]
Related(n, m) == n \in Path(m) \/ m \in Path(n)

\* An answer without a failure means that the target is gone, unless somebody
\* made it again, whatever else changed in the tree meanwhile.
OkMeansGone == Answered /\ first = NoFailure => kind[Root] = "none" \/ Root \in renewed

\* "Every remaining sibling, with its own subtree, is still removed": what is
\* left in the end could not be removed, or holds or is held by what could not,
\* or came after.
EverythingRemovableGone ==
    Answered =>
        \A n \in Names : kind[n] # "none" =>
            n \in renewed \/ \E i \in DOMAIN failures : Related(n, failures[i].entry)

\* "The FIRST failure encountered, unchanged, is the whole removal's failure".
FirstFailureReported == Answered => first = IF failures = <<>> THEN NoFailure ELSE failures[1]

\* The walk ends, also on a tree that grows under it for a while.
Ends == <>Answered

=============================================================================
