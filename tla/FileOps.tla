------------------------------ MODULE FileOps ------------------------------
(***************************************************************************)
(* One operation of LocalFileSystem (execution/filesystem.py) against a    *)
(* small world, a signal that may fire, a process directory that may       *)
(* vanish, and the thread that does the native call.  Every operation is   *)
(* the same sequence - resolve its arguments, look at the signal, make the *)
(* parent directories, do the native call in a thread, perhaps raced with  *)
(* the signal - from which each leaves out what its record says.  The walk *)
(* of a recursive mkdir, in several threads at once, has a machine of its  *)
(* own; the resolution of Windows paths, a pure function, is at the end.   *)
(***************************************************************************)
EXTENDS Naturals, Sequences, SequencesExt

CONSTANTS
    Walkers,   \* the threads that make one directory path
    Depth      \* the number of components of the path

VARIABLES
    op,        \* the operation: its record, and its arguments
    stage,     \* where it is
    signal,    \* "quiet", "aborted", or "early": aborted before the call
    cwd,       \* the process directory: a version, 0 when it cannot be read
    resolved,  \* _RESOLUTIONS: what each path argument resolved to, in order
    thread,    \* the native call: "none", "started", "opened" or "ended"
    outcome,   \* what the native call returned or raised
    world,     \* the parent directory, the entry in it, its content, the source of a rename
    before,    \* auxiliary: the world when the operation was called
    answer,    \* the Result, Pending while there is none
    there,     \* what each component is: "none", "dir", "file" or a "broken" link
    denied,    \* how the host refuses to make each: "none", "EACCES" or "other"
    walk,      \* each walker's stack, its next call last
    looking,   \* the error after which a walker is about to stat its component
    ended      \* each walker's end: "no", "done", or the error and the path it names

vars == <<op, stage, signal, cwd, resolved, thread, outcome, world, before, answer>>

-----------------------------------------------------------------------------
(* The operations.  paths: how many path arguments; checks: is the signal   *)
(* looked at after they are resolved; parents: is the parent made first,    *)
(* and the signal looked at again when it is `checked'; race: is the call   *)
(* raced with the signal.                                                   *)

Shape(paths, checks, parents, race, native) ==
    [paths |-> paths, checks |-> checks, parents |-> parents, race |-> race, native |-> native]

absolute_path == Shape(1, FALSE, "none", FALSE, "pure")
read_text_file == Shape(1, TRUE, "none", TRUE, "read")
read_text_lines == Shape(1, FALSE, "none", FALSE, "lines")
read_binary_file == Shape(1, TRUE, "none", TRUE, "read")
write_file == Shape(1, TRUE, "checked", TRUE, "write")
append_file == Shape(1, FALSE, "made", FALSE, "append")
rename_file == Shape(2, TRUE, "none", FALSE, "replace")
file_info == Shape(1, FALSE, "none", FALSE, "lstat")
list_dir == Shape(1, FALSE, "none", FALSE, "list")
list_dir_raw == Shape(1, FALSE, "none", FALSE, "listraw")
probe_dir_entry == Shape(1, FALSE, "none", FALSE, "lstat")
check_readable == Shape(1, FALSE, "none", FALSE, "stat")
check_read_write == Shape(1, FALSE, "none", FALSE, "stat")
canonical_path == Shape(1, FALSE, "none", FALSE, "realpath")
exists == Shape(1, FALSE, "none", FALSE, "exists")
create_dir == Shape(1, FALSE, "none", FALSE, "mkdirp")
create_dir_plain == Shape(1, FALSE, "none", FALSE, "mkdir")
create_temp_dir == Shape(0, FALSE, "none", FALSE, "temp")
create_temp_file == Shape(0, FALSE, "none", FALSE, "temp")
remove == Shape(1, FALSE, "none", FALSE, "remove")
resolve == Shape(1, FALSE, "none", FALSE, "resolve")

Operations ==
    {absolute_path, read_text_file, read_text_lines, read_binary_file, write_file, append_file,
     rename_file, file_info, list_dir, list_dir_raw, probe_dir_entry, check_readable,
     check_read_write, canonical_path, exists, create_dir, create_dir_plain, remove, create_temp_dir,
     create_temp_file, resolve}

\* The operations that look at the signal inside their thread.
InThread == {"lines", "list", "listraw"}
Inspects(o) == o.checks \/ o.native \in InThread

\* Arguments: does resolving one read the process directory, the last name of
\* which of them (or none) holds a NUL, and is max_lines zero or less.
Arguments == [relative : BOOLEAN, nul : 0..2, nothing : BOOLEAN]

Pending == [kind |-> "pending", path |-> 0]
Ok(value) == [kind |-> "ok", value |-> value, path |-> 0]
Err(code, path) == [kind |-> code, path |-> path]
Aborted == signal # "quiet"

Init ==
    /\ op \in [shape : Operations, args : Arguments]
    /\ op.args.nul <= op.shape.paths /\ (op.args.nothing => op.shape.native = "lines")
    /\ stage = "resolve" /\ signal \in {"quiet", "early"}
    /\ cwd = 1 /\ resolved = <<>> /\ thread = "none" /\ outcome = Pending
    /\ world \in [parent : {"none", "file", "dir"}, entry : {"none", "file", "dir"},
                  content : {"old"}, source : {"file"}]
    /\ world.parent # "dir" => world.entry = "none"
    /\ before = world /\ answer = Pending

-----------------------------------------------------------------------------
(* The method, on the event loop *)

Answer(a) == answer' = a /\ stage' = "answered"

\* _contain_nul(): the source slot, as it was resolved then.
Logical == IF resolved = <<>> THEN 0 ELSE resolved[1]

\* An abort names the last path: rename_file's destination.
AbortedAt == Err("aborted", resolved[Len(resolved)])

\* exists() on the answer of file_info(), resolve() on that of canonical_path():
\* `cwd' is a not_found that carries the mark of is_process_cwd_read_failure().
Derived(o) ==
    CASE op.shape.native = "exists" /\ o.kind = "not_found" -> Ok(FALSE)
      [] op.shape.native = "exists" /\ o.kind = "ok" -> Ok(TRUE)
      [] op.shape.native = "resolve" /\ o.kind = "not_found" ->
             IF op.args.relative /\ cwd = 0 THEN Err("cwd", 0) ELSE Ok("lexical")
      [] OTHER -> o

\* resolve_local_path() for the next argument; _typed_cwd_failure() when the
\* process directory cannot be read.
Resolve ==
    /\ stage = "resolve" /\ Len(resolved) < op.shape.paths
    /\ IF op.args.relative /\ cwd = 0
       THEN Answer(Derived(Err("cwd", 0))) /\ UNCHANGED resolved
       ELSE /\ resolved' = Append(resolved, IF op.args.relative THEN cwd ELSE 1)
            /\ UNCHANGED <<stage, answer>>
    /\ UNCHANGED <<op, signal, cwd, thread, outcome, world, before>>

\* The look at the signal once the arguments are resolved.
Check ==
    /\ stage = "resolve" /\ Len(resolved) = op.shape.paths
    /\ IF op.shape.checks /\ Aborted
       THEN Answer(AbortedAt)
       ELSE stage' = (IF op.shape.parents = "none" THEN "native" ELSE "parents") /\ UNCHANGED answer
    /\ UNCHANGED <<op, signal, cwd, resolved, thread, outcome, world, before>>

\* _node_mkdirp() of the parent, in a thread of its own and never raced; then
\* write_file looks at the signal again.
Parents ==
    /\ stage = "parents"
    /\ IF world.parent = "file"
       THEN Answer(Err("not_directory", 0)) /\ UNCHANGED world
       ELSE /\ world' = [world EXCEPT !.parent = "dir"]
            /\ IF op.shape.parents = "checked" /\ Aborted
               THEN Answer(AbortedAt)
               ELSE stage' = "native" /\ UNCHANGED answer
    /\ UNCHANGED <<op, signal, cwd, resolved, thread, outcome, before>>

\* asyncio.to_thread(): the thread starts.  An operation without a native call
\* answers at once; canonical_path refuses a NUL before it.
Start ==
    /\ stage = "native" /\ thread = "none"
    /\ CASE op.shape.native = "pure" -> Answer(Ok("path")) /\ UNCHANGED thread
         [] op.shape.native \in {"realpath", "resolve"} /\ op.args.nul > 0 ->
                Answer(Err("unknown", Logical)) /\ UNCHANGED thread
         [] OTHER -> thread' = "started" /\ stage' = "waiting" /\ UNCHANGED answer
    /\ UNCHANGED <<op, signal, cwd, resolved, outcome, world, before>>

\* The thread ended first, or there is no race: its outcome is the answer, also
\* when the signal has fired by now.
Await ==
    /\ stage = "waiting" /\ thread = "ended"
    /\ Answer(Derived(outcome))
    /\ UNCHANGED <<op, signal, cwd, resolved, thread, outcome, world, before>>

\* _race_signal(): the poll saw the signal while the thread was running.  The
\* thread is abandoned, not stopped.
Abandon ==
    /\ stage = "waiting" /\ op.shape.race /\ Aborted /\ thread # "ended"
    /\ Answer(AbortedAt)
    /\ UNCHANGED <<op, signal, cwd, resolved, thread, outcome, world, before>>

\* The task is cancelled in its await; the thread goes on.
Cancel ==
    /\ stage = "waiting" /\ thread # "ended"
    /\ stage' = "cancelled"
    /\ UNCHANGED <<op, signal, cwd, resolved, thread, outcome, world, before, answer>>

-----------------------------------------------------------------------------
(* The native call, in its thread *)

\* to_pi_fs_error() of a call on the entry.
Reach ==
    CASE op.args.nul > 0 -> Err("unknown", Logical)
      [] world.parent = "file" -> Err("not_directory", Logical)
      [] world.parent = "none" \/ world.entry = "none" -> Err("not_found", Logical)
      [] OTHER -> Ok("entry")

Failed == Reach.kind # "ok"
Ends(result, w) == outcome' = result /\ world' = w /\ thread' = "ended"

\* _write_file_sync(): the open creates or cuts the file, the write fills it.
WriteOpens ==
    /\ op.shape.native = "write" /\ thread = "started"
    /\ IF op.args.nul > 0 \/ world.parent # "dir" \/ world.entry = "dir"
       THEN Ends(IF Reach.kind # "ok" THEN Reach ELSE Err("is_directory", Logical), world)
       ELSE /\ world' = [world EXCEPT !.entry = "file", !.content = "cut"]
            /\ thread' = "opened" /\ UNCHANGED outcome

WriteFills ==
    /\ op.shape.native = "write" /\ thread = "opened"
    /\ Ends(Ok("written"), [world EXCEPT !.content = "new"])

\* _append_file_sync()
AppendNative ==
    /\ op.shape.native = "append" /\ thread = "started"
    /\ IF op.args.nul > 0 \/ world.parent # "dir" \/ world.entry = "dir"
       THEN Ends(IF Reach.kind # "ok" THEN Reach ELSE Err("is_directory", Logical), world)
       ELSE Ends(Ok("written"), [world EXCEPT !.entry = "file", !.content = "new"])

\* os.replace(): all or nothing; the entry is the destination.
ReplaceNative ==
    /\ op.shape.native = "replace" /\ thread = "started"
    /\ CASE op.args.nul > 0 -> Ends(Err("unknown", Logical), world)
         [] world.parent = "dir" /\ world.entry # "dir" ->
                Ends(Ok("moved"), [world EXCEPT !.entry = "file", !.content = "source", !.source = "none"])
         [] OTHER -> Ends(Err("failed", Logical), world)

\* create_dir: _node_mkdirp() (whose walk is below) or one mkdir.
MkdirNative ==
    LET recursive == op.shape.native = "mkdirp"
    IN  /\ op.shape.native \in {"mkdir", "mkdirp"} /\ thread = "started"
        /\ CASE op.args.nul > 0 -> Ends(Err("unknown", Logical), world)
             [] world.parent = "file" -> Ends(Err("not_directory", 0), world)
             [] ~recursive /\ world.parent = "none" -> Ends(Err("not_found", 0), world)
             [] world.entry = "file" \/ (~recursive /\ world.entry = "dir") ->
                    Ends(Err("exists", 0), world)
             [] OTHER -> Ends(Ok("made"), [world EXCEPT !.parent = "dir", !.entry = "dir"])

\* mkdtemp, and the empty file in it.
TempNative ==
    /\ op.shape.native = "temp" /\ thread = "started"
    /\ \E r \in {Ok("path"), Err("failed", 0)} : Ends(r, world)

\* remove of a file, or of a tree (RemoveTree).
RemoveNative ==
    /\ op.shape.native = "remove" /\ thread = "started"
    /\ IF Failed THEN Ends(Reach, world) ELSE Ends(Ok("removed"), [world EXCEPT !.entry = "none"])

\* The open of a listing, or of the file whose lines are read.
Opening ==
    CASE op.args.nothing -> Ok("items")
      [] Failed -> Reach
      [] op.shape.native = "lines" /\ world.entry = "dir" -> Err("is_directory", Logical)
      [] op.shape.native # "lines" /\ world.entry = "file" -> Err("not_directory", Logical)
      [] OTHER -> Pending

\* The calls that look at the signal in their thread: before the open, then
\* from line to line, or from entry to entry, one of which may be gone by then.
InspectNative ==
    /\ op.shape.native \in InThread
    /\ \/ thread = "started" /\ Aborted /\ Ends(AbortedAt, world)
       \/ thread = "started" /\ ~Aborted /\ Opening # Pending /\ Ends(Opening, world)
       \/ /\ thread = "started" /\ ~Aborted /\ Opening = Pending
          /\ thread' = "opened" /\ UNCHANGED <<outcome, world>>
       \/ thread = "opened" /\ op.shape.native = "list" /\ Ends(Err("not_found", 0), world)
       \/ /\ thread = "opened" /\ Aborted /\ op.shape.native # "listraw"
          /\ Ends(AbortedAt, world)
       \/ /\ thread = "opened" /\ (~Aborted \/ op.shape.native = "listraw")
          /\ Ends(Ok("items"), world)
       \* A listing that finished before the signal fired is not thrown away.
       \/ thread = "opened" /\ op.shape.native = "list" /\ Ends(Ok("items"), world)

\* The calls that only look at the entry.
LookNative ==
    /\ op.shape.native \in {"read", "lstat", "stat", "realpath", "exists", "resolve"}
    /\ thread = "started"
    /\ Ends(IF op.shape.native = "read" /\ ~Failed /\ world.entry = "dir"
            THEN Err("is_directory", Logical) ELSE Reach, world)

Native ==
    /\ \/ WriteOpens \/ WriteFills \/ AppendNative \/ ReplaceNative \/ MkdirNative \/ TempNative
       \/ RemoveNative \/ InspectNative \/ LookNative
    /\ UNCHANGED <<op, stage, signal, cwd, resolved, before, answer>>

-----------------------------------------------------------------------------

\* The signal fires; the process directory changes, or is removed.
Fires ==
    /\ signal = "quiet" /\ signal' = "aborted"
    /\ UNCHANGED <<op, stage, cwd, resolved, thread, outcome, world, before, answer>>
CwdMoves ==
    /\ cwd = 1 /\ cwd' \in {0, 2}
    /\ UNCHANGED <<op, stage, signal, resolved, thread, outcome, world, before, answer>>

Method == Resolve \/ Check \/ Parents \/ Start \/ Await \/ Abandon

Next == Method \/ Native \/ Cancel \/ Fires \/ CwdMoves

Spec == Init /\ [][Next]_vars

-----------------------------------------------------------------------------

TypeOK ==
    /\ stage \in {"resolve", "parents", "native", "waiting", "answered", "cancelled"}
    /\ answer = Pending <=> stage # "answered"
    /\ thread \in {"none", "started", "opened", "ended"}
    /\ world.entry # "none" => world.parent = "dir"

\* Nothing of an operation that looks at the signal happens when the signal had
\* fired before the call: the world is not touched, then or later.
AbortedBeforeUntouched == signal = "early" /\ Inspects(op.shape) => world = before

\* Any answer but `aborted' is the end of it: no thread of the operation is
\* still changing files, and a success has done what it says.  An operation
\* that does not look at the signal never answers `aborted'.
AnswerIsFinal ==
    /\ answer.kind \notin {"pending", "aborted"} => thread \in {"none", "ended"}
    /\ answer.kind = "aborted" => Inspects(op.shape) /\ Aborted
    /\ answer.kind = "ok" /\ op.shape.native \in {"write", "append"} => world.content = "new"
    /\ answer.kind = "ok" /\ op.shape.native = "replace" => world.source = "none"

\* DIV-009: a process directory that cannot be read says nothing about the
\* file.  exists() answers, and resolve() falls back, only from the host's own
\* word on it; and a refused NUL names the source as it was resolved.
AnswerIsHonest ==
    /\ op.shape.native = "exists" /\ answer.kind = "ok" =>
           answer.value = (world.parent = "dir" /\ world.entry # "none")
    /\ op.shape.native = "resolve" /\ answer.kind = "ok" /\ world.entry = "none" =>
           answer.value = "lexical" /\ resolved # <<>>
    /\ answer.kind = "unknown" => answer.path = resolved[1] /\ world.entry = before.entry

-----------------------------------------------------------------------------
(* _node_mkdirp(), called by several threads at once for one path: writes   *)
(* to different files of a new directory are queued apart, so their parent  *)
(* directories are made by whoever comes first.  A path is its number of    *)
(* components; 0 is an existing root.                                       *)

walkVars == <<there, denied, walk, looking, ended>>

WalkInit ==
    /\ there \in [1..Depth -> {"none", "dir", "file", "broken"}]
    /\ \A n \in 2..Depth : there[n] # "none" => there[n - 1] = "dir"
    /\ denied \in [1..Depth -> {"none", "EACCES", "other"}]
    /\ walk = [w \in Walkers |-> <<Depth>>]
    /\ looking = [w \in Walkers |-> "none"]
    /\ ended = [w \in Walkers |-> [error |-> "no", path |-> 0]]

Current(w) == walk[w][Len(walk[w])]
Waiting(w) == SubSeq(walk[w], 1, Len(walk[w]) - 1)

MkdirError(n) ==
    CASE n > 1 /\ there[n - 1] \in {"none", "broken"} -> "ENOENT"
      [] n > 1 /\ there[n - 1] = "file" -> "ENOTDIR"
      [] there[n] # "none" -> "EEXIST"
      [] OTHER -> denied[n]

WalkEnds(w, error, n) == ended' = [ended EXCEPT ![w] = [error |-> error, path |-> n]]

\* The walk goes on with the component below, or is done.
Goes(w) ==
    /\ walk' = [walk EXCEPT ![w] = Waiting(w)]
    /\ IF Waiting(w) = <<>> THEN WalkEnds(w, "done", 0) ELSE UNCHANGED ended

\* One mkdir: a missing parent is put on the stack first, two refusals end the
\* walk, and after any other error the component is looked at.
Make(w) ==
    LET n == Current(w)
        error == MkdirError(n)
    IN  /\ ended[w].error = "no" /\ looking[w] = "none"
        /\ CASE error = "none" -> there' = [there EXCEPT ![n] = "dir"] /\ Goes(w) /\ UNCHANGED looking
             [] error = "ENOENT" ->
                    /\ walk' = [walk EXCEPT ![w] = Waiting(w) \o <<n, n - 1>>]
                    /\ UNCHANGED <<there, looking, ended>>
             [] error \in {"EACCES", "ENOTDIR"} -> WalkEnds(w, error, n) /\ UNCHANGED <<there, walk, looking>>
             [] OTHER -> looking' = [looking EXCEPT ![w] = error] /\ UNCHANGED <<there, walk, ended>>
        /\ UNCHANGED denied

\* The stat: a directory will do, on the way for its turn and otherwise for the
\* whole walk; anything else on the way is ENOTDIR; at the end it is EEXIST, or
\* the error of the stat itself, as for a broken link.
Look(w) ==
    LET n == Current(w)
        intermediate == looking[w] = "EEXIST" /\ Waiting(w) # <<>>
    IN  /\ ended[w].error = "no" /\ looking[w] # "none"
        /\ looking' = [looking EXCEPT ![w] = "none"]
        /\ CASE there[n] = "dir" /\ intermediate -> Goes(w)
             [] there[n] = "dir" -> WalkEnds(w, "done", 0) /\ UNCHANGED walk
             [] intermediate -> WalkEnds(w, "ENOTDIR", n) /\ UNCHANGED walk
             [] there[n] = "file" -> WalkEnds(w, "EEXIST", n) /\ UNCHANGED walk
             [] OTHER -> WalkEnds(w, IF there[n] = "broken" THEN "ENOENT" ELSE looking[w], n)
                         /\ UNCHANGED walk
        /\ UNCHANGED <<there, denied>>

WalkNext == \E w \in Walkers : Make(w) \/ Look(w)

WalkTypeOK ==
    /\ there \in [1..Depth -> {"none", "dir", "file", "broken"}]
    /\ \A w \in Walkers : ended[w].error = "no" => walk[w] # <<>> /\ Current(w) \in 1..Depth

\* A walk that succeeds leaves the whole path made of directories; one that
\* fails names the component that is in the way, which is no directory: another
\* walker's half-made path makes nobody fail.
PathMade ==
    \A w \in Walkers :
        /\ ended[w].error = "done" => \A n \in 1..Depth : there[n] = "dir"
        /\ ended[w].error \notin {"no", "done"} =>
               \E n \in 1..Depth :
                   /\ denied[n] # "none" \/ there[n] \in {"file", "broken"}
                   /\ there[n] # "dir" /\ ended[w].path \in {n, n + 1}

-----------------------------------------------------------------------------
(* The port of Node's path.win32.resolve and resolve_local_path(), which    *)
(* chooses it, as operators.  A path is what _win32_root() makes of it: its *)
(* device (NoDevice for none), whether it is absolute, and its segments.    *)

NoDevice == "none"
Up == ".."
Here == "."

\* _win32_root(): device, absolute, and the segments behind the root.
Path(device, absolute, segments) == [device |-> device, absolute |-> absolute, segments |-> segments]
Empty(p) == p = Path(NoDevice, FALSE, <<>>)

\* _node_normalize_string(): `.' dropped, `..' folded, and kept at the front
\* only when that may be above the root.
node_normalize_string(segments, allowAboveRoot) ==
    FoldLeft(LAMBDA res, s :
                 CASE s = Here -> res
                   [] s = Up /\ res # <<>> /\ Last(res) # Up -> Front(res)
                   [] s = Up /\ (res = <<>> \/ Last(res) = Up) ->
                          IF allowAboveRoot THEN Append(res, Up) ELSE res
                   [] OTHER -> Append(res, s),
             <<>>, segments)

\* _select_drive_base(): the inherited entry of the drive, else the process
\* directory; the root of the drive when that is absolute on another device.
select_drive_base(device, inherited, processCwd) ==
    LET path == IF Empty(inherited[device]) THEN processCwd ELSE inherited[device]
    IN  IF path.device # device /\ path.absolute THEN Path(device, TRUE, <<>>) ELSE path

\* One argument of node_win32_resolve(), from the right: skipped on another
\* device than the one found, and when nothing is left to find.
Prepend(state, path) ==
    CASE state.done \/ Empty(path) -> state
      [] ~state.done /\ path.device # NoDevice /\ state.device # NoDevice /\ path.device # state.device -> state
      [] OTHER ->
             LET device == IF state.device = NoDevice THEN path.device ELSE state.device
                 absolute == state.absolute \/ path.absolute
             IN  [device |-> device,
                  tail |-> IF state.absolute THEN state.tail ELSE path.segments \o state.tail,
                  absolute |-> absolute,
                  done |-> absolute /\ device # NoDevice]

\* node_win32_resolve()
node_win32_resolve(paths, inherited, processCwd) ==
    LET start == [device |-> NoDevice, tail |-> <<>>, absolute |-> FALSE, done |-> FALSE]
        given == FoldRight(LAMBDA path, state : Prepend(state, path), paths, start)
        base == IF given.device = NoDevice THEN processCwd
                ELSE select_drive_base(given.device, inherited, processCwd)
        all == Prepend(given, base)
    IN  Path(all.device, all.absolute, node_normalize_string(all.tail, ~all.absolute))

\* _is_other_drive_relative()
is_other_drive_relative(dir, path, drives) ==
    path.device \in drives /\ ~path.absolute /\ dir.device # path.device

\* _resolve_local_path() on Windows, for a path that is no home or URL: Node's
\* own rule for a path of another drive and for a rooted one, otherwise the
\* absolute path itself or the path below the provider's directory.
resolve_local_path(dir, path, drives, inherited, processCwd) ==
    CASE is_other_drive_relative(dir, path, drives) ->
             node_win32_resolve(<<dir, path>>, inherited, processCwd)
      [] path.absolute -> node_win32_resolve(<<path>>, inherited, processCwd)
      [] OTHER -> Path(dir.device, TRUE, node_normalize_string(dir.segments \o path.segments, FALSE))

-----------------------------------------------------------------------------
(* Reference: a shell that changes directory, one argument after the other, *)
(* with a current drive and a current directory on each drive.              *)

Walk(dir, segments) ==
    FoldLeft(LAMBDA at, s : CASE s = Here -> at
                              [] s = Up -> IF at = <<>> THEN at ELSE Front(at)
                              [] OTHER -> Append(at, s),
             dir, segments)

ChangeDir(shell, path) ==
    LET drive == IF path.device = NoDevice THEN shell.drive ELSE path.device
    IN  [drive |-> drive,
         at |-> [shell.at EXCEPT ![drive] = Walk(IF path.absolute THEN <<>> ELSE @, path.segments)]]

Shell(drives, inherited, processCwd) ==
    [drive |-> processCwd.device,
     at |-> [d \in drives |->
                 CASE ~Empty(inherited[d]) -> Walk(<<>>, inherited[d].segments)
                   [] Empty(inherited[d]) /\ processCwd.device = d -> Walk(<<>>, processCwd.segments)
                   [] OTHER -> <<>>]]

\* Paths resolve to where a shell would be after changing directory to one
\* after the other: drives keep their own directories, a rooted path stays on
\* the drive it is on, and nothing climbs above a root.  (What the shell shows
\* is that the arguments may be read from the right.)
ResolvesLikeCd(paths, drives, inherited, processCwd) ==
    LET shell == FoldLeft(ChangeDir, Shell(drives, inherited, processCwd), paths)
    IN  node_win32_resolve(paths, inherited, processCwd) =
            Path(shell.drive, TRUE, shell.at[shell.drive])

\* A name stands for one place: however it is spelled, a path resolves to the
\* same text as the text it resolves to.
ResolveIsStable(dir, path, drives, inherited, processCwd) ==
    LET once == resolve_local_path(dir, path, drives, inherited, processCwd)
    IN  /\ once.absolute /\ once.device \in drives
        /\ resolve_local_path(dir, once, drives, inherited, processCwd) = once

=============================================================================
