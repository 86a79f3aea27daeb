# minion-agent in TLA+

A verification development of the Python implementation of minion-agent
(`src/minion-agent-python/src/minion_agent/`; paths below are relative to that
directory unless they begin with `src/`). minion-agent is a runtime for LLM
agents: a plugin kernel, an append-only session log, an LLM service with
pluggable adapters, tools, an execution layer, authentication, and the driver
that turns input into runs. It is asyncio code: one thread, many tasks, which
switch only at an `await`. Almost everything hard in it is about what may happen
at those awaits, so in these modules **one action is the code from one await to
the next**, and the variable usually called `pc`, `stage`, `at` or `task` names
the await at which a task is suspended.

TLC checks twelve configurations (eight that pass, four that show disagreements
between the code and its documentation) and TLAPS proves the thirty-seven theorems
listed under [proofs](#proofs), about the driver and its input, the tool batch,
the LLM service, the mutation queue and the tools in it, the credential store,
logins and outbound requests, commands and searches, plugin fibers and scope
trees. Eight invariants, one action property and liveness stay with TLC, for
reasons given there. `PROJECT.json` holds the lists: components, runs, the lines
each definition stands for, a mutant for every property, hazards, findings and
theorems.

Contents: [inventory](#inventory), [modules](#modules), [runs](#runs),
[bounds](#bounds), [fairness](#fairness), [proofs](#proofs),
[disagreements](#disagreements), [what is not modelled](#what-is-not-modelled),
[plan](#plan).

## Inventory

| Component | State it keeps | Operations | What is hard |
|---|---|---|---|
| **Agent loop driver** `agent_loop/driver.py`, **instance** `agent/instance.py` | status, run signal, streaming message, pending tool calls; the locals of a run | `prompt`, `continue_`, `run_until_idle`, `abort`, `reset` | two entry points at once; an exception, a cancellation or an abort at any of some twenty awaits; recovery that calls the listeners which just failed |
| **Inbox** `agent/inbox.py`, `envelope.py` | two queues and a wake flag | `send` and its aliases, `claim`, `reserve` with `commit`/`rollback`, `clear` | a rollback after somebody else used the queue |
| **Tool batch** `tools/batch.py`, `execute.py` | stage of every call, completion order | sequential, parallel and truncated batches | preflight barrier, concurrent completion, updates dispatched by tasks of their own, siblings of a failing call |
| **LLM service** `llm/service.py`, `stream.py` | the adapter of each model | register, withdraw, stream | shadowed and duplicate registrations; a stream that stops halfway |
| **Plugin fibers** `runtime/fiber.py`, `disposable.py` | state machine and effect list of one plugin | `load`, `unload`, `dispose`, `effect` | overlapping calls on one fiber, raising disposers, cancellation during unwinding |
| **Plugin runtime** `runtime/registry.py`, `service.py`, `context.py` | mounted fibers, services by name | mount, unmount, provide, revoke, reconcile | reconcile passes nested in the disposers of other passes |
| **Scope tree** `runtime/scope.py`, `context.py` | scopes by key, their registrations | mint, register, dispose a scope and its descendants | concurrent disposals, minting meanwhile |
| **Mutation queue** `tools/builtin/mutation_queue.py` | one chain of tails per file, one chain of registrations | `with_mutation_queue` | cancelled waits |
| **Credential store, refresh** `auth/store.py`, `refresh.py` | credential and chain of tasks per provider | read, modify, delete, refresh | double-checked refresh, abort against start, cancellation of a queued task |
| **OAuth logins** `auth/openai_codex_oauth.py`, `device_code.py` | callback server, futures, watcher, prompt; deadline and interval | `login`, by browser or device code | two sources of one code, shutdown of the server, poll intervals at the deadline |
| **Shell** `execution/shell.py`, `subprocess.py` | the outcome slot of one process, pumps, watcher | `exec`, `cleanup` | timeout, abort, cleanup and exit race for the outcome; descendants that keep the pipes |
| **Bash tool** `tools/builtin/bash.py`, `bash_output.py` | pumps, writer queue, file, timer; decoder and rolling tail | one tool call; append, finish, snapshot | the file comes into being in the middle of the output; chunk boundaries |
| **Session log** `session/log.py`, `operations.py`, `derive.py` | append-only events, ancestor and boundary of a fork | append, fork, reset, compact, derive | their sequences; slice arithmetic |
| **Lifecycle projection** `agent/projection.py` | none (a fold over the log) | `project` | must agree with what was dispatched live, failures included |
| **Event bus** `runtime/events.py` | listeners by event, in order | `on`, disposal, dispatch in four modes | listeners that come and go during a dispatch, shared payloads, results handed on |
| **Scoped registries, agent registry** `runtime/scoped_registry.py`, `tools/registry.py`, `agent/registry.py` | entries by scope key; instances, scopes and logs by id | create, dispose, register, withdraw, resolve | an id used again while its former scope unwinds |
| **File tools** `tools/builtin/edit.py`, `write.py`, `read.py`, `edit_diff.py` | none of their own: the file, the queue | one tool call | read-modify-write across awaits, threads that outlive their call, paging, several edits of one text |
| **File system** `execution/filesystem.py` | none of its own: the disk | some twenty operations | abort against a thread that cannot be stopped; walks over a tree that changes |
| **Search tools** `tools/builtin/find.py`, `grep.py`, `_search.py`, `search_engines.py` | an engine process, its pumps, the abort window; the store of engines | one tool call; provisioning | abort against completion, a limit that kills the engine; crashes while installing |
| **Skills** `skills/discovery.py`, `_ignore.py` | the rules and answers of the matcher during a walk | `load_skills`, `add_valid`, `ignores` | cycles of links, ignore rules that accumulate, answers remembered from before them |
| **Message transformation** `llm/transform_messages.py`, **codec** `session/derive.py` | none (functions) | `transform_messages`, encode, decode | calls without results, rewritten ids, fields that are set to something false |
| **HTTP transport** `auth/http_transport.py` | a client, a response, two tasks | `post`, `text`, `discard` | cancellation and abort while anything is being closed |
| System prompt, telemetry, interaction protocol, image and listing tools | little or none | see `PROJECT.json` | text processing |

How they interact. A caller sends input to the inbox and calls the driver. The
driver claims input, appends it to the session log, derives the history from
the log, awaits a stream of the LLM service and then a batch of tool calls,
polls the inbox for steering, and so on until it is idle; at every stage it
dispatches lifecycle events to listeners, which may raise. Tools run commands
through the shell or the bash tool and change files under the mutation queue.
Adapters, tools and listeners are registered by plugins, whose fibers own the
registrations and undo them when a service they need goes away; an agent
instance lives in a scope, whose disposal undoes what was registered in it.
Adapters get credentials from the store, which logins fill.

What makes each part correct:

* driver: one run at a time; what an instance shows of a run is never left over
  from an earlier one; a call that returns leaves the log's brackets closed; no
  input is lost, duplicated or reordered; aborted and failed runs end;
* tool batch: nothing executes before everything is prepared; every call gets a
  result; no update follows its end event; nothing starts after an abort;
* LLM service: the latest live registration supplies a model; every stream has
  exactly one terminal chunk and loses no partial answer;
* runtime: a plugin is loaded exactly if what it injects is there; effects are
  undone once, in reverse, all of them; disposed is final; a scope goes down
  from its leaves;
* mutation queue and credential store: isolation, first come first served, no
  residue, every caller answered truthfully;
* logins: the right code, nothing left running, polite polling, an end;
* commands: one classification, first come first served; all output, once; no
  process, task or file left behind; timeouts really end the call;
* log: writes stay private to a fork; history is a subsequence of what was
  appended, in order and without repetition; projected events are live events;
  a message is read back as it was stored;
* requests: every tool call that is sent has its answer, nothing is sent that
  the target cannot read, and a longer history extends the request;
* event bus: a dispatch calls those registered and admitted when it began, and
  nobody is handed what another listener spoilt;
* agents: an id names its latest live instance; an agent resolves its own tools
  first and no withdrawn ones;
* files: what a tool reports done is in the file; an operation aborted before it
  started touches nothing; removal removes all it can and reports truthfully;
  pages are seamless and edits exact;
* skills: all that no rule hides are found, once per path, and failures reported.

## Modules

### The driver: `Inbox`, `AgentLoop`, `BatchContract`

`Inbox` is `agent/inbox.py`: `queue[target]`, `wake`, and `sent`, which numbers
envelopes in the order they were sent. Its actions are conjoined by `AgentLoop`.

`AgentLoop` is the driver over one instance. `Callers` are tasks that call
`prompt()`, `continue_()` and `run_until_idle()` on the same driver; `pc[c]` is
the await a caller is in, `run[c]` its locals, `hand[c]` the input it claimed and
has not admitted, `resv[c]` its open reservation. Every action of a run has a
failing and a cancelled sibling, since listeners and the provider may raise and
tasks may be cancelled at every await; a failure goes to the recovery of
`_run_wrapped`, which itself awaits listeners and may raise. Listeners of
`agent/pre-step` may reject the claimed input, leave messages of it out or have a
message of their own instead (`PreStepSubstitutes`); admitting it in another
order, or twice, is left out. The `finally` clause clears the visible state and
notifies observers of the status. Of the log the model keeps only what is read:
the admitted input, the role of the last message, whether the run and turn
brackets are closed, and the end reason. The content of messages, request assembly
and usage are abstracted away.

While a turn awaits its tools, `AgentLoop` takes the steps of `BatchContract`:
calls start and end in any order, an aborted batch starts no further call, a
batch returns only when none is pending, and a batch that raises may leave
`detached` calls, which still end and then touch `pending_tool_calls`.

### A step of the driver: `ToolBatch`, `LlmService`

`ToolBatch` is the detailed batch: preflight (lookup, validation, the
`tools/pre-execute` waterfall), execution, update dispatches and their join,
the `tools/post-execute` waterfall and the end event, for each of the calls
1..N, in the three modes of `tools/batch.py`. It is shown to implement
`BatchContract` (`ImplementsContract`), so what `AgentLoop` assumes about a
batch is what the batch code does.

`LlmService` models `register()`, the handle it returns, routing at the time of
the request, and `_settled()`, the wrapper that gives every stream a terminal
chunk. Two registrations of the same adapter object are told apart, as the code
tells them apart by a token.

### The plugin runtime: `Fiber`, `PluginRuntime`, `ScopeTree`

`Fiber` is one fiber with its `DisposableList`s: `lists[g]` is the g-th list,
`current` the one the fiber refers to, `task[t]` the body or the unwinding a
task is in. `PluginRuntime` takes several fibers with one operation each at a
time and models `reconcile()` with its passes: `stack[t]` is the call stack of a
task, since revoking a service in a disposer reconciles again before the
disposer returns. `ScopeTree` models `Scope.dispose()` with its recursion as a
stack of frames and the snapshot of the children each frame took, with `order`,
the order of keys in the dictionary, for the order in which they go.

### Events and agents: `EventBus`, `AgentRegistry`

`EventBus` is one event in its declared mode: `listeners` in calling order,
`dispatch[d]` the snapshot a dispatch took and how far it has come, `seen[d]`
(auxiliary) what every listener was given. For the waterfall mode the argument is
the result chain of `_finalize()` in `tools/execute.py`, whose identity no
listener may change. `AgentRegistry` has the instances by id, their logs, and
the tool registry: `entries` are the buckets of `ScopedRegistry` by key,
`tool[r]` the bucket index a handle remembers, `owned[i]` the disposables of an
instance's scope, unwound one at a time. A key is made of definition and id, so
an instance that takes a former id has the former key. A handle still withdraws
its entry while the scope unwinds, until the list is cleared at its end
(`disposable.py:65`).

### Queues: `MutationQueue`, `CredentialStore`

`MutationQueue` follows a call through the registration chain, the resolution
of its path to a scope, the wait for the entry that was the tail, and its
function; `ticket` (auxiliary) numbers entries in the order of entering.
`CredentialStore` has one task per call in `pc`, the tail task that swallows its
outcome in `tail`, and what the caller was told in `caller`. `spent` records
which refresh tokens were used.

### Files: `FileTools`, `FileOps`, `RemoveTree`, `ReadTool`, `EditDiff`, `SkillDiscovery`, `IgnoreRules`

`FileTools` extends `MutationQueue`: the function a call queues is now the body of
`edit` or `write`, from check to check. Content is whose write it was and which
edits are in it. A write is two steps of a thread (the file is cut, then filled),
which go on after their task was cancelled. `FileOps` is one operation of
`LocalFileSystem`: each is a record that says which of the common stages it has,
after the code of each method; its second part is the walk of `_node_mkdirp()` by
several threads. `RemoveTree` is that of `_remove_sync()` and `_rimraf()`, one
native call per step with somebody else changing the tree in between and the host
refusing what `fault` says, on POSIX and on Windows. `ReadTool` follows the
notices of the read tool from page to page and models its race with the signal.
`EditDiff` and the last part of `FileOps` are operators: the matching and
application of edits, and the port of Node's `path.win32.resolve`; each is
compared with a definition that says what the result is, not how it is found. The
last part of `EditDiff` is the search of `diff_tokens()` for the script from one
text to another, a diagonal per step, with the hunks and the numbered listing made
of the script; a shortest script is known from the longest common subsequence.
`SkillDiscovery` is the walk of `load_skills()` over a graph of directories, some
of them refused and some with ignore files that cannot be read, `IgnoreRules` the
matcher it shares between directories, with the cache that rules added later must
empty.

### Logins: `OAuthLogin`, `DevicePoll`, `Auth`, `HttpTransport`

`OAuthLogin` is the browser flow: `main` is the coroutine, `conn[k]` the k-th
connection to the callback server, `future` the code or error the server
settled, `watcher` the task that polls the signal, `manual` the pasted code.
`DevicePoll` measures time in ticks, of which `Milli` make a millisecond, so
that rounding to milliseconds can be seen. `Auth` puts the flows together, the
browser flow handing over when the user chooses so, and beside them, for model
checking, the credential store and an outbound request. `HttpTransport` is one
request as `post()` and the response's `text()` and `discard()` make it: the
tasks that send and read, who owns the client, the order in which response and
client are closed, and what is reported.

### Commands: `ShellExec`, `BashTool`, `BashOutput`, `SearchTool`, `EngineStore`

`ShellExec` is one `exec()`: the process and a descendant that may inherit its
pipes, two pumps, the timer, the abort watcher, `cleanup()`, the outcome slot that
the first claim fills, and the idle grace after the exit. `BashTool` is one call
of the bash tool: chunks are numbered, `accepted` counts those taken, `backlog`,
`queue`, `writing` and `content` say where each of them is. The subprocess
provider's watcher of the abort signal sees it in one step and kills in another,
from a task of its own, so the process may end between. `BashOutput` is
sequential: bytes from a four-letter alphabet that has newlines, multi-byte
characters, invalid bytes and a byte-order mark, decoded chunk by chunk, and
compared with definitions over the whole output (`CountsExact`, `SnapshotExact`).
It is an object of texts rather than of tasks, and is checked with the other texts
by `MCFiles`. `SearchTool` is one call of `find` or `grep`: the call, its work (a
task of its own for `find`, which an aborted call leaves behind), the engine, the
pumps, the watcher and the stop request; `when` (auxiliary) records at which side
of the abort window the signal fired. `EngineStore` is provisioning: several
processes, each failing or crashing at any step, over the files of the store.

### History: `SessionLog`, `Projection`, `SessionCodec`, `TransformMessages`

`SessionLog` abstracts a message to the place it was logged at, which is what the
derivation must keep apart. `Projection` has the driver write the log and dispatch
events (`live`), with an exception or a cancellation at any await, and folds
`project()` over the log. Run events carry causes and reason: an entry of the log
names the run, since what it holds is the driver's own list of causes, which
follow-ups extend. Tool calls start one after another and end as the mode of the
batch lets them, ordered by when the dispatch of each end is over. `SessionCodec`
writes and reads messages as the code does, field by field with the optional ones,
including the key order of argument objects. `TransformMessages` translates
`transform_messages()` pass by pass: images, foreign thinking and signatures, tool
call ids, orphaned calls. It is a library function: as its own header says, no
production request path calls it yet (`transform_messages.py:15`), so what is
checked is what it would have sent.

### Model-checking modules

`AgentLoop` and `CredentialStore` are checked as they are. `MCStep`, `MCFiles`,
`MCRuntime`, `MCCommands`, `MCHistory` and `Auth` each gather the modules of one
layer that share no state: `part` is chosen in the initial state, and a behaviour
moves only the module it names, while the others stay at rest in a state they can
be in; `MCStep` holds a small driver too, whose liveness is checked there without
the symmetry that the larger one of `agent_loop` has. The state space is the disjoint union of the parts, not their product, and
the runs stay one per layer. `MCRuntime` also instantiates the same module with
different callers, the ones a promise is made to and worse ones. Parts without
state (`EditDiff`, the path resolution of `FileOps`, `SessionCodec`) take every
input of a small set as an initial state; histories for `TransformMessages` grow
by a message per step, so that a request can be compared with the one before.
Properties of a layer are conjunctions of the parts' properties, named after what
the layer promises; the parts' properties are in the parts' modules.

## Runs

Every run is listed with its properties; a mutant of the code for each property
is in `PROJECT.json`, and TLC finds the property violated when the mutant takes
the place of the code.

| Run | Module, configuration | What it checks |
|---|---|---|
| `agent_loop` | `AgentLoop`, `AgentLoop.cfg` | `TypeOK`; `RunExclusive`: one caller in a run, status and signal agree with it; `VisibleStateOwned`: streaming message and pending calls exist only during the awaits they describe; `ReturnedRunClosed`: a call that returns leaves its brackets closed; `InputInOrder`, `InputKept`: no envelope is lost, doubled or overtaken (a refused `run_until_idle()` excepted, see below; what a listener leaves out counts as discarded) |
| `step` | `MCStep`, `Step.cfg` | `BatchOrdered`: the preflight barrier, the results of a returned batch, ends after updates; `AbortFreezes`; `BatchSettles`; `ImplementsContract`: the batch refines `BatchContract`; `LlmServes`: routing to the latest registration, and streams that end once and lose nothing; `RunSettles`: in a driver with one caller an aborted run ends (`AbortSettles`), and a failed run gives the instance back, although its recovery may fail too (`FailureSettles`) |
| `files` | `MCFiles`, `Files.cfg` | `TypeOK`, `OneMutationAtATime`, `FirstInFirstOut`, `QueueDropped` (no table entry without a live call), `RegistrationInOrder` of the queue; `EditsKept`: no edit reported done is lost; `ProviderHonest`: an operation aborted first touches nothing and answers truthfully, a directory path is made or refused for what is in its way, a removal that succeeds leaves nothing, one that fails only what could not go, and reports the first failure; `SkillsFound`: all skills that nothing hides, and a matcher of rules that never answers from before a rule came; `TextsExact`: seamless pages, aborts decided by order, exact edits, shortest diffs whose patch applies and whose line numbers are right, paths resolved as `cd` would, counters and snapshots of command output that do not depend on its chunks; `CallsSettle`: queued calls, removals, walks and the search for a diff end |
| `credential_store` | `CredentialStore`, `CredentialStore.cfg` | `RefreshIsolated`: the credential a callback was given is still the stored one when it commits, and no token is rotated twice; `ToldAbortedNeverCommits`; `ChainPruned` |
| `auth` | `Auth`, `Auth.cfg` | `AuthSafe`: the right code is exchanged, nothing is left of a login, a request that is over has released its tasks, response and client, and reports what happened; `PolitePolls`: intervals are kept, and an abort stops polling; `AuthEnds`: logins, calls of the store and aborted requests end |
| `commands` | `MCCommands`, `Commands.cfg` | `ReportedOnce`: the first claim on the outcome wins and is not revised, an abort counts for a search exactly inside its window; `OutputKept`: nothing lost or repeated on the way to the caller and to the file, results of a search are whole; `NothingLeftBehind`: of a bash call, a search, and a provisioning that fails or crashes; `TimeoutEnds` |
| `runtime` | `MCRuntime`, `Runtime.cfg` | `Consistent`: at rest a plugin is active exactly if what it injects is visible, reconciling gives up only for cycles, a name belongs to a live fiber that will revoke it; `EffectsUndone`: of fibers and scopes, once and in reverse, leaves first; `DispatchFaithful`: a dispatch calls its audience and guards what it hands on; `AgentsOwnTheirTools`; `DisposedIsFinal`: a fiber that one task drives stays disposed, nothing begins on a disposed one that two tasks drive, a scope takes no registration once it was notified |
| `history` | `MCHistory`, `History.cfg` | `HistoryReadBack`: no message derived twice or out of order; the projected events of runs in which nothing raised are the dispatched ones, with their messages, results, causes and reasons, but for the three differences named [below](#disagreements), and the run and turn brackets are so also when anything raises; `HistorySteps`: what appends, forks, resets and compactions do to every history; `WireFaithful`: in what `transform_messages()` returns every call is answered, nothing is foreign, a request extends the one before, transforming twice changes nothing; and stored messages are read back |
| `agent_loop_pump_active` | `AgentLoop`, `AgentLoop_pump_active.cfg` | violated: `InputConserved` |
| `fiber_disposed_reused` | `Fiber`, `Fiber_disposed_reused.cfg` | violated: `DisposedIsTerminal` |
| `session_keep` | `SessionLog`, `SessionLog_keep.cfg` | violated: `CompactKeepsLast` |
| `projection_failed_stream` | `Projection`, `Projection_failed_stream.cfg` | violated: `ProjectsFailure` |

`CHECK_DEADLOCK FALSE` stands where the system may stop for good: the calls of
the instance have all been answered, the login is over, the bounds are used up.
The driver is never at rest for lack of something to do (input may be sent,
cleared, steered), so its own runs check deadlock.

## Bounds

* *Driver.* Two callers are needed for every race of entry, refusal and
  rollback; a third is refused like the second. Two envelopes show order within
  a queue and a rollback in front of a later send. Two tool calls let one be
  detached while the other runs. Callers and calls are symmetric. Turn counters
  are not bounded, since the model keeps none.
* *Step.* Three calls: one done, one under way, one not begun. One update per
  updating call shows the join. Two adapters that share a model and
  three registrations: one that shadows, one that is made again; streams of up to
  two chunks. The driver whose liveness is checked has one caller, one envelope and
  two tool calls: a run waits for nobody else's.
* *Files.* Four calls of the queue on two files: a cancelled waiter between two
  others on one file, and a call on another. Two edits and a write of one file,
  one edit through a symbolic link; with a file that does not exist yet, the two
  that name it directly; one signal fires. A tree of four names, two levels deep,
  with a fault at one name and perhaps a refusal at the deepest, and one change
  from outside. Three components made by two threads. Files of up to four lines of
  0, 1, 2 or 4 bytes against ceilings of two lines and three bytes and limits from
  0 to 3, so that every ceiling ends some page and one line is too long. Texts of
  up to three characters with one or two edits of up to two. Diffs of texts of up
  to four lines of two kinds, with contexts of 0 and 1 lines, which gives one hunk
  or two. Paths of up to two segments on two drives. Skills: a graph with a cycle,
  paths of up to three names, two roots, at most one skill that cannot be loaded;
  three rules of four shapes, negated or not, and paths up to three names deep.
  Command output of up to six bytes in chunks of up to two against limits of three
  bytes and two lines.
* *Events and agents.* Three listeners, untagged and in two nested scopes, and
  one dispatch in each of the four modes: dispatches share only the listeners,
  which change freely meanwhile. One id and three instances of it, so that the id
  is used again while two scopes unwind; four registrations.
* *Credential store.* Three operations, so that one can be cancelled between a
  running and a waiting one; two in `auth`, where liveness is checked.
* *Logins.* Two connections to the callback server (one that settles, one that
  comes late); ticks of half a millisecond; intervals below, near and above the
  minimum and expiries below a millisecond, so that every clamp takes effect;
  two `slow_down` answers.
* *Commands.* Two unread chunks per stream, one descendant, four chunks of tool
  output with a limit of one chunk, so that the file is created before, in the
  middle of and after them. Engines that write up to three
  lines, with a limit of two matches; two installers of two engines.
* *Runtime.* Three plugins, in a chain of dependencies or with two of them in
  conflict for a name; two tasks. The registry's limit of passes (`MaxPasses`) is
  8 where no reconcile should meet it and 3 where it should. Four effects over
  four lists, or two of each under contention; scope trees of three keys, deep and
  wide, with up to four scopes minted.
* *History.* Three logs (a fork of a fork), six events in all, keeps of up to
  three. Two runs, up to two turns, three tool calls per reply and two causes per
  run; with exceptions, two runs of one turn or one of two, and two calls. At most
  five messages: a reply with three results, or two replies with a call each. Two
  chunks, so that a start may follow another chunk. Histories of up
  to four messages from eleven that hold every kind of block, of the target's
  model and of another (a reply, its result, an interruption and a further
  reply), under two targets and two normalizers of ids; every stored message
  with up to two blocks and every optional field unset, set and set to something
  false.

## Fairness

Weak fairness stands for four things the platform provides: the event loop runs
a task that is ready, timers expire, the operating system reports an exit and
end of file, and a peer that has been sent a request answers or the connection
fails. The tools, hooks and listeners of the application are assumed to return
or raise (`AgentLoop`, `ToolBatch`), as the driver awaits them without a limit.
Not assumed: that commands end (`TimeoutEnds` is about the ones that do not),
that anybody calls an entry point, aborts, cancels or sends input, that a user
answers a prompt whose signal has not fired, or that a provider ends its
stream — with one exception: `AbortSettles` needs a provider that ends a stream
whose signal is aborted (`HonoursAbort`, and strong fairness of `StreamEnds`,
because chunks may keep arriving until then; it is the first half of
`RunSettles`). That is what the adapter contract
in `llm/service.py` asks for; without it the driver does wait for ever.
`AuthEnds` needs clients that connect to the callback server to send a request
(`Idle = FALSE`); see below for those that do not. A peer that does not answer
an outbound request is covered by the abort, so `HttpTransport` assumes only that
the loop polls the signal; `SearchTool` likewise assumes nothing about how long
an engine runs, only that one that was killed is reported. In `MCFiles` threads
that make native calls return, and nobody changes a tree for ever (one change).

## Proofs

TLAPS proves these for every value of the constants, with no bound on callers,
envelopes, calls, files, operations, connections, output, installers or steps. The
assumptions are the named ones of the modules (bounds are naturals, flags are
Boolean, the two policies are the ones that exist, `None` is no call and no
credential, the minimum interval and the increment of the device flow are whole
milliseconds, a tool call is an edit or a write and its path is spelled in a way
that has a queue); TLC evaluates each of them in the runs. `MCRuntime` fixes the
constants of its fibers and scopes, so its two theorems are about those instances;
the theorems of `LifetimeProofs` are about any tasks, keys and bounds.

| Module | Theorem | Statement |
|---|---|---|
| `AgentLoopProofs` | `TypeCorrect` | `Spec => []TypeOK` |
| | `OneRunAtATime` | `Spec => []RunExclusive` |
| | `NoStaleVisibleState` | `Spec => []VisibleStateOwned` |
| | `ReturnsClosed` | `Spec => []ReturnedRunClosed` |
| | `InputEntersInOrder` | `Spec => []InputInOrder` |
| | `InputIsKept` | `Spec => InputKept` |
| | `InputIsConserved` | `PumpWhileActive = FALSE` gives `Spec => []InputConserved` |
| `StepProofs` | `BatchInOrder` | `Spec => []BatchOrdered` |
| | `AbortedBatchFrozen` | `Spec => AbortFreezes` |
| | `BatchMeetsContract` | `Spec => ImplementsContract` |
| | `ServesForEver` | `LlmSpec => []LlmServes` |
| `MutationQueueProofs` | `TypeCorrect` | `Spec => []TypeOK` |
| | `MutualExclusion` | `Spec => []OneMutationAtATime` |
| | `EntriesRunInOrder` | `Spec => []FirstInFirstOut` |
| | `TablePruned` | `Spec => []QueueDropped` |
| | `RegistrationsInOrder` | `Spec => []RegistrationInOrder` |
| | `ToolsUseQueue` | `ToolsSpec => Spec` |
| | `EditsAreKept` | `ToolsSpec => []EditsKept` |
| `CredentialStoreProofs` | `RefreshesAreIsolated` | `Spec => []RefreshIsolated` |
| | `AbortsAreTrue` | `Spec => []ToldAbortedNeverCommits` |
| | `ChainsArePruned` | `Spec => []ChainPruned` |
| `AuthProofs` | `AuthIsSafe` | `MCSpec => []AuthSafe` |
| | `PollsArePolite` | `MCSpec => PolitePolls` |
| `CommandsProofs` | `CommandsStaySafe` | `MCSpec => []CommandsSafe`, the inductive invariant |
| | `ReportsAreDecidedOnce` | `MCSpec => []ReportedOnce` |
| | `OutputIsKept` | `MCSpec => []OutputKept` |
| | `NothingIsLeft` | `MCSpec => []NothingLeftBehind` |
| `LifetimeProofs` | `TypeCorrect` | `Spec => []TypeOK` |
| | `DisposedForGood` | `Spec => [][ForGood]_vars` |
| | `RestIsSettled` | `Forest`, no raising disposers, nested mints give `Spec => []AllSettled` |
| | `DescendantsGoFirst` | the same and one task give `Spec => []DeepestFirst` |
| | `FibersUnwindInReverse` | for any fiber, its specification gives `[](TypeOK /\ ReverseOnce)` |
| | `FibersLeakNothing` | and, with one task never cancelled and no late effects, `[]NothingLeaks` |
| | `FibersStayDisposed` | and `[][StaysDisposed]_vars` |
| | `NothingBeginsOnDisposed` | for any number of tasks, `[][NothingBeginsDisposed]_vars` |
| `RuntimeProofs` | `EffectsAreUndone` | `MCSpec => []EffectsUndone` |
| | `DisposalIsFinal` | `MCSpec => DisposedIsFinal` |

None of the properties is inductive by itself. What each needs:

*Driver* (`AgentLoopProofs`; `InboxAssumption`, `AgentLoopAssumption`). The
invariant is `TypeOK /\ Support /\ Solo /\ RunExclusive /\ VisibleStateOwned`.
`Solo` says that at most one caller is anywhere but outside a call, the
notification that follows a run included: without it two callers could be about
to give the instance back. `Support` is what is true of a caller at each await
(`Local`): which reservations and input it may hold, and which brackets of the
log are closed by then, so that the raise, the recovery and the return that start
from there leave the log as promised. `ReturnedRunClosed` is the last clause of
`Local`. The first part of the module shows that every action preserves
`TypeOK`; the second that a step of the one active caller preserves the rest
for that caller (`Mine`), from which `IndInv` follows for all (`OwnStep`).

*Input* (the second half of `AgentLoopProofs`). For one target, what was admitted
comes before what a caller holds, and that before what is queued (`OrderInv`);
only the active caller holds anything, only until it is admitted, and before a run
has begun what it holds is the batch it reserved of one target (`HandInv`), so
that a rollback puts it back in front of its own queue. Every step of the driver
moves envelopes in one of nine ways (`Sends`, `Clears`, `Takes`, `Brings`,
`Returns`, `Discards`, `Admits`, `Loses`, or none), and the proof is by these
rather than by the forty actions. `InputIsKept` adds a ledger: order makes the
places of an envelope distinct, so that it is in one place exactly if it is
somewhere, and each move but `Loses`, which is a refused `run_until_idle()`, keeps
it somewhere or records it as discarded. What a listener of `agent/pre-step`
leaves out or replaces is a move of `Discards`, which keeps the order of the rest.
`InputIsConserved` makes a state invariant of that for callers that do not pump an
active instance, which `agent_loop_pump_active` shows to be needed: what is new is
that an envelope just sent is in its queue and was never discarded before.

*Tool batch* (`StepProofs`; `ToolBatchAssumption`). `PrefixInv`: the calls
that were started are a prefix of the batch. `CallInv`: what the stage of a call
says of its result, its updates and its flags. `LoopInv` and `PhaseInv`: in which
stages calls can be while the batch prepares, executes, returns or raises; this
is where the preflight barrier is. `CompletionInv`: the completion order lists
each call that is done once. The refinement `BatchMeetsContract` maps the
pending and the unstarted calls of `BatchContract` to sets of stages, and each
action of the batch to one step of the contract or to none; `AgentLoop` uses the
contract in place of a batch, so what is proved of the driver holds with the
real one. The theorem is about the safety part: `BatchContract` states no
fairness.

*LLM service* (the last part of `StepProofs`; `LlmAssumption`). Routing needs that
an entry names a registration there was; streams need `PartialInv`: what the
service has seen of a stream is the message of the last chunk the adapter sent,
from which the terminal chunk is made when the adapter stops halfway.

*Mutation queue* (`MutationQueueProofs`; `QueueAssumption`). The invariant says
what a chain of tails is: tickets number the entries (`TicketInv`), stages agree
with them (`StageInv`), the tail of a file is its latest unreleased entry
(`TailInv`), an entry waits for its immediate predecessor on the same file
(`ChainInv`), and entries of a file are released in order (`DoneInv`). So an
entry whose turn has come has only released entries before it, and no two of them
run on one file. A cancelled wait would break `DoneInv` if it released at once;
the deferred release (`mutation_queue.py:99-100`) is what keeps it. Registrations
form a second chain, in the order of the calls (`RegInv`): one that begins has
seen the one before it settle, by its entry or its failure, and with it all
before, as long as none between was given up while it waited (`NoneGivenUp`): a
failed registration had its turn, so it hands on what it saw, and one given up
had not.

*Edits and writes* (the last part of `MutationQueueProofs`;
`FileToolsAssumption`). Each step of a tool is a step of the queue or leaves it
alone (`ToolsUseQueue`), so the invariant of the queue is at hand: who works
on the file is alone there (`AloneAtWork`). `Kept` says of a call at work that it
has its turn, that an edit about to write has read what the file still holds, and
that the content is the log of the writes replayed. It is an invariant only
where `InTurn` holds, which once lost is never regained: a write whose task was
cancelled goes on outside its turn, and a file that is not there yet has a queue
per spelling. `EditsKept` says so in its premise. The run reaches the first; the
second it leaves out by a guard (`OneQueue` in `MCFiles`), the theorem does not.

*Credential store* (`CredentialStoreProofs`; `StoreAssumption`). Operations wait
in a line, each for the tail of the one before it (`LineInv`, `PrevInv`); stages
agree with caller, tail and signal (`StageInv`); tails that are over come first in
the line and at most the next task is under way (`FrontInv`), so no two run at
once. `ChainInv` says that the chain entry is the last
of the line until that one prunes it. `RotationInv` relates issued and spent
tokens to the store: the stored credential was issued and is not spent, and the
snapshot of the operation that runs is the stored one.

*Logins and requests* (`AuthProofs`; `LoginAssumption`). Flows, store and
request share only the signal, so each has its invariant. `BrowserInv`: a code is
used at most once, after the future was settled, and the prompt's only when the
callback brought none; from the announcement to the `finally` clause the server
listens or was never bound. `PauseInv`: a sleep that follows a poll lasts until
the interval has passed since that poll ended, or until less than a millisecond
is left before the deadline. It rests on lemmas about cutting to milliseconds,
and holds because every interval is a whole number of them: the code cuts what it
is given (`_floor_to_whole_milliseconds`) and adds whole seconds. `HttpInv`: a
task runs only while somebody waits for it, the client is closed by the last step
only, and what the fate of a request says of its tasks.

*Commands and searches* (`CommandsProofs`; `ExecAssumption`,
`CommandsAssumption`). The parts share no state, so `CommandsSafe` is one
invariant for each. `ShellSafe` is mostly what is checked: to it `ShellInv` adds
that an ended pump has read all there was and that `exec()` settles after the exit
was seen. In `ToolSafe` (a bash call) the file is what is hard. A chunk is
numbered, so that `Waits` says of the queue which chunks are in it with or without
the end marker behind them (`Marked`), and `Taken` how many have left it;
`FileHolds` then puts what was taken in a line: in the file, being written, kept
back until there is a file. `FileStands` says at which steps of the writer there
is a file, and that once the output is flushed there is one exactly if one was
needed. `SearchSafe` relates the abort window to the time of the abort: an abort
inside is either still to be seen there or was observed when it closed, and
everything decided is decided after that (`SearchAborts`); an engine that was
killed was killed for one of the two reasons there are (`SearchKills`).
`StoreSafe`: only a whole file is put in place, and an installer has reported just
the engines before its turn, which are there and which nobody takes away.

*Scopes* (the first part of `LifetimeProofs`). `Safe` holds of any tree and with
raising disposers: an effect keeps its place while it is held (`Filed`), no two
frames of `dispose()` are of one scope (`Once`), a frame is of a scope that is
disposed and not yet notified, and once its list is closed its children are done
with (`FrameSafe`). From it `ForGood`. `Nested` needs what the promise needs: that
no disposer raises and that scopes are minted below live ones. A disposed scope
then keeps its frame until it is notified (`Quiet`), and a live one is below a
live one or in the snapshot of the frame that is about to dispose of it
(`Upheld`), so nothing can be lost between the snapshot and the call. With nobody
disposing there are no frames, and every scope below a disposed one must itself be
notified: an induction along the ancestors, which `Forest` makes a matter of sets.
(`Forest` says that keys have parents and no cycles, as a `ScopeKey` is made after
its parent and keeps it; `DeepForest` and `WideForest` of `RuntimeProofs` prove it
of the run's trees.) `Settled` adds for one task what `DeepestFirst` needs; with
two, a `dispose()` that another task has under way returns at once, and the
ancestor is unwound beside it (see the disagreements).

*Fibers* (the second part of `LifetimeProofs`). `Undone`, for any number of tasks:
an effect is at the place it was filed (`Homes`), two tasks never unwind one list,
and what was released of a list stood behind what is still to go (`Unwindings`),
hence last in, first out (`Reversed`). `Owed` is what one task at a time adds:
held effects are all in the current list and not behind the point an unwinding has
reached, so that a fiber that comes to rest holds none. So `EffectsAreUndone`
claims freedom from leaks only for one task that is not cancelled. `StaysDisposed`
likewise is true of one task; of any number it is proved that an idle task begins
nothing on a disposed fiber, and that only a call under way can write over its
state (`NothingBeginsOnDisposed`), which it does (`fiber_disposed_reused`).

Only model-checked:

* Liveness (`RunSettles`, `BatchSettles`, `CallsSettle`, `AuthEnds`,
  `TimeoutEnds`), because fairness and ENABLED are out of the prover's reach.
* What operators that fold or recurse over data compute (`Derive`, `project()`,
  `transform_messages()`, the texts of `BashOutput` and `EditDiff`, paths, ignore
  rules), for which induction over their input is not available: `TextsExact`,
  `HistoryReadBack`, `HistorySteps`, `WireFaithful`, `SkillsFound`.
* `ProviderHonest`, which joins an operation and its aborts, a walk that makes
  directories and one that removes a tree somebody else changes; their inductive
  invariants are not worked out.
* `Consistent`. A nested `reconcile()` is bounded by a count of passes, and that the
  outermost pass ends with everything settled is an induction over the
  call stack and over that count at once.
* `DispatchFaithful` and `AgentsOwnTheirTools`: listeners and bucket entries are
  selected from sequences by a test (`SelectSeq`, `FlattenSeq`), which are recursive
  definitions, and the library has no theorem about what a selection keeps.

## Disagreements

Four differences between the code and what it says of itself have a run:

1. `run_until_idle()` during an active run (`agent_loop/driver.py:343`): it
   reserves a batch, `_run_wrapped` refuses to enter, and the refusal precedes
   the `try` that rolls reservations back. The input is gone.
2. `compact(keep=...)` with more than there is (`session/operations.py:49`): a
   negative slice start counts from the end, so entries are dropped.
3. A run that fails between the start and the end of a streamed reply
   (`agent/projection.py:370`): the projection takes the failure message for the
   end of the reply and suppresses its `message_start`.
4. A fiber disposed while another task awaits its `load()` (`runtime/fiber.py:163`):
   the load writes ACTIVE, PENDING or FAILED over DISPOSED, which is said to be
   terminal.

Others were met while modelling. The modules contain these behaviours (a flag
among the constants usually switches them), the properties are stated for the
callers and the circumstances in which the code keeps its promise, and the notes
of the hazards refer to this list:

* *Driver.* A steering message sent while no run is active sets the wake flag.
  `run_until_idle()` looks only at the next-turn queue, does nothing with the
  message and consumes the flag (`driver.py:352`).
* *Fiber.* Effects made while a failed load is unwound go to a list that is closed
  and are never undone (`fiber.py:150`); the handle of an effect indexes a list
  that `dispose_all()` has cleared and raises IndexError (`disposable.py:39`);
  cancelling a disposer is not an `Exception`, so the disposers behind it do not
  run although "every disposer runs" (`disposable.py:62`).
* *Plugin runtime.* A service provided after the body returned loads no fiber
  that waits for it (`context.py:174`); a raising disposer abandons the reconcile
  it happens in (`registry.py:61`); the limit of passes can be met without a
  cycle and is reported as one (`registry.py:56`).
* *Scope tree.* A raising disposer below keeps a scope from unwinding its own
  registrations (`scope.py:119`) and `on_disposed` from firing; a second
  `dispose()` returns while the first is under way (`scope.py:114`); descendants
  are found through live links, so an orphan below a missing level is passed
  over (`scope.py:73`); "creation order" is that of the keys, a scope minted
  again keeps the place of the first, and re-minting a live key drops the scope
  that had it (`scope.py:66`); a scope minted
  while its parent is disposing its children survives (`scope.py:118`).
* *Mutation queue.* A registration cancelled while it waits for the one before
  lets the next one overtake (`mutation_queue.py:83`).
* *File tools.* The key of a file that does not exist yet is its absolute path,
  so two spellings of it, one through a symbolic link, are queued apart
  (`mutation_queue.py:56`); an edit or write whose task is cancelled while its
  thread writes gives up its turn, and the thread writes beside the next call
  (`filesystem.py:748` passes no signal here and cannot stop a thread). With
  `limit=0` a page is empty and its notice names the line it began at
  (`read.py:163`).
* *Agents.* An instance that takes the id of one whose scope is still unwinding
  has an equal `ScopeKey` and sees the tools of the former until they are
  withdrawn (`agent/registry.py:67`).
* *Message transformation.* The map of rewritten ids is never cleared: a call of
  the target's own model that reuses the id of a foreign call keeps its id while
  its result is renamed (`transform_messages.py:224`). An id that a normalizer
  turns into "" leaves its result behind under the old id, as the comment there
  intends.
* *Search tools.* An abort before `grep` has started its engine is not seen until
  the watcher starts (`grep.py:183`, as its comment says); a binary is verified
  and then started by name, so it may be replaced in between.
* *HTTP transport.* A response that arrives in the tick in which its caller is
  cancelled stays open if the client was given (`http_transport.py:264` is not
  reached); with a client of its own the connection goes with it.
* *Credential store.* Cancelling a caller without a signal cancels the task it
  awaits and with it what that task was waiting for (`store.py:203`): the tail of
  the operation before it.
* *Logins.* Closing the callback server waits for a connection that never sends
  anything (`openai_codex_oauth.py:286`); when `notify()` raises the server stays
  bound (`:424`); a failing `drain()` after a code was accepted loses only the
  answer page (`:256`); the last poll before the deadline may come sooner than
  the minimum interval (`device_code.py:362`).
* *Shell.* An abort noticed after the process died and before its exit was
  observed is reported as the cause (`subprocess.py:371`); when `exec()` is
  cancelled its process leaves `_active`, so `cleanup()` no longer reaches it
  (`shell.py:278`), and its pumps and watchers are not cancelled
  (`shell.py:360`); a chatty descendant that left the process group keeps
  extending the grace period, timeout or not; `terminate()` addresses a process
  group by a number that may have been reused (`subprocess.py:453`).
* *Bash tool.* Awaiting the cancelled background tasks under
  `suppress(CancelledError)` can swallow the caller's own cancellation
  (`bash.py:398`). After a final newline `last_line_bytes` is 0, although the
  last line shown is the one before it (`bash_output.py:207`); an output whose
  last line is longer than the rolling tail and ends with a newline is shown as
  nothing (`:228`); the `truncatedBy` label of the tail can differ from that
  of the whole output.
* *Tool batch.* When a listener raises, the siblings of that call go on
  executing after the batch has raised (`batch.py:207`); their ends reach the
  instance during recovery or later.
* *Lifecycle projection.* The log keeps the driver's own list of causes
  (`log.py:87` copies the payload, not what it holds), which a follow-up extends
  (`driver.py:719`): an AgentStart is projected with the causes the run came to
  have, and was dispatched with those it had (`driver.py:571`;
  `tests/agent_loop/test_provenance.py` asks for the former). All tool calls of a
  reply are logged before the batch (`driver.py:1236`), so their starts are
  projected before any end, and also for a call that an abort kept from starting
  (`projection.py:373`). Tool execution updates are not in the log.
* *Session log.* A compaction retains from the whole surface, also from what an
  earlier compaction had superseded (`operations.py:48`).

## What is not modelled

Text and data: request assembly, usage accounting, front matter and the syntax of
ignore patterns (`skills/_frontmatter.py` and the translation of patterns in
`_ignore.py`: hand-written parsers, of which only the verdict matters to the
walk), collation, images, the text of JSON, formatting of results and prompts.
Services whose contract is not to affect control flow: telemetry. The interaction
protocol of logins (`auth/interaction.py`), which is a set of data definitions
that `OAuthLogin` uses. Platform detail: Windows process trees, shell discovery,
the table of system-call error classes, the native calls of `_libuv_win32.py`.
`check` predicates of services and contexts under a scope are left out of
`PluginRuntime`; tool execution updates, which the log does not hold, and the ends
of calls that outlive a batch that raised, out of `Projection`; ignore patterns
that the library refuses out of `SkillDiscovery` (`IgnoreRules` has patterns);
links from a spawned agent to its parent out of `AgentRegistry`. The scripts under
`src/minion-agent-python/scripts/` are test drivers. The Rust implementation
(`src/minion-agent-rust`) and the conformance data are a second implementation of
the same layers and are not modelled.

## Plan

Done, in the order of what rests on what: driver with inbox and batch contract,
batch and LLM service, mutation queue, credential store, runtime, commands,
logins, session log and projection; event bus and agents, file tools and file
system, skills, transformation and codec, search tools and transport; proofs
about the driver and its input, the batch, the LLM service, the mutation queue,
the credential store, logins and requests, edits and writes, commands and searches,
scopes and fibers. What would come next:

1. lemmas about selections from sequences, and with them `EventBus`
   (`DispatchFaithful`) and `AgentRegistry` (`AgentsOwnTheirTools`);
2. `RemoveTree`, and with it the part of `ProviderHonest` about removals;
3. the credentials and provider login registry, which now is only its users'
   view of it.
