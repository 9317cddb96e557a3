# A TLA+ model of NucleaMind

NucleaMind is an asyncio agent kernel: channels bring messages in, the kernel
serialises them per session, drives a model-tool loop for each (a *turn*), and
persists the result; almost everything around that is a plugin. This directory
holds TLA+ modules for the kernel, its built-ins and its plugins, the TLC
configurations that check them, and TLAPS proofs about twelve of them. Paths
below are relative to `src/nucleamind/` unless they start with `docs/` or
`plugins/` (where `plugins/cron` is short for the package
`plugins/nucleamind-plugin-cron/src/nucleamind_plugin_cron`).

    tlc -workers 2 -config Turn.cfg MCTurn.tla      # any run of PROJECT.json
    tlapm SessionScheduler_proofs.tla               # any *_proofs module

## 1. Inventory

| component | state it keeps | operations | what is hard | correct when |
|---|---|---|---|---|
| session scheduler `kernel/routing/session_lock.py` | per session: waiters, pending messages, holder, running turn | `submit`, hand-over, release; policies queue / merge / reject | callers cancelled at either await; batches that absorb waiters | one run at a time, oldest first, every caller told once |
| turn `kernel/turn/{orchestrator,engine,scheduling,finalization,transcript,cancel,limits,folding}.py` | token, budget, transcript, streamed text | one turn, its cancellation and deadline | parallel tools, six cancellation checkpoints, failure after output was shown | requests well formed, budget kept, what was shown is saved once, the ending is honest |
| model retry `kernel/turn/retry.py` | attempt, held chunks | complete, stream | retry only before anything was shown, never past the deadline | one attempt is shown, without a gap |
| tool executor `kernel/turn/invoker.py` | orphan table | execute | time limit, grace period, late result | a result never claims less than what may have happened |
| hooks `kernel/turn/{hooks,replacement}.py` | bindings | observers, interceptors | batch time limit, short circuits, critical failures, replaced payloads | one handler cannot spoil another, nothing invalid is adopted |
| context, compaction, memory `kernel/turn/{context_builder,compaction,memory}.py`, `builtins/context_basic` | none of their own | assemble, compact_once | trimming to a budget without splitting tool calls from results | the request fits, the newest input is in it, a summary covers what it replaces |
| session store `builtins/session_jsonl` | two files per session | load, append, compact, delete | crashes between writes; readers without the slot | readable, whole commits only |
| fan-out `kernel/routing/fanout.py`, duplicates `dedup.py`, admission `kernel/turn/tracker.py`, instance `runtime/instance.py` | lanes and workers, recent message ids, submissions, phase of the stop | offer, drive, handle, stop | a worker leaving while an input arrives; stop against everything | in order, at most once, quiet after a stop |
| instance lock `kernel/config/{lock,process}.py` | one file | acquire, reclaim, release | races of system calls, crashes, reused PIDs | one holder |
| plugin plan `sdk/manifest.py`, `kernel/plugins/{discovery,loader}.py`, `runtime/{inventory,plugin_plan,plugin_disable}.py` | none | discover, check, order | cascades of missing dependencies, disabled overrides | every candidate accounted for, dependencies first |
| plugin host and lifecycle `kernel/plugins/{host,builtin_loader,lifecycle}.py`, `runtime/{bootstrap,startup,plugin_context}.py` | phase per plugin, tasks, cleanups | wire, activate, stop | rollback of a failed start, reverse stop with limits | all or nothing, dependents stop first |
| registry `kernel/registry`, `contracts/capability.py`, `kernel/plugins/capabilities.py` | capabilities | register, resolve, read | competing providers, overrides of overrides | at most one winner, the rest reported |
| event bus and sinks `kernel/observability` | subscribers, strikes, ring, daily file | publish | callbacks that publish, subscribe, fail or hang on | each subscriber sees a gapless ordered stretch |
| configuration `kernel/config`, settings of the built-ins and plugins | documents | load, merge, validate, edit | precedence, two validators, secrets | last layer wins, validators agree, secrets are never written |
| dispatcher and commands `kernel/routing/dispatcher.py`, `contracts/command.py`, `builtins/commands_core` | index | parse, dispatch, `/cancel` | aliases, batches | a name means one command |
| model adapters `builtins/model_openai`, `plugins/anthropic` | stream decoder | complete, stream | interleaved pieces, broken streams | the stream says what the one-shot answer says |
| shell tool `builtins/tools_shell` | one process | execute | time limit, descendants, cancellation | ends in time, reports what may have happened |
| file tools `builtins/tools_fs`, `runtime/access/paths.py` | none; a temporary file per path | read, write, edit, list, search | writers of several sessions in threads, limits on results, links | whole files, a result cut says so, a path means one file |
| web, CLI, sdk, embed | little | I/O | little of it is about order | |
| cron `plugins/cron` | job table, file | ticker, tool and command calls | due jobs against edits, crashes, clock changes | one run per due time, durable |
| memory `plugins/memory` | two files | remember, forget, recall | no lock; two replaces | nothing remembered is lost, nothing forgotten returns |
| feishu `plugins/feishu` | open card per conversation | deliver, hints, stop | three tasks edit one card | the whole answer is shown and the card closed |
| MCP `plugins/mcp` | session per server | connect, call | servers that hang, sessions that end | the start is not held up, results are honest |
| openai-api `plugins/openai-api` | waiters per conversation | request, route | answers paired by age | an answer reaches its own request |

How they interact. A channel's pump offers each input to the lane of its
conversation; the lane's worker awaits `handle()`, which refuses duplicates,
submits to the session scheduler and, as the holder of the slot, routes the
batch through the dispatcher and runs the turn. The turn loads the session,
has the context built, asks the model through the retry and an adapter, runs
tools through the executor behind the interceptors, and finishes with append,
terminal event, hooks and last frame. A stop closes admission, cancels the live
tokens, stops channels and pumps, discards what is queued, waits for a grace
period, forces the rest, and stops the plugins in reverse. All of this is one
event loop: what happens between two awaits is atomic. The calls of the stores
(sessions, memory, cron table) run in threads, and the lock is shared between
processes.

`PROJECT.json` lists the hazards line by line with the properties aimed at
each.

## 2. Modules

| module | models | composed with |
|---|---|---|
| `SerialQueue` | what a session promises: one run at a time, oldest first | implemented by `SessionScheduler`, used by `Gateway` |
| `SessionScheduler` | `session_lock.py` | refines `SerialQueue` |
| `Turn` | one turn, `kernel/turn` | |
| `Retry` | `retry.py` as the engine consumes it | detail behind the model step of `Turn` (no refinement stated) |
| `ToolCall` | a batch of calls: `_invoke_one`, the interceptor chains of `hooks.py`, `invoker.py`, child tokens | detail behind the tool steps of `Turn` (no refinement stated) |
| `ModelStream` | an answer streamed piece by piece, both services, and its one-shot decoding | what `Retry` calls a provider |
| `Context`, `Wire` | the request: assembly, trimming, compaction; encoding for both services | what `Turn` calls its request |
| `SessionLog` | what a session's history promises: atomic append, compact, delete | implemented by `SessionStore` |
| `SessionStore` | `store.py` on the disk | refines `SessionLog` |
| `Gateway` | pump, lanes, duplicate table, admission, stop of the instance | `INSTANCE SerialQueue` for the scheduler |
| `InstanceLock` | `lock.py` with the probe of `process.py` | |
| `PluginPlan` | from plugin sources to the load plan | |
| `PluginHost` | wiring, activation, background tasks, stop | takes a plan's order |
| `Registry` | registration, resolution, reads | |
| `EventBus`, `Hooks` | fan-out of events; one dispatch of the router | |
| `Commands` | declaration, parsing, dispatch, batches, `/cancel` | |
| `JsonValues`, `Settings`, `Config` | values; options of each block; layers, validation, edits, references to environment variables | `Settings` and `Config` use `JsonValues` |
| `Cron`, `CronExpr` | the job table and its ticker; expressions | |
| `MemoryStore`, `Mcp`, `Shell`, `FeishuStream`, `ApiHub` | the plugin or tool of that name | |
| `Files` | the file tools: writes and edits of one path by steps; pages, limits, searches and paths as functions | |
| `MCTurn`, `MCHost`, `MCServices` | the instance in three parts, see below | |
| other `MC*` | values of the constants, nothing else | |
| `SessionScheduler_proofs`, `Turn_proofs`, `ToolCall_proofs`, `Gateway_proofs`, `EventBus_proofs`, `SessionStore_proofs`, `PluginHost_proofs` | theorems, see section 4 | each EXTENDS its component, `ToolCall_proofs` also `Retry`, `Gateway_proofs` also `Cron` and `MemoryStore`, `EventBus_proofs` also `Hooks`, the last one also `InstanceLock` |
| `NaturalInduction` | induction over naturals and sequences, recursive functions | lemmas of `SessionStore_proofs` and `Gateway_proofs` |

**The three composed runs.** `MCTurn`, `MCHost` and `MCServices` put the
components of one neighbourhood side by side. `part` names the component a
behaviour is about; its actions move its variables and the others stand still
(`Still`, or their initial state). They are put under one run, not interleaved:
the components share no variable, so an interleaving would multiply states and
show nothing. Where components really share a step it is inside one module
(`Gateway` with `SerialQueue`, `ToolCall` with the hooks around a call). The parts
that are algorithms have one variable, `input`, and one step which picks any
input of the bounds; their property is about `input`. A composite property
is a conjunction over parts (`PluginsAllOrNothing`, `OutsideIsReportedTruly`, ...) whose
conjuncts are named in the module it comes from, where a comment states each.
`MCTurn` EXTENDS `Turn`, `Retry` and `ToolCall`, `MCHost` `InstanceLock`, `SessionStore`,
`EventBus`, `Hooks` and `PluginHost`, `MCServices` `Gateway`, `Cron` and `MemoryStore`; the other parts are INSTANCEs. So what is
proved of these eleven is, to the letter, what the runs check, and TLC evaluates their
assumptions. `Turn`, `ToolCall`, `SessionStore`, `EventBus`, `Hooks`, `PluginHost`, `Cron` and `MemoryStore` carry prefixed names
(`TurnNext`, `ToolNext`, `StoreNext`, `BusNext`, `HooksNext`, `HostNext`, `CronNext`, `MemoryNext`, ...) for it.

**SessionScheduler.** An action is what a task does between two awaits of
`submit()`. `waiters`, `pending`, `holder`, `running_turn` are the fields of
`SessionSlot`; `slots` is the key set of `_slots`; `status`, `batch`, `absorbed`
are the locals of the submitting tasks. `granted` is the state the code does
not name: the future is resolved, the task has not resumed. `Cancel` is a
task cancelled at its first await; `Finish` with an exception covers a task
cancelled in `run()`.

**Turn.** `turnPc` names the await the task is suspended at. Cancellation, the
clock, the watchdog and the tasks of a parallel batch move whenever it is
suspended. Model text is numbered pieces, so that "this piece was shown, saved,
saved twice" can be said. `handler` tells a `finish_turn` called in sequence
from one called in the `except` of `_run`. The model, the hooks, the store and
the invoker are the environment: they return, fail, or (for the model and the
context providers) report the cancellation.

**Retry.** `stream()` and `complete()` share `attempt`, the back-off and the
events; `setting` says which of the two runs. A chunk is known by its attempt
and its place, so "one attempt, no gap" can be said of what was shown. `gate` is
`_StreamGate`. Time is ticks: `remaining` is the ledger's, `wait` the loop of
`wait_before_retry`. The provider may fail, stop or hang anywhere.

**ToolCall.** `toolPc` is the await a call is suspended at, `toolHandler` its shielded
task, which ends by itself or never; that it ended is noticed by a later step,
so a timer may win. `child` is the call's token, `orphans` and `dropped` the
executor's table. `lawful` is what `validated_tool_invocation` compares. `Kill`
is `finish_shutdown` cancelling the turn's task.

**ModelStream.** The server holds a message; `sent` counts, block by block, the pieces
that were read. Pieces of different blocks come in any order between each other (two parallel
calls, a call and a text), so that only the index tells where one belongs. `dec` is the
decoder's state (calls and thinking by index, ids), `out` the chunks, `cut` that the connection
broke. The folded chunks are compared with `decode_response` of the same message, the other path
through the code. The place in the array that stands in for an index a gateway leaves out
(`wire.py:348`) is not modelled.

**Context, Wire.** Functions of the turn's input. A text is its number of tokens, a
record its role, text and attachments; a message of `Wire` is told from others by a
number, so that "every message arrives, once, in order, after its call" can be
said of the encoded body, and the rules of the two services are the reference.

**SessionStore.** A record is a line of `Width` cells and a newline, so a length
may cut inside a record, at its newline or between lines. Every write of a call
is a step, and `Interrupted` ends a call at any step of `Exposed`: the process
is killed or the operating system reports an error. A batch may be torn; the
rewrites go through `os.replace` and may not. `Reading` goes through the text cell
by cell and breaks it where `splitlines()` does. `reader` is a load beside the
writer.

**Gateway.** The path of an input as its `state`: queued in a lane, waiting for
the session, in a turn, echoed as refused. `phase` is the line of
`_stop_locked`. `SerialQueue` stands for the scheduler, which the refinement
justifies; the bound of the waiters is in `Handle`. `Streaming` are the inputs
whose turns call `deliver()` on the way. `doomed` are the tasks cancelled by
`finish_shutdown`, which die at their own pace because the code waits for a
single loop rotation only.

**InstanceLock.** An action is one system call. `file` is who created the file
at the path and whether its content is there. A process may die anywhere; a
process may have the PID of a dead one. `Pinning` is the platform: an open file
cannot be unlinked (Windows) or can (POSIX).

**PluginPlan, PluginHost.** The plan is a function of sources and configuration.
The host takes a provider at a time through setup with its registration batch,
activation, and the stop with its time limit; a setup, a task or a cleanup may fail, and a
task or cleanup may hang. `owned` is `resources.contexts`, which is made in load order and
emptied by the CLI fallback; `ctx` keeps the contexts of an abandoned first round until
the second makes new ones, so that what they left behind is seen.

**Registry.** Providers and names are ranked naturals; the resolution is compared with
what a reader of `docs/plugin-development.md` may expect: one winner for a
single slot, order by rank, every loser in the report, an override whose target is
gone not silently active.

**EventBus, Hooks.** `EventBus` keeps the deque of pending events and, of the fan-out that
is under way, its event and who has not had it, so a callback may publish, subscribe
or cancel subscriptions between any two calls. `order` is every subscription ever made, so the
subscriber list of the code is `order` without `retired`; the oldest of `current.to` is next. `Hooks` runs one dispatch with the
timers of the batch and of each interceptor. `at = "escaped"` is a dispatch that a
handler's own cancellation has left: `SelfCancelled` says what is certain even then, section 5
what the code promises instead.

**Config, Settings.** Documents are functions from paths to JSON values; options
are rows (kind, bounds, default) once as the reading code has them and once as the
schema of the manifest or of the editor has them, and both verdicts are compared.

**Cron, MemoryStore.** As `SessionStore`: calls of several tasks by steps, crashes and
failing writes at each, and readers beside them. `CronExpr` is the search
of `next_after` over a stretch of days whose clock changes.

**Files.** The disk is nodes, and two names lead to them: the path and the temporary name
every call on that path shares, so a descriptor that outlives a rename writes where the code
writes. A cell carries the number of the call that wrote it. `expect` is what the calls that
landed leave when run one by one, `mixed` that two of them overlapped; the property is
about calls that did not, except that no temporary file stays behind.

**Mcp, Shell, FeishuStream, ApiHub.** Their peers (servers, processes, the platform,
HTTP clients) answer, fail, answer late or never. Requests and cards carry the number of the
turn they belong to, so that crossing can be seen. The task of `Mcp` may end anywhere, also
while a server is being connected (`torn`), which loses the tools of all of them.

Definitions named as mutants in a comment are plausible bugs of the definition
that follows; no specification uses them, and PROJECT.json pairs each with the
property that detects it.

## 3. Runs

| run | parts and instance | distinct states | shows |
|---|---|---|---|
| `scheduler` | 2 sessions, 5 submissions (4 contend), QueueMaxSize 2, all three policies | 43,756 | see the theorems; and with fairness every caller gets an answer |
| `turn` | `retry` 60k, `turn` 603k, `tools` 5k, `stream` 53k, `context` 17k, `wire` 0.8k | 740 k | one attempt shown and harmless resends; well-formed requests, budget and barriers, records once, honest endings; honest side effects; stream = one-shot answer; requests that fit and are accepted; every call and turn ends |
| `host` | `lock` 43k, `store` 12k, `files` 66k, `plugins` 10k, `bus` 6k, `hooks` 1k, and algorithms: `registry` 5k, `plan` 1k, `inventory` 24k, `overrides`, `layers` 1k, `document` 13k, `option` 4k, `block` 13k, `secrets` 10k, `commands` 1k, `batch` 10k, `cancel`, `reads` 0.8k, `cut`, `search` 0.8k, `paths` 2k | 225 k | one holder of the lock, named; sessions readable and `SessionLog` implemented; plugins all or nothing in order; events in order; hooks isolated; capabilities, plans, configuration and commands as documented; file tools write whole files, say what they cut and keep to one meaning of a path |
| `services` | `gateway` 35k, `memory` 19k, `cron` 134k, `mcp` 18k, `cards` 78k, `api` 87k, `shell` 2k, `times` 0.2k | 374 k | lanes in order, at most once, quiet after a drained stop; durable schedules, one run per due time; memory intact; reports true to what happened; the answer on the card; everything ends |
| `scheduler_wedge` | as `scheduler` | | **violated**: the slot is lost when a granted caller is cancelled |
| `store_compact` | as `store`, every interruption | | **violated**: interrupted compaction |
| `store_lines` | a record with a Unicode line separator | | **violated**: session unreadable |
| `gateway_deliver` | every turn streams | | **violated**: pump and turn deliver at once |
| `lock_race` | as `lock`, no pinning | | **violated**: a starter unlinks the file another has just created, two holders |
| `feishu_close` | one turn, hints, a stop, no fault of the platform | | **violated**: the card stays in streaming mode |
| `cron_fold` | the night with a repeated hour | | **violated**: the next moment is not later |
| `api_cross` | two requests of one conversation, one given up | | **violated**: the answer goes to another request |

Why the bounds are enough.

- Scheduler: four contenders are one runner, a full queue of two, and one more
  to refuse, and a batch of three to absorb; the theorems cover the rest.
- Retry: three attempts, delays of one and two ticks, hints of zero and three. A
  delay of three takes two slices, the gate gives up at the third of four chunks,
  and five ticks let the deadline fall before, in and after each wait.
- Turn: three iterations, two tool calls, one continuation. Two calls exercise
  parallel, parallel before barrier, unknown tools, and the exact end of the
  budget; three iterations pass the budget by a continuation and by tools.
  `MaxContent` 2 is passed by three pieces.
- Tools: the second orphan displaces the first; a critical and an ordinary
  interceptor meet every verdict.
- Stream: answers of up to two blocks in two pieces, interleaved in every way; calls with
  and without an id, two with the same id and two with different ones, complete and broken, in
  both dialects, cut, refused or cancelled anywhere.
  Context: limits from nothing to more than everything, up to three records with a
  tool call among them, providers and a memory that fail. Wire: up to two
  rounds of tools, ids the service refuses, empty and unencodable text.
- Lock: two racers, a third that reuses the PID of the first, and one of another
  host with that PID.
- Store: a cut needs records of two widths and a second writer after an
  interrupted one; four records allow a compaction between appends and another
  after it. Two interruptions are left to `store_compact` and to section 5.
- Plugins: a built-in with CLI and model, a plugin that overrides the CLI, and one
  that depends on it; each may fail. Bus: ring, file and a plugin's callback, three
  events over two days, a ring of two, two strikes. Hooks: a critical and an
  ordinary handler, three ticks.
- Files: three calls of two sessions, one of which may be given up while its thread goes on,
  with texts of two, one and one cells over a file that is there or not: a call of the other session
  follows or overlaps, and an edit follows a write. Reads, searches and paths: up to three
  lines, files or names, with every limit on both sides of their sum.
- Registry: up to three registrations of three providers, which may form chains
  and cycles of overrides. Plans: up to three plugins with any dependencies. Configuration: four
  layers over nested paths, each option at and beside every bound of its row.
- Gateway: two conversations, four inputs with a redelivery, every capacity one,
  so that each limit is met by the second input; a direct input (`submit()`) contends
  with the lane for the session.
- Cron: two jobs, three moments, one crash. Memory: two callers, two things
  remembered, four calls, one crash. One crash with every continuation after it is
  every pair of "what was written" and "what is read".
- MCP: three servers that need no, some, or endless time, budget two, two callers. Shell: a
  time limit of three and a grace of two, with and without a descendant that
  holds the pipe. Card: one turn, one hint, one fault. Api: two requests of one
  conversation with a lane, a usage table and a record of responses bounded by one or two.
- Times: the days of a leap February and the March after it, the nights of both changes of the
  clock; 24 expressions asked at four moments each.

`CHECK_DEADLOCK FALSE` stands where the system may really stop: a gateway that has
stopped, processes that are all gone, an algorithm that has returned.

Fairness. The event loop runs ready tasks, and every await of a turn has its
own time limit (hooks, provider requests, tools), which is the weak fairness
of `Turn` and of the scheduler's resumed and running tasks. Arrivals,
cancellations, crashes and the beginning of a stop are never fair.

- `Gateway`: `TurnEnds(i)` is strongly fair because `Send` disables it for a while
  each time. The grace timer fires (`Stopping` is weakly fair once begun).
- `InstanceLock`: system calls are fair as long as the process lives and they
  succeed.
- `Retry`: ticks, due timers and the watchdog are fair, and the provider raises
  once the token is set, as `contracts/protocols.py:237` demands of it; it
  may hang otherwise. `ToolCall`: each call's own steps and timers, never a handler.
- `PluginHost`: only the steps of the stop, each of which has a budget. `EventBus`: the
  fan-out, which is synchronous; `MaxEvents` bounds what callbacks publish.
  `Hooks`: the router and its timers, never a handler.
- `Cron`: the loop and time are weakly fair, a call's thread too; `TakeDue` is
  strongly fair because a call that holds the lock disables it for a while. `Mcp`:
  the host's and the task's steps and each call, never a server. `Shell`: the
  call's own steps and time, never the process. `ApiHub`: the pump, the lane and the
  readers; a client and a time limit may end a request at any time.

In the composed runs a fairness condition is the one of the module, restricted to
behaviours of its part.

## 4. Proofs

`SessionScheduler_proofs`, for any sessions, tickets, queue bound and
cancellable callers: `TypeOK`, and each of `OnlyHolderRuns`, `NoLostCaller`,
`SlotsConsistent` (also part by part), `MergedMeansExecuted`,
and the refinement of `SerialQueue`. The argument is one inductive invariant,
`IInv`: a waiter is in exactly one queue, once, and is `waiting`; the holder of
a session is the one ticket of it that is `granted` or `running`; the tickets of
a batch are the runner's own and those it absorbed, which are in no queue. Each
conjunct alone is not inductive: that a hand-over finds a `waiting` ticket needs
the queue's part, that a settled caller was not settled before needs the
batch's. One lemma per action shows that it preserves `IInv`; the refinement
maps every action to a step of `SerialQueue` or a stutter. A caller
cancelled in `granted` is part of the model: it keeps the slot for
ever, so these safety theorems hold and `SlotAlwaysReleased` does not.

`Turn_proofs`, for any limits of the ledger, any pieces of text an answer may have and any
lists of calls it may ask for: `TurnAsksLawfully` (the types, the budget, the barriers, one answer to each
call in a request) and `TurnTellsTheTruth` (what ran is recorded, nothing twice, no tool left running, an
end that says what was saved), both of which the `turn` run checks. The parts of `IInv`:

- A call that may still run counts as if it had (`BudgetHolds`): a batch is paid for before
  its first handler starts, and its tasks start in any order, so what has been executed says nothing
  of what will be.
- The calls that have left the queue and are not collected are of one batch, and a barrier is alone in its
  batch (`BarrierHolds`).
- Every response of the model but the one at work is followed by as many results as it has
  calls, none of them twice (`MessagesHold`); that they are then all there is a pigeonhole,
  one lemma about sequences without repetition.
- A call that was executed is in a record or in the hands of a step that will record it
  (`ExecutedHolds`, `CallsHold`), however the turn is cancelled or killed in between.
- A piece of text is in one place at a time: the answer under way, the final text, or
  one record (`TextHolds`). That nothing is saved twice is this, over the ways an answer gets from one
  place to another: tools, a continuation, the end, a cancellation in mid-stream, the `except`
  of `_run` after a `finish_turn` that had begun.
- What `finish_turn` leaves is what the status promises (`Tells`), and the reports that follow, the
  save, the frame and the event, do not change it (`EndHolds`).

`ToolCall_proofs`, its second half, for any policy, poll slice, gate size, deadline and hints of `Retry`:
`TypeOK`, `StreamFaithful`, `ResendIsHarmless` and `FailuresReported`. The
invariant is about the gate and about the count of events. While the gate is
closed it holds exactly what has arrived and nothing is delivered; once open,
exactly what has arrived is delivered; so a back-off, which only a closed gate
reaches, has shown nothing. A back-off of n ticks began with more than n ticks
left and both are counted down together: that is why a resend still has time,
which the property of a single step cannot see. A request in flight follows
`attempt - 1` events, all of them with `retrying`.

`ToolCall_proofs`, for any calls, interceptor chains and size of the orphan table:
`ToolResultsAreHonest`, which the `turn` run checks, that is the types,
`SideEffectsHonest` and `RunawaysKnown`; that a handler only starts for the
call the model asked for, whatever the interceptors did; and that an answer once
given is final. `IInv` adds what the awaits imply. Between the start of a handler and its
conclusion there is no result, so a late handler cannot contradict one. A handler whose
call waits for it no longer, or whose turn is cancelled, has its token set, which is
what lets the table call it a runaway. And the runaways that the table does not
list are at most `dropped`: the step that displaces the oldest entry adds at most
that one to them, a fact about cardinalities that no conjunct of the property says.

`Gateway_proofs`, for any inputs, conversations, messages, and sizes of the lane
table, the lanes, the scheduler's queue and the duplicate table:
`GatewayIsOrderly`, which the `services` run checks (the types with the bounds on lanes
and table, `LanesInOrder`, `AtMostOnce`, `QuietWhenDrained`); the action property
`NoTurnAfterStop`; one turn per conversation at any time; one receipt per input. In
`IInv` each input is where its state says (`InHand`, `InSlot`), each lane and slot holds
only inputs whose state says so (`LaneHolds`, `SlotHolds`), the table is the set of
living workers until the stop forgets it (`TableHolds`), and the phase of the stop
bounds what can still be under way (`StopInOrder`). No half is inductive alone: that a
worker who leaves strands nobody needs the lane's side, that the next holder of a slot was
waiting needs the input's. The instance `Queues` of `SerialQueue` is expanded, not assumed: with the
refinement theorem of the scheduler this is an argument down to `session_lock.py`, as far as
`Gateway` takes a step of `SerialQueue` for each call.

`Gateway_proofs`, its second half, for any jobs, sessions, limits and bounds of the cron plugin:
`TableIsDurable`, which the `services` run checks, and the action property `RunsOnce`, a part of its
`ServiceStepsAreLawful`. The invariant (`CronIInv`) says who may be writing: the holder of the lock has
one write under way, of the table as it is, and `load()` has one beside it, which a caller that
comes too early can overtake (`WritesHold`); so while nothing went wrong there is one writer, and what it leaves
on the disk is the table in memory (`OnlyWriter`). That a job does not run twice cannot be said of the table in memory: a
crash, a failed write or a write that lands late brings an older one back. It is said of every table there is, in memory,
on the disk and on its way: none lets a job send again too early after the message it sent last
(`Ahead`), and the table that carries the message still waiting for its write is ahead of that message too
(`OnceHolds`). A message leaves only when that table is on the disk and no other is under way,
which is the step that would fail if the lock did not cover the write. The smallest of a set of moments exists by
`LeastElement`. `CronAssumption` says what a schedule is: at one moment, every so many
moments, or at any set of moments.

`Gateway_proofs`, its third part, for any callers and bounds of the memory plugin: `MemoryIntact`, which the
`services` run checks, and the action property `RecallIsWhole`, a part of its `ServiceStepsAreLawful`. Both speak of
calls that write one after the other and of no `forget()` cut off between its two files, which is what the code can
promise without a lock; readers may be beside them, and any write may fail or be torn, any step be the last before a crash. The invariant
(`MemoryIInv`) is about texts: the committed prefix is *sound* (whole lines, identifiers unique and
below the next one) and lies between what was acknowledged for certain and what was asked for at all
(`FileHolds`); a writer's plan is made of the meta that still is in force, and says what is in the file behind the
watermark (`WriterHolds`); the prefix a reader began with is a prefix of the present one, to which only
later identifiers were added (`ReaderHolds`). It is not inductive without the readers' part of
`Paired`: that between the two replaces of a `forget()` no reader counts that it did not rewrite the file under.
What `forget()` keeps of a sound text is sound and all but the one record
(`WithoutIsSound`), an induction along the lines: a kept unit whose successor is dropped closes its line, because the
two would have the same identifier.

`SessionStore_proofs`, for any records of any widths, any batches and summaries and any bound on the
records: `SessionsAreSafe` and `ReaderSeesOneCommit`, which the `host` run checks, and the
refinement of `SessionLog` (`ImplementsSessionLog`). The assumptions are those of the run: no record has
a line separator in its text (`Separated = {}`) and no call is cut between the two files of a
compaction or a deletion. `store_lines` and `store_compact` show what happens without them;
between all other steps a call may be cut any number of times, and a batch anywhere. The
invariant names the records `ms` that count at the moment. The history begins with their
encoding and the metadata has its length (`Stored`); between the two files of a compaction the
history *is* their encoding, of which the metadata in force knows at most a part. What follows
the committed cells is any garbage an interrupted batch left. A load beside the writer
holds metadata of its own, not longer than the one in force, whose records are still at the start of
the history: an append or its torn remainder is written behind both
(`WriteBehind`), and a compaction or deletion overtakes the load. That `load()` makes `ms` out of such
files is `SnapshotIs`: the encoding of a list is the concatenation of its lines (`EncodeJoin`), and
reading it line by line gives the list back (`EncodeReads`). Both are inductions over sequences of any
length; the library's induction theorems cannot be used (their parameter is an
operator), so `NaturalInduction` starts from the least element of a set of naturals (`LeastElement`, from
the well-foundedness of `<`) and derives induction for subsets of `Nat` and of `Seq(R)`, and with it the defining
equation of a recursive function (`Recursion`). The refinement then follows by `LogBefore` and `LogAfter`:
each action is a stutter but the one that makes the call take effect.

`EventBus_proofs`, for any subscribers, limit of strikes, capacity of the ring,
number of events and of days: `EventsReachAll`, which the `host` run checks
(`EventsInOrder` and `QuietIsComplete`), and the action property `CutOffIsFinal`. The invariant
says that the waiting events are the last ones published, consecutive, which makes
`NextEvent` a line between what was fanned out and what was not. The *frontier* of a
subscriber is the event in hand while it is still to get it, otherwise that line. What
it has seen is increasing and below the frontier (`Hears`), and what lies between, if it
is still listening, was lost with a fan-out that an escaped exception tore down. A subscriber
listens until it is detached or, outside of a fan-out, taken from the list:
`QuietIsComplete` alone says nothing of the middle of a fan-out and is not inductive. That
a line of the file is a new one follows from the frontier too: its event is
above all those the sink has seen.

`EventBus_proofs`, its second half, for any hooks, handlers, critical handlers and time that is left: `HooksAreIsolated`,
which the `host` run checks. The invariant (`HookIInv`) places every report and every accepted
replacement among the handlers before the one at work (`ChainHolds`): the handler at work has no report and no
replacement yet, because no handler is bound twice, so its own report is its only one
and its replacement comes last. A veto without a report is what ends the
chain, so there is none before. Of a batch it says which tasks there are and
that whoever failed or was late is told of when it returns (`BatchHolds`); that those reports are each one
is a fact about `SetToSeq`: it lists a finite set without repetition (`Listing`, `TellingBoth`). Both
parts also describe the dispatch that a handler's own cancellation left: its culprit ended cancelled without
being cancelled by the batch, the others are over, and what was reported was reported once (`SelfCancelled`). Of the bindings
`HooksAssumption` asks that a handler is bound to a hook once, which registration gives
(a binding is a capability, and its name is unique within its provider).

`PluginHost_proofs`, for any load order, manifests, dependencies, critical providers and
required kinds: `PluginsAllOrNothing`, which the `host` run checks (`AllOrNothing` and
`NothingOutlivesTheLock`), and `DependencyOrder`, the half of `OrderIsKept` about plugins, in every kind of
stop: a rejected start, the CLI fallback, a failed activation, an orderly one. The invariant
says that the contexts are a prefix of the load order and that those still to be stopped are
a prefix of the contexts, newest first (`StopHolds`); everyone behind that prefix is `Stopped`:
it takes no events, runs no task, and what it left undone is a timeout that was
reported. It is not enough that the lock is released last: that a context stays quiet
after its turn in the stop is why no subscription or task comes back while older
ones are still draining, and `LifeHolds` is needed for the contexts that an abandoned first
round left behind, which may not start a task any more. A batch holds only what its
provider declares, each once, and nothing in the registry is of a provider whose setup has not
succeeded, so a commit adds what was not there. `DependencyOrder` then follows from positions:
a dependency has the lower one. The assumption on the manifests (`HostAssumption`) is that no
two of them declare the same registration. The built-in ones share a provider and so need distinct
names, which `builtins/registry.py` gives them; of external plugins the provider is their id.
That the order puts dependencies first is `PluginPlan`'s result, which the `host` run checks.

`PluginHost_proofs`, its second half, for any processes, hosts and PIDs of the lock. `TypeOK` on either
platform. With `Pinning`: `OneHolder` and `HolderNamed`, from the invariant
`OpenFileStays`: whoever has its descriptor open created the file that is at
the path now, and it is written once the process holds the lock. It is
inductive because every `unlink` of another process meets a pinned file; two
holders would then both be the creator of one file. Without `Pinning` the
assumption is what fails (`lock_race`).

Assumptions: those on the constants in the modules (`GatewayAssumption`,
`TurnAssumption`, `ToolCallAssumption`, `BusAssumption`, `HooksAssumption`, `HostAssumption`, `CronAssumption`, ...; TLC evaluates each in a run),
`Pinning` where stated. Each inductive invariant was checked by TLC on small
instances before its proof (of `SessionStore` with `ms` the records that `LogNow` reads).

Only model-checked: the modules without a `_proofs` module; all liveness (fairness and
ENABLED are out of the prover's reach); and of the proved modules
`PublishReturns`, `EveryCallerAnswered` and the other properties with `~>`. What the recursive functions and
folds of `Context`, `Wire`, `ModelStream`, `CronExpr`, `Config` and of the resolution in `Registry` compute
needs an induction for each, which is done for the lines of the two kinds of files only. `SelectSeq`, of
which the prover knows nothing, keeps `Mcp` there.

## 5. What the code does otherwise than documented

Eight are runs (`findings` in PROJECT.json). Others were met while modelling and
are in the models as the code has them, or stated as exceptions of a property:

- A last frame over the length limit cannot be built; the turn, already
  persisted and announced, goes through its error path: a second append and a
  second terminal event (`finalization.py:90`, `orchestrator.py:181`; line 3 of
  `finalization.py` promises one).
- After a user's cancellation a tool call is awaited for its whole time limit,
  not for the grace period (`invoker.py:226`; `contracts/protocols.py:257`).
- A handler that raises `TimeoutError` itself, or ends as its grace is over, is
  entered as an orphan though nothing of it runs (`invoker.py:229`, `263`).
- A call killed with its turn leaves its handler running and unregistered; calls
  of a parallel batch go on detached (`scheduling.py:73`). The stop report
  (`instance.py:293`) misses both.
- `CutAnswerIsHonest` excludes continued answers: after a length stop, a
  cancellation keeps the finished responses and drops the pending text
  (`finalization.py:36`; `cancel.py:20` promises it is kept).
- It also excludes turns with attachments: `finalization.py:49-52`
  adds an unmarked record and marks nothing (`docs/session-storage.md:50`).
- A deadline met at checkpoint 4 is reported with reason budget, one met at
  the head of the loop with reason timeout even if a user cancelled first.
- A cancellation at checkpoint 4 loses a response that did not stream. A
  wrap-up answer replaces a continued one (`orchestrator.py:409`, `459`).
- A critical hook that fails leaves its sibling tools running
  (`scheduling.py:77-82`); `NoToolLeftBehind` excludes failed turns for it.
- A deletion cut short leaves metadata without a history; a load that overlaps
  a compaction may find the session corrupt (`store.py:112` says otherwise).
- Inputs discarded by a stop are never told; channels are stopped before the
  last frames of running turns; a message refused as busy counts as seen.
- After a forced stop turns may still run when the shutdown hooks and the
  plugins' stops run (`NoTurnAfterStop` forbids only new ones); an echo or
  `channel.stop()` that hangs, hangs the stop.
- A starter with the PID of the dead holder, as in a container, or with a new
  host name, is refused for ever (`lock.py:285-290`).

Model and context:

- The anthropic decoder refuses duplicate call ids in a one-shot answer and merges
  them in a stream; a stop for tools without calls can be retried from a stream, not
  from `complete()`; OpenAI's generated ids can repeat across rounds of a turn.
- A clean end of an SSE stream before its last event passes a cut answer off as
  complete; a cancellation is seen only after the next line.
- The thinking mode `budget` without `budget_tokens` sends 0; `max_output_tokens`
  at or above the context window is accepted at start, and then every turn fails
  (`kernel/turn/limits.py:188-201`).
- An error of a context provider with the category "cancelled" is treated as a
  degraded provider. The operator's instructions are dropped before any history is.
  After a compaction every provider is asked again, and the new summary may be
  trimmed first.

Hooks, bus, plugins and registry:

- An observer whose task ends cancelled by itself makes `task.exception()` raise
  `CancelledError` out of `dispatch()` (`hooks.py:219`), against lines 186-187 ("only a critical
  interceptor's failure raises") and `NFR-204`: the failures of the observers behind it are not
  reported and the turn ends as if it had been killed. An interceptor's own cancellation leaves
  the dispatch too (lines 251-262 catch `Exception`). `HooksAreIsolated` names this exit and
  says what holds there.
- A handler that swallows the cancellation of `wait_for` has its late outcome
  adopted; a cancellation from outside leaves observer tasks unwatched.
- A `BaseException` of a callback clears the pending events; a callback that
  publishes on every event never ends; the file sink may append after a torn line.
- `setup()` has no time limit; a failed one keeps its context, so its event
  subscriptions live until the stop. A plugin whose setup fails can abort the start
  through another plugin's override of what is now missing.
- Two overrides of each other leave neither active and no failure is reported. An override that
  failed, because its target is missing, and is itself overridden is in the failures and among
  the shadowed (`resolution.py:95` calls the sections exclusive); `CapabilitiesResolve` asks for
  exclusive sections but for that case.
- A second cancellation during `_stop_locked` leaves the instance in its stopping phase; a
  later `stop()` returns at once with the lock still held.

Configuration and commands:

- The schema and the loader differ on a null section, a null `config`, reals
  without a fraction, blank plugin ids and a `$schema` that is no text: `ValidationAgrees` is about the
  rest. A plugin's own schema is applied to external plugins only
  (`runtime/plugin_plan.py:180`). The origin of a scalar outlives a map that replaces it.
- A handler that returns something other than a `CommandResult` escapes the
  dispatcher (`kernel/routing/dispatcher.py` promises that nothing does); a command
  before a refused message of a merged batch has already taken effect.
- A different secret placed where the document has a reference is written back as
  the old reference.

Tools:

- Shell: a failure to spawn is reported as done; a call may take its time limit, two
  graces and 2 s (`process.py:12` says one grace); output is lost when a
  descendant holds the pipe; descendants survive.
- Files: two sessions' `fs.write` or `fs.edit` of one path share the name of the
  temporary file (`writers.py:52`), so that one call moves the other's half-written
  file; `fs.edit` rewrites every CRLF; a link to an ancestor makes the searches endless;
  unencodable text raises out of `execute()`.

Plugins:

- Cron: a stop during `_take_due` loses its wake; a failed or cancelled call leaves
  the table in memory changed; a cancelled caller gives the lock up while its
  thread still writes; `cron.schedule` answered with an error may have made the
  job; the second of two jobs due together is skipped if the consumer holds the first one for
  more than 5 s.
- Memory: nothing serialises sessions on the agent's partition, whose temporary
  file they share; a recall that overlaps a forget reports a corruption; a cut beyond the end
  pads with NULs; Unicode line separators break lines as in the session store.
- MCP: when the connections' task is cancelled while a server is being connected, by the scope
  of another server's transport that broke, `finally: self._ready.set()` (`supervisor.py:88`)
  wakes `setup()`, which registers nothing: the servers that were connected are lost and no
  failure is noted (lines 21-22 promise the others go on). `OutsideIsReportedTruly` has that case as
  the code has it. A session whose task ended is never cleared, so its calls report unknown
  side effects; two hanging servers use up the time of the others.
- Feishu: lane and pump may open a card each; a stale text may overwrite the final
  body after a refused update; with two faults, or when a card was sent but the answer was an
  error, it stays open.
- openai-api: a streaming client of a turn with only a final message is shown nothing
  (`http.py:304`); an empty answer keeps its request waiting for the timeout;
  the disconnect of a blocking request cancels nothing; requests posted after
  a stop wait for the timeout.

## 6. Not modelled, and why

The duplicate table's clock is an action that forgets the oldest entry. Start
times of processes (and the 2 s slack, `lock.py:302`) are abstracted to "some
live process has the PID". The merge and reject policies in the gateway and
channels that never return from `deliver()` are left out; so is the start of the channels
(`PluginHost` has the start as far as plugins go). Field codecs of the
session file, redaction, rendering of cards, HTTP and terminal I/O, the web clients and the
output of the informing commands are data transformations without interleavings. Of the file
tools the walk over directories and the matching of patterns are left out: `Files` is given
the matches of each file. The command line, embedding and the test helpers of the sdk are thin wrappers.

`Gateway`, `Turn` and `Retry` are separate models: one product of them is beyond TLC. The seam
is `SerialQueue` between scheduler and gateway, proved; the seams between a turn and its model call
or tool calls are by reading.

## 7. Plan

1. A module for the start of the instance with its channels.
