# Praxiom in TLA+

Praxiom drives an iOS device for an agent: a native Runtime observes the screen and
executes batches of actions, a coordinator admits one mutation at a time and keeps a
durable ledger of what was attempted, and a harness around them runs skills, journals
what happened, and learns from it. This directory models the parts in which order,
concurrency and failure decide whether the program is right.

The sources are under `src/src/praxiom/` (paths below are relative to it) and
`src/scripts/`.

## 1. The system

### Components, their state and their operations

| Component (source) | State | Operations | Makes it correct |
| --- | --- | --- | --- |
| Native Runtime (`ios_runtime/runtime.py`) | operation lock, current revision, revision counter, `_closed` | observe, execute, invalidate, recover, status, close | a revision admits one batch; answers say what the device was sent; nothing is sent after close |
| Observation engine (`ios_runtime/observation.py`) | the current observation | capture, resolve, drop | its observation is the one of the current revision |
| Action executor (`ios_runtime/executor.py`) | none between batches; position in a batch | execute: preflight, connect, send one by one, classify failures | a failure reports exactly the actions sent |
| Transport (`ios_runtime/transport.py`, `wifi_tunnel.py`, `remote_pairing_xcuitest.py`) | tunnel, xctrunner task, WDA session, generation | connect, recreate, close, primitives | plumbing is released exactly once, never rebuilt after close |
| Discovery (`ios_runtime/discovery.py`) | none | select a device | ambiguity is an error |
| Execution coordinator (`agent/coordinator.py`) | leases, ledger (SQLite), cancel flag, `_closed` | run, run_batch, run_async, run_sequence, cancel, inspect, close | one mutation owner; an honest ledger over crashes; every ambiguous end invalidates the revision |
| Run session (`session.py`) | trace watermark, completion flag | start, execute_skill, execute_sequence, note_attempt, drain_trace, close | run.completed once; each trace record journaled once |
| Run journal (`telemetry/journal.py`, `context.py`) | file, sequence number, torn-tail flag | emit, close, abandon, recovery on open | an acknowledged event stays readable, numbers advance, projections lose nothing |
| Skill registry (`skill/registry.py`, `lifecycle.py`) | version states, trust tokens, approvals | register, validate, activate, degrade, revoke, supersede, approve, consume | one active version; a token lives as long as its activation; approvals are one-shot |
| Skill executor (`skill/executor.py`) | none | execute, execute_sequence | only an executable skill reaches the device |
| Teaching, experience, learning stores (`knowledge/`, `learning/`) | JSONL logs | answer, review, mark_learned, record, load | an append survives a crash and a second process |
| Retrieval (`retrieval/`) | map of knowledge items | retrieve, rerank, expand | deterministic, bounded, nothing unverified reaches an action |
| Arbiter, recovery planner, reasoning (`agent/`) | none; tried pairs | arbitrate, plan, route | no event lost, a verdict that does not depend on arrival; no repeat of a failed step |
| Adaptive execution (`adaptive/`) | none; learned statistics | order a graph, batch, route, recommend, promote, learn, rebind | order respects dependencies; nothing live below the floor; reuse only under the authority that holds |
| Monitor (`monitor/`) | files | project, serve, forward teachings | reads only, but for the teaching log |
| Device run scripts (`scripts/r4_*`, `r6_*`, `r10_*`, `phase*`) | main task, worker thread, event loop, report | observe, judge, attempt, clean up, close, write the report | a mutation only from a fresh screen; a report that says completed is true; nothing left running |
| Domain contracts, visual hooks, MCP server, offline scripts | none of their own | adapters | - |

### How they interact

`RunSession` owns one journal, one coordinator and one Runtime. Skills reach the device
only through `ExecutionCoordinator.run*`, which takes the device lease, commits an
attempt to its ledger, calls `NativeIosRuntime.execute` and commits the end. Everything
runs on one asyncio event loop. The Runtime's operations serialise on `_op_lock`, a FIFO
asyncio lock, and give the loop back at every await of the transport; the coordinator's
synchronous calls keep the loop, its `run_async` gives it back while it awaits the
Runtime. Several coordinators may share leases, device and Runtime (the device matrix
scripts do, under one owner name), each with its own ledger file. Observing is open to
everyone: another task, or the MCP server, may move the revision at any time.

### What is hard here

* Cancellation. `asyncio.CancelledError` can come out of every await and is not an
  `Exception`: whatever an `except Exception` restores is not restored.
* The revision protocol: check, await, send, forget, with other callers in between.
* Crash between two commits of the ledger, and recovery when it is opened again.
* Leases released by name, by a call or by `close()`, under a call that still runs.
* Time limits: `wait_for` fires while the device is busy; the primitives have none.
* Files: torn tails, failing `fsync`, two processes that load, check and append.
* Threads beside the loop: the device runs drive a `RunSession` on a worker that waits 90
  seconds (30 in one script) for a batch on the loop; the batch outlives the wait, and
  Ctrl-C comes in between.
* Hooks: what is recorded behind an attempt may raise when the device has already acted.

`PROJECT.json` lists each of these hazards at its line, with the property that covers it.

## 2. Plan

In order; those marked * exist.

1. *`NativeRuntime`, with `RevisionGate` as its abstract specification and
   `NativeRuntime_proofs`: the six operations under the lock, with cancellation.
2. *`Coordinator`, with `Coordinator_proofs`: leases, ledger, recovery, invalidation.
3. *`Journal` with `Journal_proofs`: failing writes, torn tails, reopening.
4. *`SkillRegistry` with `SkillRegistry_proofs`: activation, tokens, one-shot approvals,
   revocation between check and dispatch.
5. *`RunSession`, with `RunSession_proofs`, over what `Journal` and `SkillRegistry` show:
   retry of close, the drain of the bounded trace, hooks that raise.
6. *`Transport`, with `Transport_proofs`: tunnel, runner and session as resources, with
   cancellation; discovery.
7. *`TeachingStore`, with its part of `Knowledge_proofs`: load, check and append of several
   threads over one JSONL file.
8. *`DeviceScripts` and `DeviceRun`, with `DeviceRun_proofs`: the device runs as data, and
   the scheduler of main task, worker, loop and Runtime that runs them.
9. *`LearnedReuse`, `Advice` and `Selection`, composed by `MCDecisions`, with the rest of
   `Knowledge_proofs`: what is learned and how long it may be used, and the pure
   decisions against reference definitions.
10. `MonitorFrames`: frame and metadata are replaced one after the other, and read
    between.
11. `CoordinatedRuntime`: several `run_async` calls over the real FIFO lock of
    `NativeRuntime`; abstract: the device part of `Coordinator`. With it the theorem that
    the coordinator over the real Runtime implements the one over its abstraction.
12. The recovery planner and the pixel geometry of the executor as operators.

## 3. Modules

### `NativeRuntime` and `RevisionGate`

A client is a task with at most one call of the Runtime. `pc[c]` is where it is
suspended: `queued` at `_op_lock`, or at an await inside an operation. `call[c]` is what
it asked, numbered in the order of the calls (the lock is FIFO), `result[c]` its last
answer. `current` is the Runtime's revision, `observation` the engine's; `closed` and
`released` are `_closed` and the completed teardown.

An action is the code between two awaits: `Start...` from the acquisition of the lock to
the first await, `...Connected`, `Capture`, `ActionDone`, `ActionFailed`, ... from an
await to the next one or to the answer. An `execute()` on ready plumbing takes
`connect()`'s fast path in the step that starts it; otherwise it waits in
`execute_connect`. The preflight failures, the classification of failures into
`NOT_SENT`, `ACTION_FAILED` and `EFFECT_UNKNOWN`, and the fields of the answer are the
code's. `CancelWaiter` and `CancelHolder` are `CancelledError` at the lock and inside.
The content of screens and actions is left out: the protocol does not look at it.

`RevisionGate` is what the Runtime promises to its callers: an observation opens a
revision, a batch is admitted only under the open one and closes it when it has begun to
act, and one batch at most acts under a revision, unless it is torn out: a batch whose task
is cancelled at the device leaves the revision behind. The revision and the batches that
acted are read off the Runtime's variables.

### `Coordinator`

A call `t` is one `run()`, `run_batch()` or `run_async()`, made of coordinator
`coord[t]` under the name `owner[t]`. `pc[t]` follows it: `new`, `admitted` (it has the
lease), `planned` and `sent` (the ledger's two commits), `waiting` (in `rt.execute()`,
nothing sent), `device`, `answered`, `invalidating` (it awaits the shielded
`invalidate()`), `done`. `run_sequence()` is `run()` with a longer payload.

`cpu` is the event loop: a synchronous call keeps it from admission to its end, an
asynchronous one only between its awaits. `lease` and `held` are the lease manager's
owner and what each coordinator lists in `_held`; `ledger` is durable and survives
`Crash`; everything else of a process does not. A step ends at each commit, so a crash
can fall between any two. `Reopen` and `Crash` recover the ledger as
`_recover_incomplete_attempts` does.

The Runtime under it is what `NativeRuntime` shows: one operation at a time; a batch only
under the current revision (`Touch`); every answer after that forgets the revision
(`Reply`), a cancellation does not (`Interrupt`). Whoever else uses the Runtime holds its
lock from `OtherStarts` to `Observed` or `OtherEnds`: an `observe()` or a `recover()`, which
await the device without a limit. A batch, and the shielded `invalidate()`, wait for them.
Which call gets the Runtime's lock next is left open, a superset of FIFO.

History variables, read by no action but the books of the model: `touched` and `acked`
(what reached the device, what it completed), `evicted` (calls whose coordinator was
closed under them; their writes fail because the ledger is closed), `abandoned` (calls
cancelled a second time).

### `Journal`

`file` is `events.jsonl` as a sequence of pieces. The line of an event is three of them,
the first part of its text, the rest, and the newline, so that a write that is cut short,
and a line glued to an unfinished one, look different from a good line; `Reads` is what
`_scan_existing` accepts. An event is its number (`seq`) and the count of the call that
made it, which tells two events of the same number apart. `synced` is how much of the
file the last `fsync` put on the disk; `buffer` is what the file object holds after a
`flush()` that failed, which it writes before anything else. `events` and `seq` are what
the object remembers; `summary` and `snapshot` the events the projections were computed
from.

An action is a whole call with one of its outcomes, since a call does not yield and one
process at a time has the run open: `Open` (scan, and `journal.recovered` if there is
torn text), `Emit`, `Close`, `WriteSummary`, `WriteSnapshot`, `Abandon`; a failing one
names what it leaves behind (`OpenFailed`, `AppendFailed`, `ConstructorFailed`,
`CloseFailed`). `_pending_newline` is not a variable: it is set only when there is torn
text, and then the constructor emits, which consumes it or fails with the object. A file
object that is dropped without a successful `close()` is closed by the interpreter, which
may write any further prefix. `Crash` keeps any part of the file from `synced` on; a
crash inside a call leaves what one of its failing outcomes leaves.

Assumed: an `fsync` that succeeds makes all of the file durable, its directory entry
included, and one that fails loses nothing but what a crash may lose anyway; `durable` has
its default. A projection is replaced as a whole (`os.replace`), so a crash leaves the old
one or the new one.

A `close()` that raises drops its file object, possibly in the middle of a line, and leaves
the journal open; `emit()` asks for nothing but an open journal, and `RunSession` does
emit then. `cut` says that the file ends in such text, `glued` has the events that were
returned although their line went behind it and cannot be read. Both are history: the
code knows neither.

### `SkillRegistry`

The versions of one skill, since the registry never relates two skills: `life` is their
lifecycle state, `live` says that `activate()` has set the entry's object, policy and
token and `_invalidate()` has not removed them. A version is active once in its life, so
the object that `is_executable` compares by identity is the version. `proven` is how much
of the success evidence that `activate()` wants has been recorded. `gated`, the human gate
of each candidate, is fixed but arbitrary.

Human approvals go `attested` (`HumanApprovalAuthority.approve`), `issued` until
`_consume` takes them, then in `approvals` of the registry and `granted` to whoever
minted them, until `consume_human_gate_approval` or `_invalidate` takes them out. A
mutation is a payload together with its revision.

The registry and the authority lock their maps, so they are meant for threads. `pc[c]` is
where a thread is: `issuing` and `minting` around the authority's lock, `checked` behind the
last look at `is_executable`, before the lock around the approvals, and `cleared` before the
coordinator is called. The methods that change the lifecycle hold no lock: they are modelled
as called one at a time, but in steps (`activating`, `retiring`), since threads that execute
come between the change of the state, `_invalidate` and the publication of the new version.
An approval minted behind a purge stays in `approvals` for ever, and a call of a version
without a gate that passed its check may run behind a revocation: the code promises neither
otherwise.

`runs`, `consumed` and `purged` are history.

### `RunSession`

One thread uses a session. A call is a list of `steps` that begins with the call and ends
when the list is empty; each step appends to the journal, closes something, or runs a
hook, and may raise (`...Raises`, `MaxFaults`). An exception ends the call unless the code
catches it: the hooks of `SkillExecutor._post_run_evidence` turn theirs into an entry of
`hook_errors` (`errors`): a list in memory, whose entries name the hook but not the
attempt, and whose oldest entry is deleted at the limit, `MaxHookErrors`. `raised` is what
really happened, as history. Between any two steps the Runtime may record an operation
(`RuntimeOperates`) in its deque `trace` of length `Keep`, which drops the oldest.

The journal is what `Journal` shows of it: an append that raises has left the event on disk
or not. In the journal means here that `emit()` returned; that such a line may be glued to a
torn one is `Journal`'s matter. `Complete`, `CloseJournal` and `CloseLane` are the three
parts of `close()`, with the flag of each, so that a `close()` may be repeated behind a
failure in any of them. `drain_trace()` copies the deque and then looks at its records one
by one (`Sweep`), marking each as seen before the append. `returned`, `swept` and `lost` are
history.

### `Transport`

`pc[c]` is where a task is: outside, `queued` at `_lifecycle_lock`, or at one of the
awaits of `connect`, `recreate`, `close_session` and `close`. `plumbing` is what the
object tracks (tunnel and whether it is lost, selection, WDA client and whether it has
been reached, session, runner task); `open`, `runners` and `probes` are what is really
held: tunnels, runners that have not ended, and the pairing services that were found and
not chosen, by the discovery of a device without a udid (`browsed`) or by
`_acquire_provider()` (`sift`). The properties relate the two. The code from an await to
the next is one action; `Fails` and `Cancelled` are an exception and a `CancelledError` at
an await, with what the handlers there give back. Either of the two loops that close such
services leaves off where a cancellation hits it (`SiftCancelled`); `cut` remembers it. The
exit stack of a tunnel that could not be opened is closed in one step: a second
cancellation inside that close is left out. `TunnelDies`,
`RunnerDies` and `SessionGone` are the outside world; `SessionRenewed` is
`_session()` of a primitive, which does not take the lock. `Classified` is `_classify()`
of discovery.

### `TeachingStore`

`log` is the file as the lines that `load()` reads, `ended` that it ends with a newline.
An operation is two actions: one that loads, checks and decides what to append (`todo`),
and `Write` for each line, since the store's lock covers a load or an append, not both.
`TornWrite` is an append cut short; what is written behind it is glued to it (`Appended`).
`Abort` ends an operation between its appends. The projection (`QuestionState`,
`Exists`, `Conflict`, `Learned`, ...) is `load()`. A line whose text holds a character at
which `splitlines()` splits cannot be read back (`Spelling`, `spoilt`): its fragments are
skipped, unless one is JSON but no object, which makes every later `load()` raise
(`Breaking`, `Loads`). Handlers are the monitor's threads; curators are whoever reviews,
and nothing keeps two of them apart. `crossed` remembers, as history, the teachings of
which a review and a learning were on their way at once. Facts are
promoted by `PromoteFact`, which runs `knowledge/promotion.py` on the loaded teaching,
and then, in a second load, `PromoteLearns`.

### `DeviceScripts` and `DeviceRun`

Eleven scripts drive a device, with thirteen runs. `DeviceScripts` has each run as the
list of its steps against the device, `Times` standing for its loop: `look` (an
observation), `see`, `audit` and `confirm` (one that must show the expected screen,
always, or if the last check was a cheap one, or together with the outcome of the
cleanup), `act` (one attempt at a mutation), `cheap` (the causal check of a canary),
`check` (a decision without the device), `probe` (a mutation that must be refused),
`touch` (invalidate, recover, a session closed under the Runtime). The last field of a
step is what the script does when the step comes out badly: raise, return as blocked, go
to the cleanup, only report.

`DeviceRun` interprets them. `main` is the asyncio task: `body`, `waiting` for an attempt,
`closing` the session, `releasing` the Runtime, `joining` the worker, `ended`. `worker`
runs the jobs of `queue`: an attempt sends its batch to the loop (`SendBatch`), listens for
it (`listening`) and may give up after 90 seconds (`GiveUp`) while `batch` goes on.
The scripts of one thread (`Direct`) have `main` itself as the worker. `Cancel` is Ctrl-C at
each await, with the fallbacks for `BaseException` that swallow it. `current` says that
main's revision is the Runtime's, `doubt` that an attempt or a cheap check came back bad
and nothing since showed the expected screen, `unaudited` that main went on from a cheap
check alone. `persisted` is the status in the report file. What the screens show is left
out: each judgement is a choice.

### `LearnedReuse`, `Advice`, `Selection` and `MCDecisions`

`LearnedReuse` is a state machine over the episodes of one skill version: they are
recorded, rebound under the token that is active, turned into statistics of a macro and
of a path, and reused, while the registry takes tokens back and issues new ones between
any two of these.

`Advice` and `Selection` are operators, each followed by what it promises: `Advice` has
the signals behind `shadow_recommend()`, the live gate, a teaching's influence and the
promotion gates; `Selection` has `plan_dag()` (Kahn's order and the greedy waves, against
"every action behind its dependencies"), `arbitrate()` (against all orders of arrival) and
retrieval (against the set of what may be shown and reached). Confidences are tenths,
a latency is a number of ticks, text is the number of words it shares with a query.

A sort is the list whose members stand where the number of those before them says
(`Sorted`), the latency behind nine tenths the least one that enough others do not exceed
(`P90`). A loop is a recursive function of the number of its turns, whose step is an
operator of its own: `KahnOrder` takes the smallest of what is `Open`, `Wave` passes once
over what remains, `Waves` makes the `NextWave` until nothing remains, `Expand` takes one
node of the queue (`Walk`) until the queue or the budget is spent. As a number of turns
that suffices, the lists have their own length, the walk the number of items.

`MCDecisions` asks them: an initial state holds one question, of the sets listed there,
or the beginning of a history of `LearnedReuse`.

## 4. Runs

| Run | Shows | Bounds |
| --- | --- | --- |
| `runtime_gate` | `OneBatchPerRevision`: a revision admits a second batch only behind a cancelled one. `ReportMatchesDevice`: the error's `completed_actions` and effect are what the device was sent. `NothingAfterClose`, `InCallOrder`. `ImplementsGate`: `NativeRuntime` refines `RevisionGate`. `EveryCallAnswered`: the lock is always passed on | `FairSpec`, 2 tasks, 4 calls, 1 cancellation, batches of 2 |
| `coordinator_async` | `OneOwner`, `LedgerHonest`, `OneMutationPerRevision`, `BatchStopsAtEffect`, `EndsAreFinal` over `run_async` and `run_batch` | 2 calls, batches of 2, 2 coordinators, 2 names, 2 revisions, 1 cancellation, 1 crash or close; operations of others without bound |
| `coordinator_deadlines` | a violation of `DeadlineReleases`, section 7 | `FairSpec`, 1 call, 1 coordinator |
| `journal_durability` | `Durable`, `FileInOrder`, `NumbersAdvance`: what `emit()` acknowledged survives, but for one event behind each raised `close()` that cut a line. `MemoryInFile`, `ProjectionsGrow`: the projections agree with the file and never lose what was acknowledged, with the same exception | 4 events, 3 failing calls, 2 crashes, any number of reopenings |
| `torn_line_costs` | a violation of `TornLosesOnlyUnwritten`, section 7 | 3 events, 2 failing calls |
| `skill_authority` | `OneExecutable`, `NeverAgain`: the authority of a version, also inside `activate()`. `Sanctioned`: an attestation carries at most one run, of exactly what it attests. `PurgeIsFinal`: no approval is used behind the purge of its version | 2 threads, 2 versions, 2 mutations, 2 attestations, 2 runs |
| `run_session` | `ClosedIsComplete`: a session that says it is closed has journaled its completion. `EvidenceKept`: an attempt that returned is journaled, and until `hook_errors` is full no evidence about it is missing without an entry of its own. `TraceKept`, `TraceOnce`: the drain neither skips nor repeats a record | 2 attempts, 4 records in a trace of 2, a watermark of 3, 2 hook errors, 3 faults |
| `transport` | `EveryResourceOwned`: what is held is tracked, or being acquired by the call with the lock, but for what a cancellation at one of three awaits leaks. `NothingHeldWhenClosed` | 2 tasks, 5 calls, 2 cancellations; failures and deaths without bound |
| `teaching_store` | `LearnedWasCleared`, `AnsweredByItsTeaching`, `LearnedIsFinal`: checks made on a log that others append to; only a review and a learning that cross undo each other. `TearsCostOneLine` | 2 handlers, 2 curators, 1 question, 2 teachings, 2 curations, 1 unreadable line, 1 abort, 1 tear |
| `device_run` | `OnlyHomeInDoubt`: a mutation only under a revision observed since the last batch ended, not on the word of a cheap check alone, and while something is in doubt only back home (the R4 matrix excepted). `EndsQuiet`, `CompletedMeansClean`, `ProbesAreRefused` | all 13 runs, 2 rounds of each loop, 2 cancellations; failures without bound |
| `decisions` | `ReuseEarned`: reuse under the authority that holds. `LiveKeepsFloor`, `PlansSound`, `ArbitrationsSound`, `RetrievalsSound`: each operator against its reference | 3 episodes, 2 revisions, 2 tokens; every question of `MCDecisions` |
| `failure_poisons_trust` | a violation of `FailurePoisonsTrust`, section 7 | 2 episodes |

Why the bounds are enough: two tasks give every pair of operations in every order, and four
calls let a revision be made, its batch be cancelled, the revision be used again, and a
close come on top; a batch of two has a first and a last action. Two calls share a lane
after a `close()` in every way two can; a third let in by the release of the first is
covered by the theorem. One crash or close is enough since recovery is idempotent
(`EndsAreFinal`) and a second would meet the same states. `run()` differs from `run_batch()`
of one in nothing the properties see, and the theorems cover it. Four events are a line, one
torn by a failure, the record of its recovery, and one behind it, with a crash that tears
the recovery as well; or one that a `close()` cuts, the one glued to it, and what a reopened
journal puts in its place. Two versions are the older and the newer of an activation, two
threads and two attestations race for one approval in every order and let a second,
unfitting one be tried. Four records overflow a trace of two in the middle of a drain and
the watermark of three behind it; three faults are the two hooks of an attempt, which fill
`hook_errors`, and one that pushes the oldest entry out, or one in a call and two in the
calls that repeat it. In the transport, one call connects while another waits to close, or
the other way round, with three calls to set the scene. Two teachings about one question are
what two handlers race for, and two curations are a promotion, which reviews and then
learns, and a review by the other curator that crosses it. Two rounds of a script's loop are
a round behind a good one and behind a bad one; two cancellations are one in the body and
one in the finally clause. The questions have the values at each comparison's boundary and
on both sides of it; three nodes, events or items give every graph with a cycle, a chain, a
diamond's half and every tie. The evidence for a promotion is of the operation and the class
that the policy names, or of others, and with a human gate or without one. All symmetric
sets are only compared for equality; the runs with liveness use no symmetry. What the bounds
cannot show, the theorems of section 6 do.

`TypeOK` of `NativeRuntime`, `Coordinator`, `Journal`, `SkillRegistry` and `Transport`, and
that of `RunSession`, `TeachingStore` and `LearnedReuse` in their proof modules, is proved
for every instance, and therefore not run.

Deadlock is not checked: calls, attempts, faults and steps are counted, or a script comes to
its end, and when all are made the system has nothing left to do.

## 5. Fairness

`NativeRuntime`'s `FairSpec` has weak fairness of `Operate(c)`, what a task does when it
gets the lock: the event loop runs what is ready and asyncio's lock is FIFO. It has none
of `Resume`: a primitive that never returns is possible, since the Runtime awaits WDA
without a time limit. `EveryCallAnswered` therefore has a premise, that no call stays
inside for ever, and shows that then nothing else blocks: no end of an operation, by
answer, failure or cancellation, forgets to pass the lock on. Requests and cancellations
are not fair.

`Coordinator`'s `FairSpec` does not assume that the device answers, a batch or anybody's
observation. It has weak fairness of the loop's own steps (`Proceed`), of the passage of
time up to a call's deadline (`Time`), and of `wait_for`'s timer (`Interrupt` once the
deadline has passed), and strong fairness of the shielded `invalidate()`
(`RunInvalidate`): the lock is FIFO, so whoever waits gets it if it is released again and
again. It is as strong as the code allows, so that the counterexample of section 7 cannot
be laid to it.

## 6. Proofs

`NativeRuntime_proofs` proves, for any set of tasks, any batch size and any number of
calls and cancellations, `TypeOK`, `OneBatchPerRevision`, `ReportMatchesDevice`,
`NothingAfterClose`, `InCallOrder` and `ImplementsGate`.
The assumptions are those on the constants (`FreeAssumption`: no task is called `Free`;
`BatchAssumption`, `BoundAssumption`: the numbers are natural).

The inductive invariant `IInv` is needed since none of the properties is inductive. It
adds to `TypeOK` and the two invariants: `LockInv` (a task is inside an operation exactly
if it holds the lock), `CallInv` (calls are numbered apart, the holder's before those
waiting), `AdmittedInv` (a batch at an await was admitted under the revision that is
still current: nothing can change it while the lock is held), `ClosedInv` (once closed,
nobody but close() is inside), `SentInv` (actions sent under the current revision belong
to the batch that runs or to a cancelled one; no call that waits has sent anything) and
`ReportInv` (the running batch has sent its first actions, in order). Each is shown to
be kept action by action; a temporal step then combines `Init => IInv`, the step and
`IInv => property`. The refinement needs one fact more, `SpentInv`: a batch at
the device acts under the current revision only, and is none of the cancelled ones. With
`SentInv`, the abstract `Enter` finds its key unspent, and `TearOut` returns exactly that.

`Coordinator_proofs` proves every safety property of `Coordinator`, for any number of
coordinators, calls, names, specs in a batch, observations, cancellations, closes and
crashes: `TypeOK`, `OneOwner`, `LedgerHonest`, `OneMutationPerRevision`,
`BatchStopsAtEffect` and `EndsAreFinal`. The assumptions are those on the constants:
`FormsAssumption` (only `run_batch` has more than one spec), `NamesAssumption` (`Free` is
no owner, `Nobody` no call) and `BoundsAssumption` (the bounds are natural numbers).

Its inductive invariant adds `LoopInv` (a call has the event loop except at its awaits),
`EvictedInv` (a `close()` therefore catches only asynchronous calls that await the
Runtime, and catches all of its coordinator), `LeaseInv` (the name of a call in the lane
holds the lease and is listed once, unless a `close()` undermined that name), `RowInv`
(the rows of a call follow its progress: none ahead, the intent at its step, and behind
it ends a batch may go on from) and `CurrentInv` (an attempt under the current revision
is with the device, or its invalidation is still queued, or was not waited for). The
argument for `OneMutationPerRevision` goes through `OneOwner`: a call that is about to
touch the device and one whose invalidation is still queued are both in the lane.
`RowInv` gives `BatchStopsAtEffect`, and, as a write finds a row without an end or a
closed ledger, `EndsAreFinal`.

`Journal_proofs` proves, for any number of events, failing calls, raised `close()` calls and
crashes, `TypeOK`, `Durable`, `FileInOrder`, `MemoryInFile`, `NumbersAdvance` and
`ProjectionsGrow`. The only assumption is `BoundAssumption`.

What is inductive is a statement about the file followed by the buffer (`Whole`), the
text that is there or may still get there. `TInv` types it, bounds its numbers by the
number of calls, and says that only an open file object holds something back. `OrderInv`
says that the numbers in this text do not fall, torn lines included (`Ordered`); that a
number is at most one above that of a record which can be read before it (`Supported`);
and, for an open journal, that no number is above `seq + 1` and that the text ends with a
line unless a `close()` has cut it (`OpenInv`). `Supported` is what makes a restart safe:
`LastNumber` looks only at lines that can be read, and the number it gives out next is
still not below that of any torn line, since an event that was not acknowledged does not
advance `seq`. A glued event breaks just this: its number was given out and supports no
record, so `Supported` holds until an event is glued, and `Ordered` until a reopened
journal has forgotten one (`Lost`) and numbers on from below it. `GlueInv` says that a glued
event stays where it is and unread, and that no later call makes the same event.
`KeepInv` is `Durable`, `MemoryInFile` and that an object remembers every acknowledged
event but the glued ones, and none above `seq` (`Remembers`), from which `NumbersAdvance`
and `ProjectionsGrow` follow. A step appends whole lines or a prefix of them, or cuts the
file behind `synced`; the lemmas say what each does to the records.

`SkillRegistry_proofs` proves, for any number of versions, threads, mutations,
attestations and runs, `TypeOK`, `OneExecutable`, `NeverAgain`, `Sanctioned` and
`PurgeIsFinal`, from `VersionAssumption`, `BoundAssumption` and `NoneAssumption` (no
evidence is called `None`). `LifeInv` adds that a version whose authority has ended is
invalidated or about to be, and that while `activate()` is at work no newer version is
live. `EvidenceInv` is the path of an attestation: it is issued, in the hands of one
minter, or granted, never two of these. `RunInv` says that a call that is cleared, or
ran, has used up an approval of its own (`Covered`). `PurgeInv` is why `is_executable` may
be asked outside the lock: when the version of a checked call has been purged, its
approval, which was granted before it was checked, is out of the map.

`RunSession_proofs` proves, for any length of the trace, any watermark and any number of
attempts, operations and faults, `ClosedIsComplete`, `EvidenceKept`, `TraceKept` and
`TraceOnce`, from `KeepAssumption` (the trace keeps at least one record) and
`HookErrorsAssumption` (`hook_errors` keeps at least one entry). `TypeOK` there lists what a
call may have left to do (`StepLists`), so that the step a call is at settles the ones
behind it. `ClosedInv` and `EvidenceInv` say what is on disk when a call has come to a step:
behind the completion, behind the episode, behind the learning event, behind the attempt.
They are kept since the file only grows (`Growing`). `EvidenceInv` excuses what is missing
by a hook that raised for this attempt; `ErrorsInv` says that there are no fewer entries for
a hook than attempts it raised for, as long as the list is not full, so that counting takes
the place of the attempt that the entries do not name. `SeenInv` says that a record which is
marked has been journaled or its append has raised; `TraceKept` is its part about the
records that were swept. `TraceOnce` is not inductive, since nothing in it keeps a record
out of the file that is in it already. `OnceInv` adds, for as long as the watermark has not
been cleared, that the file holds marked records only, that the deque and the batch of a
drain rise, and that what is marked is closed downwards in the batch, and what is marked or
in the batch is in the deque: the next record that is not marked is above all that are in
the file.

`Transport_proofs` proves `EveryResourceOwned` and `NothingHeldWhenClosed`, for any number
of tasks, calls and cancellations, pinned to a device or not, with a runner to launch or
not; no assumption on the constants is needed. Its inductive invariant is
`TypeOK` with `LockInv` (one task is at an await inside), `StageInv` (no tunnel is tracked
at the awaits before it is opened, and no runner before it is launched or behind its
end), `OwnInv` and `ClosedInv` (when it is closed and nobody came late, nothing is tracked
and nobody is inside). `LockInv` is what makes ownership meaningful: it is the one call
inside whose `link` may hold a tunnel that is not tracked yet.

`DeviceRun_proofs` proves `EndsQuiet`, `OnlyHomeInDoubt`, `ProbesAreRefused` and
`CompletedMeansClean` for any set of the scripts, any number of rounds of their loops and
any number of cancellations, from `RoundsAssumption` (a loop has at least one round) and
`ScriptsAssumption` (the scripts that run are scripts of `DeviceScripts`).

`EndsQuiet` follows main on its way out (`IInv`): in its body no job is under way
(`BodyInv`), behind the close of the session the worker has nothing left to do
(`ReleaseInv`), behind the close of the Runtime no batch runs (`JoinInv`). It does not look
at the steps, so it would hold for a script that is not in `DeviceScripts`.

The others hang on the steps, and the steps left change as a run goes: it retries an
observation, skips to a mark, jumps to the cleanup, falls back to the home screen. The proof
splits what the scripts are from what a run does with them:

* A discipline is a set of steps that need a condition, of steps that restore it and of
  steps that spoil it. There are five: the revision is current (`Fresh`), no cheap check is
  left without an observation (`Audited`), nothing is in doubt for an attempt (`Sure`) or
  at the end (`Settles`), the revision has been forgotten (`Forgotten`). A list of steps is
  firm for a discipline when each step that needs the condition has it whatever held at
  the start, and apt when it has it if it held there. `ScriptsOrderly` proves of every
  script that it is firm or apt, as each discipline asks (`Orderly`). Scripts with loops
  are taken place by place: the step before a step is the one before it in the loop, or
  the last one of the round before (`Turns`). The R4 matrix is taken cell by cell.
* `ScriptInv` says of the steps left that they are apt, and firm unless the condition
  holds now. The lemmas say that this survives doing the first step (`Advances`), putting
  an observation in its place (`Replaces`), going on from a later one (`JumpsOn`) and
  the fallback (`FallsBack`); there is one more for each group of main's actions. What
  main does next it needs now (`NeedsNow`), hence `OnlyHomeInDoubt` and
  `ProbesAreRefused`.
* `OutInv` says which jobs the worker can have and what the session, the status and the
  report say at each stage of the way out. "completed" is set by a body that has done all
  its steps, and behind the last of them stands a step that needs what `Audited` and
  `Settles` are about. That the file does not say it before the session has closed is
  `CompletedInv`.

`Knowledge_proofs` has what is proved of `TeachingStore`, `LearnedReuse`, `Advice` and
`Selection`.

Of `TeachingStore` it proves, for any handlers, curators, questions, teachings, aborts and
torn writes, `TypeOK`, `TearsCostOneLine`, `AnsweredByItsTeaching`, `LearnedWasCleared` and
`LearnedIsFinal`. An operation decides on a log that others append to before its own line is
written. The argument is that a line which is still to be written excludes the lines that
would contradict it, or crosses one of them. `NumberedInv` and `SubmittedInv` say that a
teaching which is about to be submitted has no line yet, and that each is submitted once,
before anything else is written about it; `CuratorInv` that only curators have reviews and
marks to write; `ReviewedInv` that nothing is submitted behind its learning, and that a
review behind it, or about to be, crossed it. With these, what a projection of the log
showed when an operation looked is what it shows when its line arrives: `ClearedInv` (what
is learned, or about to be, was cleared by its last review, or crossed it) and `BackedInv`
(an answer has its submission in the log, was spoilt, or comes right behind it in the same
operation) are inductive. `TearsCostOneLine` needs only `TornInv`: what was acknowledged
and is not in the log can be counted against the tears.

Of `LearnedReuse`, `ReuseEarned` for any revisions and any number of episodes and tokens.
The log only grows, so what is known of its positions stays known: `BoundInv`
(what is bound is of the skill), `StatsInv` (statistics that are trusted rest on episodes
without effect, of two revisions) and `ReusedInv`, the property. That a token is still
the active one at the use is settled in the step that reuses, which compares them.

The promises of `Advice` and `Selection` are proved for all their inputs, of any size and any
numbers: `AdviceSound`, `ArbitrationIsSound`, `RetrievalIsSound`, `ExpansionIsSound` and
`PlanIsSound`. The invariants of the run (`LiveKeepsFloor`, `ArbitrationsSound`,
`RetrievalsSound`, `PlansSound`) follow, as the question does not change. The hypotheses are
the types: numbers are natural, ids are numbers, a store is finite, and events have ids of
their own, as arrival assigns them.

* The advice: each gate is monotone in the fields that a teaching lowers or sets, and the
  confidence, which a cap can only lower, is compared with constants. The latency behind
  nine tenths of a list exists and is one of its members.
* A sort: in a strict total order on a finite set, the number of those before a member is
  different for each and below the size of the set, so each place has its one member. Two
  lists with the same members and the same places are therefore the same list, which is
  why a verdict does not hang on the order of arrival: by the tie-break on ids, `Before` is
  total on the events, not on their places in the list.
* The walk: each node that was found has a label, the distance at which it was found. The
  invariant (`Explored`) says that the queue is in the order of the labels and spans two of
  them at most (`Levels`), so nothing is found late; and that, while the budget lasts, a
  seen node is in the queue, at the rim, or all it leads to is seen, no further than one
  step behind it (`Complete`). At the end what was seen is what `Within` has. The length of
  the queue less what was found falls with each turn, so the turns suffice.
* The plan: an order that stops short leaves nodes none of which is open, a cycle; one that
  does not puts each behind what it depends on (`Topological`), which no cycle allows. The
  first of what remains has all its dependencies done and joins any empty wave, so each
  turn makes a wave (`NextWaveLayers`), and the number of done nodes bounds the turns. It
  follows that the code's way out for an empty wave (`adaptive/dag.py`, lines 75-78) is
  never taken.

These loops are recursive functions. That one of them is what its definition says, turn by
turn, is proved from the set of numbers of turns for which a function with that property
exists (`CountUp`, `Folded`, `Repeated`), which takes the place of the library's induction.

Only model-checked: the liveness of the Runtime (`EveryCallAnswered`), which is out of the
prover's reach, and the three violations of section 7.

## 7. Where the code and its documentation differ

Three runs each check what the repository says, and TLC finds it violated.

`DeadlineReleases` (run `coordinator_deadlines`): the plan of record
(`docs/evidence/20260906_r6-r7-plan-freeze.md`, lines 104 and 95) has a lease released on
"deadline expiry" and asks for "no orphan lease on cancel/expire paths". Behind a deadline
`run_async()` first awaits the shielded `invalidate()` (`agent/coordinator.py`, line 691),
which queues for `_op_lock` behind whoever observes or recovers, without a limit
(`ios_runtime/runtime.py`, lines 206, 272 and 279). If the device does not answer them, the
call never ends and keeps its lease.

`TornLosesOnlyUnwritten` (run `torn_line_costs`): `telemetry/journal.py`, lines 43-45: "a
torn final record can only ever lose the event being written". A `close()` that raises drops
its file object, possibly in the middle of a line (lines 635-636), but the journal stays
open and owes no newline; the next `emit()` appends to that line, syncs it and returns, and
the event cannot be read. A reopened journal gives its number to another event. `Durable`
and the properties beside it show that this is all that is lost: the first event behind a
raised `close()`.

`FailurePoisonsTrust` (run `failure_poisons_trust`): `adaptive/experience_bridge.py`, lines
187-188, says of the episodes handed to learning "Retained failure/partial/unknown
evidence: passed through so it poisons reuse trust, never filtered into success." The
statistics (`adaptive/learning.py`, lines 82 and 173) look at the effect alone: an attempt
that the Runtime refused has effect NONE, and two of them at different revisions, with no
success beside them, make a macro and a path trusted.

Also noticed, without a run of their own.

Runtime and coordinator:

* `ios_runtime/runtime.py`, lines 15-16: "Any attempted mutation invalidates the accepted
  revision whether the batch succeeds or fails." A batch cancelled at the device leaves
  its revision current. `run_async` repairs this with an `invalidate()`; a caller already
  waiting for the lock runs before that.
* Lines 26-28 call `close()` an "idempotent teardown"; one cancelled in the teardown is
  not resumed by the next.
* `agent/coordinator.py`, line 123: "One trusted mutation owner per device (single-lane
  mutation)." `close()` releases the leases of calls that still await the Runtime.
  `OneOwner` is what remains true.
* Lines 662-664: behind the dispatch "the Runtime revision is invalidated before the lease
  is released". A second cancellation, while the call awaits the shielded invalidation,
  releases the lease first.
* The execution of a call whose guard fails behind the intent stays `running`, and an
  ambiguous one ends `unknown`, which is no terminal state of an execution (lines 30-36).

Journal and session:

* An event whose `fsync` failed is in the journal's file but not in the summary of a clean
  close, which lines 49-51 call recomputable from the journal. A torn tail that lacks only
  its newline gets it from the next append, and the next scan reads it as a record (lines
  46-48 have it skipped).
* `session.py`, lines 493-495: a failed close "remains retryable without duplicating"
  `run.completed`. It is in the file twice when its append failed behind the write and
  `close()` is called again; `ClosedIsComplete` asks for one only.
* `skill/executor.py`, line 146: "any failure is retained in hook_errors". The list keeps 32
  entries; from then on each deletes the oldest, and what a hook did not record is lost
  without a trace. `EvidenceKept` therefore speaks of a list that is not full.
* Clearing the full watermark journals records again that are still in the deque. A
  `start()` that raises leaves its journal open. `execute_skill()` does not ask whether the
  session is closed.

Transport:

* A runner task that has ended stays tracked until `recreate()`. A cancellation while a loop
  closes the pairing services that were not chosen leaks the rest of them, in
  `_acquire_provider()` (`wifi_tunnel.py`, lines 176-182) as in the discovery
  (`discovery.py`, lines 185-187), and one while a runner is awaited is swallowed: the
  exceptions of `EveryResourceOwned` (`cut`).
* A `connect()` that waits for the lock behind `close()` rebuilds the plumbing
  (`straggled`).
* Without a udid, the device that is selected and the device whose tunnel is opened are
  looked up one after the other (`transport.py`, lines 539-545).

Teaching and learning:

* Two curators can review and learn at once: the review appended last un-learns what
  `teaching.py`, line 190, calls terminal, and a learning appended last stands beside a
  conflict. `LearnedIsFinal` and `LearnedWasCleared` show that nothing else does
  (`crossed`). Two handlers can both answer one question, also behind its learning.
* Text with U+2028 or U+0085 is written in one line and read back as two, so an
  acknowledged teaching is never seen (`spoilt`). If one of the fragments is JSON but no
  object, a number for instance, `load()` raises from then on (lines 260-263), and nothing
  can be answered, reviewed or learned any more. A line behind a torn one is lost with it.
  `ExperienceStore.record` and `LearningCycleStore.record` append in the same way.
* A recommendation whose budget fallback is set (`adaptive/fallback.py`, line 21: "True =>
  disable optimization for this kind") can still be authorized. A teaching can loosen a
  malformed request: it turns a batch limit of 40, which is refused, into 8. That a teaching
  only tightens is therefore said of well-formed requests. Of causes the gate asks nothing
  when there is no causal context.
* `rerank()` may return a candidate twice. `InterruptEvent.safe_boundary_only` has no effect.
* `LearningCycleV1.run_single` loses the episode of a mutation that happened when the
  observation, the validation or the shadow snapshot behind it raises.

Device runs:

* `except BaseException` around the cheap check (`phasec_foreground_validator_probe.py`, line
  181; `phasec_launch_application_canary.py`, line 471) swallows a cancellation, and the
  script goes on.
* A batch outlives the 90 (or 30) seconds its caller waits, and `runtime.close()` then waits
  for it without a limit. `EndsQuiet` holds because it waits.
* `live_applied` stays set when journaling behind the authorization raises (limited canary,
  lines 412 and 474-495): the policy event says live for what fell back.
* Setting up a session before the `try` leaks it when it raises; a cancellation while the
  close is queued withdraws the close.
* The route and board probes only report that another application is in front, and tap all
  the same. The cleanup behind the launch canary's fallback is not judged. The R4 matrix
  goes on behind a failed typing. `r10_domain_workflow.py` may report PASS with
  `runtime_closed` false.

## 8. Not modelled

Formats and wording; the accessibility XML, screenshots, image analysis of the board probe
and the pixel geometry; the deletion of old ledger rows and the migration of old schemas;
the read-only operations (`status`, `inspect`, `snapshot`); the sanitising of journal
fields; the HTTP of the transport's primitives. Process isolation of the skill sandbox
belongs to the operating system. Needs, reuse of procedures, the gates of a skill
candidate, knowledge hygiene, `retrieval/reconcile.py` and `agent/reasoning.py` are pure
functions of a few fields, which a unit test covers. The decay of `retrieval/feedback.py` is
arithmetic with a real exponent. The recovery planner is a filter with a set of tried
pairs, and the summary and reports are counts over a finished journal. Contract models,
domain contracts, visual hooks, the MCP server and the offline scripts keep no state of
their own. The monitor's projections and the learning cycle are planned (section 2), as
is the coordinator over the real Runtime.
