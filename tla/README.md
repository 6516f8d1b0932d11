# weaveIntel in TLA+

A verification project for the weaveIntel monorepo (`src/packages/*`): TLA+ modules
translated from the TypeScript source, TLC runs on small instances, and proofs checked by
TLAPS for every instance. `PROJECT.json` maps each definition to the lines it models.

weaveIntel is a framework for AI agents: model providers, tools, memory and user interfaces
around a small number of stateful engines. Most packages translate data or call external
services. The logic that is hard to test is in the engines that outlive one call, and the
project models these: the resilience pipeline every outgoing call goes through, the workflow
engine with its durable stores, the loop of a tool-calling agent, the heartbeat of live agents,
the collaborative documents, and in the client the offline outbox and the run session with its
event stream.

## 1. Inventory

| component | state | operations | what is hard | correct when |
|---|---|---|---|---|
| `resilience`: circuit breaker | state, consecutive failures, openedAt | canPass, recordSuccess, recordFailure, reset, state | outcomes of calls admitted earlier arrive late and in any order | count, state and cooldown agree; an open circuit is probed in the end |
| `resilience`: concurrency limiter | active, waiters | acquire, release | hand-over of a slot, a queue at its limit | slots are neither lost nor doubled; nobody is overtaken |
| `resilience`: token bucket | tokens, pausedUntil | tryAcquire, acquire, pauseFor, refill | several sleepers, pauses of different lengths | the rate holds in every window; no grant inside a Retry-After |
| `resilience`: pipeline | the local state of each caller | runOnce, executeWithRetry | seven exits around one `finally`; a timeout racing a late answer; retries | every exit gives its slot back; every call settles |
| `resilience`: durable helpers | keyed records | dead letters, idempotency, endpoint registry | records read before an await and written after it | nothing undone by a stale write |
| `workflows`: runs | run rows, run queue, sleep records, threads | startRun, drainQueue, executeRun, resumeRun, cancelRun, scheduler tick | callers that each work on a clone of the row | no run is lost or left behind as running; one executor |
| `workflows`: execution | run, row, checkpoint, locks, idempotency records | the step loop, retries, fallback, boundary, compensation, pause, recoverRun, tickRun | a crash between any two of four stores | no step skipped, or repeated beyond the one that was cut off and those whose checkpoints were passed over; failed runs unwound; waits hold |
| `workflows`: administration | run rows | force-cancel, force-resume, patch | whole rows read and saved beside the engine | the engine's invariants survive |
| `agents`: tool loop | conversation, counters, tool calls under way, checkpoint | run, runStream, executeToolCall, terminal checks, resumeFromCheckpoint, delegate | parallel calls, a handoff among them, compression, a crash between checkpoints | the model gets a well-formed conversation; the loop ends; denied text does not complete |
| `live-agents`, runtime | heartbeat ticks with leases and locks, agents | plan, save, claim, process, complete | a lease that runs out during the work, batches, a failing worker | a tick is acted on no more often than its leases and locks allow; every tick ends |
| `human-tasks` | task rows | claim, decide, escalate | two assignees | a task has one owner |
| `cache` | two tiers, flights in progress | get, set, delete, run | back-fill after a delete | no deleted value comes back for long |
| `client`: outbox | items and dead letters in a storage | enqueue, flush, clear | overlapping flushes, lost answers, a closed page | nothing lost; attempts bounded; it empties |
| `client`: run session | status, view, stream, cursor | start, regenerate, resume, stop, reset, dispose, reconnect | answers that come late, fail or never come; subscribers that throw; a storage that rejects | the view is the journal without a gap; no stream is left behind; the cursor matches the status; a session settles |
| `core`: run journal | capped list of events per run | append, readAfter | a reader slower than the cap | a gap is refused, never served |
| `collab` | RGA and block documents, operation logs, state vectors | insert, delete, set attribute, apply, opsSince, snapshot | operations reordered and repeated, a replica made from a snapshot | replicas converge |
| `triggers` | triggers, rate windows | dispatch | many events at a limit | no event above the limit |
| `cost-governor` | budget | reserve, settle | concurrent spending | the budget holds |
| all other packages | rows or none | data conversion, external calls | (I/O) | see the reasons in `PROJECT.json` |

How they interact. Providers and tools call `createResilientCallable`, whose callers share the
state of one endpoint. The workflow engine calls handlers (often through that pipeline) and
writes the run repository, the checkpoint store, the step locks and the idempotency store, each
behind an await of its own. The sleep scheduler and callers of `resumeRun`/`cancelRun` meet the
engine only through the repository, which hands out clones. Live-agent workers meet through the
state store, in memory or in Redis. The run session of a client reads the journal of a run through
connections that drop, and keeps a cursor in the page's storage; the outbox uses the same storage.
Replicas of a document exchange operations or state vectors. Each process is one JavaScript
thread: code between two awaits is atomic, and everything else interleaves.

## 2. Plan

1. (done) `Ticks`, `CircuitBreaker`, `ConcurrencyLimiter`, `TokenBucket`, composed by
   `ResilientCall`; abstract specification `FifoSemaphore`; `ResilienceAudit` adds the history
   its timing promises need; `ResilientCallProofs`.
2. (done) `WorkflowRuns`, many runs seen from outside, and `WorkflowRunsProofs`.
3. (done) `WorkflowExecution`, one run seen from inside, with crashes.
4. (done) `Conversation` and `AgentLoop`; `Heartbeat`; `CoeditReplicas`; `Outbox`; `RunSession`.
5. (done) Proofs: `OutboxProofs`, `AgentLoopProofs`, `HeartbeatProofs`, `WorkflowExecutionProofs`,
   `RunSessionProofs`, `CoeditReplicasProofs`.
6. (models, later) The admin overrides as further actors of `WorkflowRuns`, dynamic expansion in
   `WorkflowExecution`, the bulkhead as a second implementation of `FifoSemaphore`; claims of human
   tasks; cache tiers and singleflight; the durable helpers of resilience; triggers.

## 3. The modules and the code

### Resilience pipeline (`packages/resilience/src`)

Time is counted in ticks (`Ticks`): a timer holds the ticks it has left and `Tick` counts all of
them down. That stands for the comparisons with `Date.now()`.

* `CircuitBreaker` - `circuit`, `failures`, `cooldownLeft`; one operator per method of
  `circuit-breaker.ts`. The lazy transition to half-open (`maybeTransitionToHalfOpen`, which every
  reader triggers) is `CircuitNow`.
* `ConcurrencyLimiter` - `active` and `waiters`; `TakeSlot`, `JoinQueue`, `QueueFull`,
  `ReleaseSlot` are the branches of `acquire` and `release` in `concurrency.ts`.
* `TokenBucket` - tokens in parts (`TokenUnit` parts are one token, so that refill is fractional
  as in the code), and the pause a Retry-After sets.
* `ResilientCall` - the callers of one endpoint. `pc[c]` is the await a caller is suspended at. Each
  action is the code from one await of `runOnce`/`executeWithRetry` to the next, including the
  release in the `finally`. `Dispose` is the decision of the retry policy. A call that timed out keeps
  running as one of `orphans`, and `fn` may succeed, fail in any class or never settle.
* `FifoSemaphore` - the abstract specification: at most `Slots` holders, served in order.
* `ResilienceAudit` - history variables over `ResilientCall`: the longest Retry-After still open and
  the token parts granted. They constrain nothing.

Left out: signals, metrics, latency samples, and the wording of errors.

### Runs of a workflow definition (`engine.ts`, `run-queue.ts`, `run-repository.ts`, `sleep-store.ts`)

`WorkflowRuns` has threads: one per run for its `startRun` or its drain, the ticks of the sleep
scheduler, external callers of `resumeRun`, and callers of `cancelRun`. `repo` is the only thing they
share besides the queue and the sleep records; `obj[t]` is the status of the thread's own clone. An
action is the code between two awaits of a shared store: `CountActive` then `StartRun` or
`SavePending` then `Enqueue`; `Dequeue`, `DrainCheck`, `DrainStart`, `Resave` are the four store
accesses of `drainQueue`; `ResumeRun` then `ResumeSave`; `CancelRead` then `CancelSave`;
`GetDue`, `TickCancel`, then `TickResume` or `TickGivesUp`. What the steps of a workflow do is
abstracted to `Execute`: the thread pauses, completes or fails. `drains` counts the calls of
`drainQueue` that `completeRun`, `failRun` and `cancelRun` have started and that have not dequeued.

Left out: child runs, the rate limiter of starts, the engine's run cache.

### Execution of one run (`engine.ts`, `state.ts`, `compensation.ts`, `engine-runner.ts`)

`WorkflowExecution` takes a definition as constants (`NextStep`, `AltStep` for the other branch,
`OnError`, `Retries`, `Fallback`, ...) and has the run in memory (`run`), its row (`repo`), its
checkpoint that `latest()` returns (`ckpt`), the step locks and the idempotency records. An action ends at the next
write of a durable store, so a `Crash` can fall between any two of them. It forgets everything in
memory, and the row too unless `DurableRepo`. (By default the engine keeps its rows in memory and its
checkpoints in the runtime's store, `engine.ts:95`.) `Recover` is `recoverRun`; `ResumeRun` and
`TickRun` are the other callers; `resumeRun` moves on only if `resolveResumeNextId` names a step
(`ResumeTargets`). `executed` and `undone` record what handlers and compensations did to
the world; the code does not see them. Handlers are external and succeed or fail at will.

A save need not become the checkpoint that recovery finds. `createdAt` has milliseconds and the stores of
`checkpoint-store.ts` compare it strictly (lines 44, 99, 190), so that of two checkpoints of one millisecond
`latest()` returns the one it has seen first; the same happens after the clock was set back. `Save` chooses
between the new state and the old one, `hidden` counts the saves in a row that were passed over, and `lost` those
that were hidden when a crash came. (The database adapters break a tie by id, which orders checkpoints of one
millisecond no better.)

Left out: values of variables, dynamic expansion, ephemeral variables, masking, payload offload,
audit events. `markDone` and the idempotency write are one step, since either suffices for a replay.

### Agent loop (`packages/agents/src/agent.ts`, `context-manager.ts`, `supervisor-runtime.ts`)

`Conversation` is the message list and its compression (groups of an assistant message and its tool
results, and the three strategies), as operators. `AgentLoop` is the loop: `HeadStops` and
`HeadContinues` are the checks and the compression before a model call, `ModelAsksForTools` or
`ModelAnswers` the answer, the `CallStep` actions `executeToolCall` (gates, retries, handoff signal,
the delegate tool), `AllReturned` the results and the checkpoint, and `SchemaRetry`, `VerifyFails`,
`CriticRevises`, `Accepted` and `GuardrailDenies` are `processTerminalResponse` with the differences
between `run` and `runStream`. In parallel mode a call that has begun goes on after the loop has been left. `Crash`
and `ResumeFromCheckpoint` restart with what the checkpoint holds. Answers of models, tools, guardrails and
reviewers are free choices.

Left out: conversation memory, retrieval, the evaluation pipeline, the cost governor, the early return
for required approvals, and the text of messages.

### Heartbeat (`live-agents-runtime/src/heartbeat-supervisor.ts`, `live-agents/src/runtime.ts`, `state-store.ts`, `redis-state-store.ts`)

`Heartbeat` has one supervisor (`PlanTick` then `SaveTick`: the check and the write have an await
between them), workers that claim in one step (`ClaimInMemory`) or by `ListTicks`, `LockTick`, `LookAgain`,
`LeaseLocked` in Redis, and process their claims one after the other (`LoadTick` to `Complete`, `Skip`,
`MissingAgent` or `Fail`). Leases and locks run out at any time, also under a worker that is alive.
`expiries` (leases that ran out), `lockouts` (locks that ran out) and `execs` are history.

Left out: what an action does beyond the backlog item, messages, contracts beyond active or not, and
the other stores.

### Co-editing (`packages/collab/src/rga.ts`, `block-doc.ts`)

`CoeditReplicas` keeps for each site the ordered elements with tombstones, the buffer of operations that
came early, the log, the Lamport counter, the state vector and a last-writer-wins register. `Apply` is
`apply` with `IntegrateAt`, `Drain` and the register's comparison; `OpsSince` and `FromSnapshot` are the
methods of those names. `Iterate` is the loops of `drainBuffer` and `applyMany`: each round takes one
operation that is ready (`DrainOne`), or the next of the batch (`ApplyNext`). Operations reach others by `Deliver`, in any order, or by `Pull`; a joiner
starts by `Join`. The characters typed are their ids.

Left out: rendering, cursors, the wrapper `coedit-doc.ts`, and the reload of a site's own snapshot
(see section 6).

### Outbox (`packages/client/src/outbox.ts`)

`Outbox` has the stored entries, the dead letters and, for each flush under way, its copies of the
entries. `Flush` lists the keys, `ReadItem` reads one, `Send` makes a request, `Succeeds` and `Fails` are its
outcomes (a failed request may have been taken by the server), and `RemoveItem`, `WriteItem`, `DeadLetter`
and `RemoveDead` are one storage operation each. `StorageFails` and `Crash` can fall between any two.
Of a backoff only whether it has elapsed is kept.

### Run session (`packages/client/src/run-session.ts`, `run-client.ts`, `cursor.ts`, `core/src/run-journal.ts`)

`RunSession` has the session, the streams that are attached (the session's own and the ones it has
forgotten), the calls that await an answer, and the journals. Every call with an await is two actions:
`Start` and `StartAttaches`, `StartSettles`, `StartFails` or `StartDisposed`; `Resume` and `ResumeAttaches`
or `ResumeRefused`; `Stop` and `StopReturns`. `New`, `Terminal`, `Drops`, `Closes`, `AccessRevoked` and
`Presence` are what a stream can meet. `TooOld` and `ReadAfter` are `readAfter` of
the journal. The history variable `owner` is the call the session belongs to; `crossed` collects the calls
whose answers met a session that belonged to another, and the properties say what still holds then.

What fails around the session is in the model too:

* The cursor store may reject any call, which the code swallows (`run-session.ts:217`, `:223`, `:312`): `Persist`,
  `Finalize`, `Reset` and `ResumeRefused` have that outcome. `unstored` says that the last call for the session's
  run was rejected.
* A subscriber may throw out of a notification. Out of an event (245) it is taken for a malformed event
  (`ListenerThrows`; the stream goes on). Out of the settlement (230) it skips the abort behind it
  (`TerminalThrows`, `RevokedThrows`): the stream stays attached in phase `done` until its connection `Ends`, and
  meanwhile presence events persist the cursor again (`thrown`). Out of `start` and `resume` (270, 298, 323) it
  rejects the call before there is a stream (`StartThrows`, `StartAttachThrows`, `ResumeThrows`).
* A call may never be answered (`StartHangs`, `StopHangs`), and a connection may neither open nor close (phase
  `hung`, in `BeginAttach` and `Drops`): the token is asked for outside the `try` (`transport.ts:113`) and `fetch` has
  no timeout (`:123`). A session that depends on such a call or connection, or whose `start` or `resume` threw,
  belongs to `Stranded`.

Cursor calls take effect in the order in which they are made, and two `resume` calls of one run that read the
cursor at the same time are one member of `resuming`.

Left out: throttled notifications, the rest of the reducer, AG-UI translation, the control channel,
and the expiry of journal entries.

## 4. Runs

| run | instance | shows |
|---|---|---|
| `resilience` | 4 callers (with and without fail-fast, retries and the circuit), 2 slots, queue of 1, half-token refill, hints 0..2, call timeout | `TypeOK`, `SlotsAccounted`, `WaitersAccounted`, `BreakerConsistent`; the limiter implements `FifoSemaphore`; `RateConforms`, `TokensHonourRetryAfter`; every call settles (`Settles`) and an open circuit can be probed (`CooldownEnds`) |
| `runs_status` | 2 runs, 1 slot, queue, tick, resumer, canceller, failing sleep store | `RunningHasExecutor`, `PendingOwned` |
| `runs_scheduler` | 3 runs, 2 at a time, two timed pauses each, one tick at a time | `SoleExecutor`, `TerminalFinal`, `SleepersWake` |
| `runs_queued` | 2 runs, 1 slot, queue | *violation* of `QueuedRunsStart`: the last drain comes before the enqueue |
| `exec_saga` | 4 steps and a wait, retry, fallback, skip, key, compensations; 2 crashes, up to 2 saves in a row passed over | `CrashRepeats`, `GatesHold`, `SagaUnwound`, `HistoryIsWalk` |
| `exec_cycle` | a loop of 2 steps with locks, durable rows, boundary, fallback, skip, schema, ceiling, `tickRun`; 2 crashes | `RecordedWasExecuted`, `RunsEnd` |
| `exec_gate` | 3 steps and a wait, with locks; 1 crash | *violation* of `GatesHold`: a recovered run walks past its wait |
| `agents` | 2 steps, up to 2 tool calls each; run with parallel or sequential calls and stream with parallel ones, each with another strategy; 1 crash, 1 failed save | `ConversationPaired`, `EffectsRecorded`, `DeniedNotCompleted`, `Returns` |
| `collab` | 3 sites, one from a snapshot; text by broadcast or sync with 4 edits, blocks by broadcast with 3 | `SameOrder`, `BehindOrigin`, `Converged`, `SyncComplete` |
| `heartbeat` | 1 agent, 2 workers claiming 2 ticks at once, both stores; 1 fault, 1 overrun by a live worker | `ExecutionsBounded`, `EndedStays`, `TicksEnd` |
| `outbox` | 2 items, 2 flushes, 2 attempts, 1 fault | `TypeOK`, `NothingLost`, `AttemptsBounded`, `Drains` |
| `session` | 2 runs of 1 event, or 1 run of 3 events with 1 reconnect and 2 faults; a journal of 1 event, 2 streams | `ViewComplete`, `LeakBounded`, `CursorExact`, `Attended`, `SessionSettles` |

Every passing property has a mutant: a plausible wrong version of one action under which TLC finds
the property violated. The mutants stand in the modules beside the actions they replace.

Bounds. Four callers around two slots and a queue of one make two hold, one wait and one be turned away; two
calls in flight are what two Retry-After hints out of order need. (The order of longer queues is left to the
proof of `LimiterRefines`.) Two attempts are a first and a last one. Two runs and one slot make
one run and one wait; the third run of `runs_scheduler` is the one that is turned away. `MaxPauses` lets a
run sleep again after it was woken. Two crashes allow a crash after a recovery.
`MaxTies` is 2 in `exec_saga` and 0 in the other two, whose questions are locks and rows: `WalkSafe` and
`ExecutedSafe` hold for any number. `MaxOrphans` only bounds a counter that nothing else reads. In `agents` a context of four messages is exceeded by the first batch, so
that every strategy compresses, and the second step is also the last. Three sites are needed for two
concurrent inserts to meet a third replica in both orders, and for a joiner to serve another; three
edits contain an insert behind a deleted element. In `heartbeat` the second tick
waits in the queue of its worker while its lease runs down. In `outbox` two flushes overlap, and a third
would add nothing but another copy. The run `session` has two families of behaviours
in one instance (`MCNext`): two runs of one event, a start that is overtaken and one that overtakes, with a slot
for the stream of each; and one run of three events, started when nothing has come of the others, where a
journal of one lets a reader fall behind by more than it retains and two faults put a presence event behind a
settlement that threw. Faults and reconnects are kept for the second family; `MCNext` restricts nothing else. The
proofs hold for all of it together. A user need not call, and a system that has done its work may stop, so
only `resilience` checks deadlock.

Fairness, each a weak fairness of an awaited promise, of a timer or of a polling loop:

* `resilience`: timers fire and continuations run (`Tick`, and each caller's steps that do not wait for
  `fn`); `fn` need never settle, which is why a call timeout is set.
* `runs_scheduler`, `runs_queued`: stores answer, handlers return, the scheduler's interval keeps
  ticking and wake-up times pass; nobody has to start, resume or cancel a run.
* `exec_cycle`: the loop goes on, and somebody calls `recoverRun` or `tickRun` after a crash.
  `RunsEnd` excepts a run that `recoverRun` has handed back unexecuted.
* `agents`: models, tools and reviewers answer, and a crashed agent is resumed.
* `heartbeat`: workers poll, calls return, leases and locks run out. Nothing is assumed of the supervisor.
* `outbox`: backoffs elapse, requests are answered or time out, and `flush` is called again while there
  are items (by the application or at the next online event).
* `session`: runs go on; a call that does not hang is answered or fails; an open
  connection delivers or ends, the stall timeout of the transport seeing to that once the body is open; a
  reconnect timer fires. Nothing is assumed of the user, of the cursor store or of the faults. Calls and
  connections that hang and subscribers that throw are steps of the model that may be taken at any time, and
  `SessionSettles` excepts the sessions they strand, by the name of `Stranded`.

## 5. Proofs

Eight modules of proofs, one for each component. A theorem holds for every value of the
constants that satisfies the named `ASSUME` of the module; the runs above show the same property on one
instance, and TLC has checked every inductive invariant on the instance of its run before it was proved.
In each module a lemma sorts the steps of `Next` into a few kinds, effect lemmas say what a kind does to
the state, and each layer of the invariant is shown to be kept kind by kind.

**`ResilientCallProofs`**, for any callers and options: `TypeCorrect`, `SlotsSafe` (`SlotsAccounted`),
`WaitersSafe` (`WaitersAccounted`), `BreakerSafe`, and `LimiterRefines`, the refinement of
`FifoSemaphore`. The invariant `Inv` joins the slot accounting (`SlotInv`) with facts about the callers'
locals (`LocalsOK`: an attempt is counted while a call is under way, a caller in backoff has attempts
left). The accounting rests on four lemmas, one for each thing that can happen to a slot: kept, taken,
awaited, released. The same lemmas give the semaphore step of each action. About the pipeline with the
history of `ResilienceAudit`: `RateSafe` (`RateConforms`) and `RetryAfterHonoured` (`TokensHonourRetryAfter`). `RateInv` balances the parts granted, the parts left and
the parts refilled; `WindowInv` says that the pause of the bucket covers the longest window still open,
which several overlapping hints make the point of.

**`WorkflowRunsProofs`**, for any finite set of runs and any ticks, resumers and cancellers:
`TypeCorrect`, `NoPendingRunLost` (`PendingOwned`) and `NoRunAbandoned` (`RunningHasExecutor`). Neither
is inductive alone: a thread that saves its copy must be known not to hold a copy that says running
(`CopyFits`), nor to work on a run that is still in the queue (`WorkBegun`, which needs `RowFits`: a row
of a run that has not begun is pending or cancelled and thus cannot be resumed), nor to cancel one
without a row (`CancelSees`).

Two more hold under hypotheses that the code does not enforce, and which the theorems therefore name:

* `OneExecutor` (`SoleExecutor`) under `OneWaker`, one tick or resumer in all, with any cancellers, a queue,
  drains and store faults. Two ticks that overlap, or a caller of `resumeRun` beside a tick, give a run two
  executors (`sleep-store.ts:116`). The invariant: the own thread of a run whose row is paused has left it
  (`Yielded`), and the waker works only on runs that their own threads have left (`Late`).
* `EndedForGood` (`TerminalFinal`) under `Undisturbed`, which adds that no queue is configured and nobody
  cancels. Otherwise the second save of a drained run (`engine.ts:1290`), or a final save over a cancellation
  (1072), changes an ended run. The invariant `RowKept` says that the row agrees with whoever may save it
  next: running while it is executed or closed, paused while it is resumed.

**`WorkflowExecutionProofs`**, for any definition, stores and crashes:

* `WalkSafe` (`HistoryIsWalk`): the run in memory, its row and its checkpoint are each a walk that ends at
  the step they stand at (`Walks`), and a paused run stands at its wait (`AtGate`), so whatever is
  recovered goes on where a walk ends.
* `ExecutedSafe` (`RecordedWasExecuted`): whatever would make a step count as done (histories, locks,
  cached outputs, the result at hand) is backed by an execution (`Backed`, `Succeeded`).
* `GatesSafe` (`GatesHold`) under `~Locking` and without a wait that may be skipped. With locks the
  property is false of the code (run `exec_gate`), and a skipped wait is passed on purpose. The invariant
  counts the waits that are recorded and not the current one, in memory and in the checkpoint (`Held`).
  The proof needs no acyclic definition.
* `SagaSafe` (`SagaUnwound`) under `Unwindable`: an acyclic definition that `maxSteps` does not cut
  short, no cost ceiling, and an error boundary where an output schema can reject. These are the paths
  on which the code fails a run without compensating it (639, 909, 932). The invariant says that what has
  been undone and what is still to be undone make up the reversed history (`Unwinding`).
* `RepeatsSafe` (`CrashRepeats`) for acyclic definitions recovered from checkpoints: the steps that
  have run again, and the ones that a recovery from the present checkpoint would run again, are no more
  than the crashes and the saves that `latest()` has passed over, `lost` and `hidden` (`RepeatInv`, with `Onward`: in an
  acyclic definition nothing behind the current step has run). Nothing is assumed of the times of the
  saves. No step runs again more often than there were crashes. It excepts steps with both an output schema and a fallback, where a rejected output makes the
  fallback run after the handler without any crash.

**`AgentLoopProofs`**, for any strategy, context size, batch and retry policy: `ChatsPaired`
(`ConversationPaired`), `DenialsKept` (`DeniedNotCompleted`), and `EffectsSafe` (`EffectsRecorded`) for a
checkpoint interval of 1, the default of the code (`agent.ts:682`); for longer ones it is false of the
code. `TalkInv` says that messages and checkpoint are well-formed chats (`Chat`) and that the calls under
way belong to the last assistant message; the lemmas on `Conversation` show that each compression strategy
cuts only between groups, which is what keeps a chat one. `Unrecorded` says that all unsaved
effects are of the present step or of steps whose save failed.

**`HeartbeatProofs`**, for any workers, agents, buckets and either store: `ExecutionsSafe`
(`ExecutionsBounded`) and `EndedSafe` (`EndedStays`). An earlier version of the property bounded the
executions of a tick by one more than the leases and locks that ran out. The proof failed, and TLC found
the reason with four workers and two overruns: the unlock in Redis deletes whatever lock is there
(`redis-state-store.ts:547`), so that each lock that runs out under a live worker can let a further worker
into each of the leases. The bound is therefore a product, (1 + leases) * (1 + locks). `LockCount` counts
for a tick the workers between lock and lease against the locks that ran out, `ExecCount` the executions
and the claims that may still execute against both; `Exclusive` says that one worker has a tick as long as
nothing of it has run out.

**`OutboxProofs`**, for any items, flushes, attempts and faults: `TypeCorrect`, `NoItemLost`
(`NothingLost`) and `RequestsBounded` (`AttemptsBounded`). `Fate` ties the place of each flush to what it has
still to write: one that has sent its item has it accepted, one that is burying it has it in the
dead letters. `Counts` ties the requests made to the attempts that are written, at hand, or forgotten by a
fault.

**`RunSessionProofs`**, for any runs, streams, stops, reconnects and faults, any journal and cap:
`LeaksSafe` (`LeakBounded`), `ViewSafe` (`ViewComplete`), `CursorSafe` (`CursorExact`) and `AttendedSafe`
(`Attended`). For the leaks the
fact that is missing is `Waiting`: a session that waits for the answer to its own start has no stream,
so this answer leaves none behind, and any other is counted in `crossed`, once, because its call was still pending. View
and cursor are right while `crossed` is empty, by `Quiet`: the session's stream is the only one, of its
run, and only while it is busy or after a settlement that threw (`OwnStream`); no cursor of a busy run is being read (`OwnCall`); and the view ends
where the stream reads on (`OwnView`), so that the refusal of `readAfter` (`TooOld`) is exactly what makes
the next event the next one of the view. `CursorExact` has two excuses and no more: the store rejected the
last cursor call for the run, which the next event or settlement that is stored makes good, or a settled
run has a stream that outlived its settlement. `Attended` is inductive with the types of the state.

**`CoeditReplicasProofs`**, for any sites, joiners, edits and orders of delivery: `OrderSafe` (`SameOrder`),
`OriginSafe` (`BehindOrigin`), `ConvergenceSafe` (`Converged`), and `SyncSafe` (`SyncComplete`) under
`Supported`, which says that where block documents sync, none is loaded from a snapshot
(`block-doc.ts:330`, see section 6). The run checks `SyncComplete` for text documents.

* The document is characterised without its history. `Nearest`: the origin of an element is the nearest element to
  its left with a lower id. `IntegrateAt` scans for exactly that place (`ScanStops`), so that every insert
  keeps the characterisation (`InsertOrdered`).
* Two such sequences cannot differ in order (`OrderAgrees`): of two elements in different order, the one with
  the greater id can be replaced by its origin (`SwapOrigin`), and the sum of the two counters would
  sink for ever. With the same elements they are equal (`SameSequence`).
* `Fits` ties a replica to the operations `Known` anywhere: what it shows comes from known operations, what it has
  logged shows, its vector and counter are those of its log. `Named` says that ids are unique and that
  operations refer to older ones; it is kept because an edit's id is above all that its author
  has made (`Authored`, `EditIsNew`), and because a joiner's name is new (`JoinerIsNew`).
* After `Apply`, `ApplyMany` and `Drain` nothing that is ready remains buffered (`Settled`; the counted rounds are
  enough). A buffer is empty once everything it refers to has arrived, for its oldest insert would be
  ready (`NothingBuffered`). Hence convergence.
* Sync needs more (`InStep`): the vector of a replica promises only what it shows (`Covers`), and what it shows
  it can serve (`Served`). A joiner knows deletes under names of its own, so `Covers` speaks of effects
  and not of the log.

Induction is used in the form of the least element of a set of numbers (`LeastNat`, from the library's theorem on
well-founded relations), and the values of `Iterate` are shown to exist (`RunExists`) before anything is
said about them.

Assumptions: the named `ASSUME`s of the modules (options are natural numbers of the right sign, sets of
actors that are counted are finite, a definition names its own steps), and the hypotheses named above.

Only model-checked are the liveness properties (`Settles`, `CooldownEnds`, `SleepersWake`, `RunsEnd`, `Returns`,
`TicksEnd`, `Drains`, `SessionSettles`): the prover has no rules for fairness here. Every invariant and every
action property that a passing run checks is stated by a theorem.

## 6. What the models show beside the runs

The models contain these behaviours unless it says otherwise; the properties above are stated so that
they remain true of the code. Lines of `workflows` are those of `engine.ts` unless another file is named.

* More than `maxConcurrentRuns` runs can be active: `startRun` counts before it saves, and a drain does
  not count (310).
* A drained run is saved once more after `executeRun` returned (1290), over whatever happened to it since;
  a run the scheduler has resumed meanwhile goes back to paused without a sleep record. `SleepersWake`
  and `TerminalFinal` are therefore checked for runs that are started directly.
* Overlapping ticks resume a run twice (`sleep-store.ts:116`). `SoleExecutor` is checked with one tick at a time, which is
  what the interval gives while a tick is shorter than its period.
* A sleep record survives an external `resumeRun` and may end a later pause (`sleep-store.ts:28`).
* The final save of an executor overwrites a cancellation (1072).
* `latest()` may return an older checkpoint than the last (`checkpoint-store.ts:44`, `:99`, `:190`). One
  crash then repeats several steps, also on a straight line of steps without any failure, although `recoverRun` is said to
  start "from the latest checkpoint" (1080) and the contract test of the stores takes saves to be further
  apart than 2 ms (`checkpoint-store-contract.ts:11`). `CrashRepeats` counts these saves; sagas, walks and gates
  are not broken by them.
* A crash during compensation is forgotten (882); a recovered run may complete over undone steps.
* The last step runs again when the crash falls between the clearing of the locks (1305) and the final
  save.
* A rejected output at the first attempt fails a run without compensation (909); a rejected retry reaches
  the error boundary as completed (825); the cost ceiling is not compared after a retry or a fallback (822);
  a wait step without a declared `next` pauses again when it is resumed (`engine-runner.ts:9`).
* A late success closes an open circuit before its cooldown ends; a timed-out call keeps running while its
  slot is used again.
* Resilience: every caller that comes while the circuit is half-open passes it (`circuit-breaker.ts:57`),
  where the header of the file speaks of one probe.
* Workflows: `recoverRun` returns a row that survived without executing the run (`engine.ts:1094`).
* Agents: a stream that was once denied stays denied although a later draft passes, and its text has been
  sent before the guardrails see it; calls that run in parallel go on after a handoff or an exception,
  and exceed `maxDelegations` by their number; counters and pending feedback are not in the checkpoint;
  with an interval above one a run may end without any.
* Heartbeat: two ticks of one agent can be processed at the same time, against the comment at
  `heartbeat-supervisor.ts:523`; two supervisors would both pass the check before the save (`:555`);
  a worker that comes late overwrites a completed tick (`runtime.ts:292`); in Redis a lock is deleted without a
  look at its holder (`redis-state-store.ts:547`), so `EndedStays` has its exception.
* Co-editing: a site that loads its own snapshot mints ids again that its last deletes had (`rga.ts:277`),
  so joiners have new names here; a state vector cannot show holes, so a replica that mixes
  broadcast and sync may never ask for an operation it lacks (`rga.ts:254`), and a document uses one
  transport here; `BlockDoc.fromSnapshot` logs no deletes and no attributes (`block-doc.ts:330`),
  so that block documents are only checked by broadcast (and `SyncSafe` names the condition).
* Outbox: an event whose answer was lost is delivered twice; overlapping flushes bring back entries that were
  removed or cleared; a backoff lets later items go first, against `outbox.ts:3`.
* Session: `stop()` before the run id is known cancels nothing, and the late answer attaches
  (`run-session.ts:287`); streams that overlap are mixed in one view and share the session's cursor;
  `resume()` does not look at the session again after its await (`:309`); the late answer of `cancelRun`
  settles a run that was started since (`:341`); a listener that throws at the terminal event hides it
  from the stream (`run-client.ts:325`), and one that throws out of the settlement leaves the stream attached, which may
  persist the cursor of the settled run (`:230`); one that throws out of `start` or `resume` leaves the session
  submitted without a call or a stream (`:270`, `:298`, `:323`), and so does a call or a connection that hangs
  (`transport.ts:113`, `:123`), until `stop`, `reset` or `dispose`; a cursor that could not be stored or cleared stays as it
  was until the next call (`:217`, `:223`).

## 7. Not modelled

Parts of modelled components: what each subsection of section 3 leaves out. Engines that fit the same
method and are in the plan: human tasks, cache, triggers, the durable helpers of resilience,
the administration of workflows.

The rest of the repository, by far the most of its 1,312 files, keeps no state that steps of several
actors could break: providers, tools and protocol adapters translate requests for external services; text,
vector and audio processing, prompts and skills compute over strings and real numbers; encryption is
cryptography; the database adapters are SQL; user interface helpers, applications, examples, scripts and
the web site are demonstrations and assets. `PROJECT.json` gives the reason for each package. The lines that
the modules map are therefore a small share of the repository, and most of the share that has protocols.
