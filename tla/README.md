# luna-swarm in TLA+

luna-swarm runs a goal as a DAG of tasks executed and validated by many model agents. This
directory models the parts of it that must stay correct through concurrency, crashes and
operator intervention: the durable run store, the lock files it rests on, the admission of model
calls, the supervisor and the App Server session behind it, the scheduling of tasks with their
work orders, the blackboard their results are published on, the integration of code into a
repository, and the deployment of candidate bundles. TLC checks small instances of each; TLAPS
proves the safety properties that the passing runs check for all instances.

Source paths are relative to the repository, whose TypeScript lives in `src/`.

## 1. Inventory

| Component | State | Operations | What is hard | What makes it correct |
|---|---|---|---|---|
| Run store (`src/store.ts`, `src/runtime/run-transition-journal.ts`, `run-state-transition.ts`, `orchestrator/run-persistence-coordinator.ts`) | `transitions.jsonl`, `state.json`, checkpoint, outbox cursor, `events.jsonl`; a store object and a memory state per process | claim, save, commitTransition, compactTransitions, loadState, appendEvent | four files written one after the other, crashes and failing writes between any two, several processes | committed transitions are never lost, effects are published once and in order, no stale writer |
| Lock files (`src/store.ts`) | `state.lock`, `commands.lock`, `execution.lock` | acquire, recover a stale file, release by token | read, compare and unlink are separate system calls | one holder at a time; a dead holder's lock is taken |
| Gateway (`src/runtime/gateway.ts`, `adaptive-pool.ts`, `src/controls/`, `src/util.ts`) | permits, target and cooldown, thread mutexes, durable control state with launch leases | run with retries, pause, resume, cap, cancel, interrupt | several awaits between check and launch; answers that change the pool while others hold permits | limits hold at the launch, not only at the check; nothing leaks; every call settles |
| Scheduler (`src/orchestrator.ts`, `src/dag.ts`, `src/harness-v2/work-orders.ts`) | status, lease and attempts of a task; state and attempts of its work order; published outputs | executeDag, executeTask, validateTask, handleTaskFailure, runPipeline, resume | executions outlive the pipeline; two records of one task; interrupts, crashes and resumes at any point | dependencies first, accepted is final, late results are dropped, records agree, every pipeline ends |
| Supervisor (`src/backend/app-server-supervisor.ts`) | places, permits, waiters, circuit, probe and backend per shard; a mutex per thread | run, close and drain | circuit and permits are looked at before awaits, waiters abort, close() meets startups | no permit, thread turn or place is lost; an open circuit serves one probe; close() ends |
| App Server session (`src/backend/codex-app-server.ts`, `app-server-client.ts`) | occupancy slots, thread ids, requests in flight, the process | run, abort, recycle, close | late and missing answers, aborts at every await, a turn the process goes on with | a slot per turn the process may run; none leaks; an abort ends the turn too |
| Coding integration (`src/coding/`) | attempt journal, pins, target ref, two locks, the clone | attempt, prepare, compare-and-swap, recover, clean up, record | a crash between any two of them; landed writes that were reported as failed | a commit enters the target once and recorded; all executions agree; what is over is not attempted again |
| Blackboard (`src/harness-v2/blackboard.ts`) | blobs, revision files, heads, a lock per artifact | publish, read, verify | three files in order, readers without a lock, two publishers after a mistaken lock recovery | heads and answers stay readable with their inputs; no lost update |
| Evolution deployment (`src/evolution/registry`, `deployment`) | stable pointer and its history, quarantines, rollouts, active index, effect ledger, telemetry backlog | promote, roll back, upgrade, advance, activate, route, admit, observe, reconcile | sections under a lock with awaits between, several reconcilers, restarts | no request on a rollout that is over; effects done, noted and acknowledged in order |
| Evolution evaluation and traces | receipts, outcomes | record, evaluate | mostly pure | receipts bind what they claim |
| Directives (`src/store.ts`) | directive file, gate | append, acknowledge, close | torn tails, gate against append | each directive is seen once or refused |
| Control request gates (`src/controls/atomic-start-gate.ts`, `src/ui-server/`) | one reservation, remembered requests, durable ledger | start, replay, release | crash after a reservation | one start per request |
| UI event hub (`src/ui-events/`) | sequence, bounded journal, subscribers | publish, replay, resync | eviction during replay | no gap goes unnoticed |
| Tool broker (`src/tool-broker/`) | nonce and result ledger | begin, complete, prune | failure between begin and complete | one result per idempotency key |
| Storage maintenance (`src/storage/`) | archives, quarantine, maintenance lock | archive, restore, delete | a run that is resumed meanwhile | an active run is left alone |
| Company organisation, gates, councils | rosters, votes | decide | pure | — |
| Learning, CLI, dashboard, UI, schemas, prompts | — | — | plumbing | — |

How they interact: the CLI or the UI process takes the execution lease and constructs the
orchestrator. The scheduler interleaves executions at their awaits. Each one asks the gateway for
model calls, which go through the supervisor's shards to an App Server session, and changes the run state only through
`commitRunStateTransition`, which is a `commitTransition` of the store under `state.lock`. Other
processes load the run while it executes. The operator acts through the control store, which the
gateway consults before every launch, and through the abort signal of the process. Results are
published on the blackboard before the commit that refers to them; accepted coding orders are
integrated after it, with a proof on the blackboard. A control plane with an operations signer
routes model calls between the champion and a candidate and feeds telemetry to its control loop.

The hazards, each at its line and with the properties that cover it, are in `PROJECT.json`.

## 2. Modules

| Module | Models | Role |
|---|---|---|
| `DurableRun` | what the store promises, without files | abstract specification |
| `TaskGraph` | what a run does with its tasks, without leases, orders, retries and resumes | abstract specification |
| `RevisionChains` | what the blackboard promises, without locks, files and crashes | abstract specification |
| `IntegrateOnce` | what the integration promises the caller and the target, without attempts and recoveries | abstract specification |
| `RunStore` | the store, one action per file write | implements `DurableRun` |
| `FileLock` | both lock protocols, one action per system call | what `RunStore` takes as a lock |
| `Gateway` | one run's model calls between two awaits | component |
| `Scheduler` | one run's tasks, one action per commit | implements `TaskGraph`; its commits are `RunStore`'s |
| `Supervisor` | the calls of the shards between two awaits | component; its backend is an `AppServer` |
| `AppServer` | the calls of one session and its process | component; the process is external |
| `CodingIntegration` | orders, journals, locks and the target ref | implements `IntegrateOnce`, with the commits of the orchestrator |
| `Blackboard` | publications, one action per file operation | implements `RevisionChains`; what `Scheduler` and `CodingIntegration` take as published |
| `Rollout` | pointer, rollouts, router, control loop, recovery | component |
| `MC...` | values of the constants | instances for TLC |
| `RunStoreProofs`, `FileLockProofs`, `SchedulerProofs`, `BlackboardProofs`, `RolloutProofs`, `CodingIntegrationProofs`, `GatewayProofs` | theorems about the module of that name | TLAPS |
| `SupervisorProofs` | theorems about `Supervisor`, then about `AppServer` (instance `App`), over the same lemmas on queues | TLAPS |

### RunStore

A journal record is its sequence number (for the pair of sequence and hash) and the revision it
carries. `Create`, `BeginSave`, `BeginCommit`, `BeginCompact` and `BeginLoad` take the lock and
make the checks of the operation; `AppendRecord`, `WriteSnapshot`, `ProjectEvent`, `WriteCursor`,
`WriteCheckpoint` and `Truncate` are its writes in the order of the code; `Finish` and `Abandon`
are its return and its exception. `IoError` fails the next write, `TearRecord` and `TearEvent`
leave part of a line, `Crash` empties the memory of a process. `JournalReads` and `Readable` are
what `readSuffix` accepts. An event that is appended outside the outbox is `PlainEvent`.
`CutTails` says what an interrupted append can leave: a torn line, or a line that lacks only its
newline ("bare").

### FileLock

`CreateFile` and `WriteRecord` are the exclusive creation and the write of `[pid, token]`;
`ReadFile`, `JudgeStale`, `JudgeLive`, `CompareText` and `RemoveStale` the recovery, without
`CompareText` in the lease protocol; `RemoveOwn` the release. A pid is not reused. `Age` lets an
unfinished file pass its stale bound; creation and record are two adjacent writes, so a file of a
live process does not age.

### Gateway

A call goes through `thread`, `queued`, `granted`, `instructed`, `polling`, `admitted` and
`running`, and back through `backoff` when it is retried. `Pump` grants permits, `RateLimited`,
`Grown` and the timers are the pool; `Poll` and `TryAcquireLease` are
`ExecutionController.acquire`. The queue's order by priority and age is a free choice, the content
of instructions and the company budget are left out. Commands come from the process that owns the
run (`runtime-registry.ts` refuses the others), so a call that has its lease launches before a
later writer of the control store completes (`StoreFree`). A lease expires only if its release
was lost: a call's deadline is shorter than the lease.

### Scheduler

`dag` is where `runPipeline` stands and `at[t]` where the execution of `t` does. `Begin` to
`Reject` are the awaits of `executeTask` and `validateTask`; every one that changes a record is a
commit. `Refresh`, `Announced` and `Launch` are one turn of `executeDag`; `Exit` and `Reconcile`
the two commits of the exception handler; `Resume` and `Replay` what `resume` does before the DAG
goes on. `Stuck` is the set of waiting tasks that lost a dependency, the fixpoint of
`refreshTaskStates`. Verdicts of reviewers and failures of workers are free choices; I/O errors
can hit the mission cell, the validation, a publication, the integration and the replay. The two
runs of `executeDag` around the teams' reports, and these reports, are collapsed into `Finish` and
`CannotFinish`. A resume forgets older executions: their commits fail on the revision
(`NoLostUpdate` of `RunStore`).

`ExecutesGraph` says that all this is `TaskGraph`: a task is `open` until it ends (`verdict`), and
`executions` are the order's, which no resume gives back. `Begin` is the graph's `Execute` and
`Accept` its `Accept`; refreshes, failures, exits and cancellations give tasks up; everything else
is invisible.

### Supervisor and AppServer

A call of `Supervisor` goes through `thread`, `turn`, `queued`, `granted`, `starting`, `running`,
`unlocking` and `leaving`. `Release` hands a freed permit to the first waiter, `CircuitRefuses`
is the check that may make a call the probe, `Rejected` what opening the circuit or closing does
to the waiters; `FactoryDone`, `ClosingBackends`, `ShutDown` and `DrainTimesOut` are startup and
close(). `AppServer` starts where the supervisor's backend runs: `Boot` and `BootDone` are the
session, `Enter`, `EnsureThread`, `AcquireSlot`, `AskTurn` and `Finish` a call. A slot belongs to
a turn the process may be running, so `Deferred` says when an abort leaves it to a late answer
(`LateStop`, `TurnCompletes`). `Recycle` replaces the session and fails its requests.

### CodingIntegration

`Execute` to `Leave` are one execution of an order: `Open` and `Replay` the journal, `Recover` the
question whether an earlier execution got through, `Create` and the attempts with their outcomes,
`Prepare` the durable intent, `Look` to `Unlock` the single committer, `Complete` and `Close` the
end; `PutProof` and `RecordIntegrated` are the orchestrator's. The history variables `entered` and
`answers` say what the target and the callers saw. A fault is an error before or after the effect
of a write, a timeout or abort of `update-ref` with either outcome, or a crash.

`IntegratesOnce` maps it to `IntegrateOnce`: `intended` are the orders whose journal is prepared,
`landings` the commits the target has taken, `verdict` the completions the journals hold and
`recorded` what the orchestrator calls integrated. A verdict "conflict" does not promise that the
commit stayed out of the target (section 6).

### Blackboard

`Publish` is the caller's look at the head; `Lock`, `Judge` and `Unlink` the lock with its
recovery, `Check` the comparison under it, `PutBlob`, `Create`, `Fill` and `MoveHead` the files,
`Release` and `Remove` the end. A revision file is created and filled by two calls, blobs and
heads change in one. Two processes can be inside one lock, as the recovery allows.

`PublishesAtomically` maps it to `RevisionChains`: the chain of an artifact are the revisions up
to its head. The move of the head is the publication, which extends the chain its author saw with
a revision whose inputs are published; all other steps are invisible.

### Rollout

A rollout stands for its candidate bundle and genome; the stages before `shadow` are one. A
section under the activation lock is one action, a recovery is a chain of them (`RollbackTraffic`
to `Mark`) that the control loop and the operator's program carry out. `Unsafe` and `ReadActive` are
the self-healing read, `Start`, `List`, `ReleaseIndex`, `Process` and `LoopEnds` the start of a run's
control loop, `Route`, `Admit` and `Observe` a request, `IngestTelemetry` what it leaves behind. A
telemetry record either lies in a window that violates the SLO or not. `Crash` and
`OperatorBreaksOff` can leave a revision file behind its head (`wedged`, `indexWedged`).

## 3. Runs

| Run | Shows | Bounds |
|---|---|---|
| `run_store` | effects once and in order, memory durable, no lost update, compaction loses nothing, causes of unreadability, `DurableRun` implemented, operations end | 2 processes, revisions 0..3, 2 faults, 1 plain event |
| `run_store_recovery` | `CrashRecoverable` fails: a crash inside a second compaction | 1 fault |
| `file_lock` | exclusion as long as no recovery was mistaken; abandoned locks are taken; both protocols | 3 processes, 2 acquisitions each |
| `gateway` | permits and leases match calls, turn budget, stops hold launches, calls settle | 3 calls on 2 threads, 2 attempts, 2 turns, 1 command, 1 fault |
| `scheduler` | dependencies first, records agree, ends reconciled, late results dropped, `TaskGraph` implemented, every pipeline ends | 2 tasks and one on both, attempts 2, 1 and 2, 3 troubles |
| `scheduler_stall` | `SchedulerNeverStalls` fails: a retry that begins to wait while events are written | no trouble at all |
| `supervisor` | nothing lost or handed out twice, an open circuit grants its probe only, close() ends | 4 calls on 3 threads of 1 shard, 2 permits, 1 place to wait, threshold 2, 2 aborts; 550 thousand states |
| `app_server` | a slot per running turn, no leak, no idle slot, aborts release | 3 calls on 2 threads, 1 slot, one call with images; 70 thousand states |
| `coding` | truthful answers, what is over stays over, `IntegrateOnce` implemented (enters once and recorded) | 2 processes, 2 orders, 2 findings (symmetric), 3 attempts, 2 faults, 1 move of the ref; 3.8 million states |
| `coding_proof` | `ProofAccepted` fails: a crash between the proof and INTEGRATED | 1 fault |
| `blackboard` | heads and answers readable, only a cut publication blocks, `RevisionChains` implemented (no lost update) | 2 processes, 2 artifacts, 2 contents, 2 revisions, 1 fault; 1.5 million states |
| `rollout` | recovery in order, a rollout that is over never serves | 1 run, 2 rollouts, 1 request, 3 pointer generations, 1 fault; 4.6 million states |

Why the bounds are enough. *Store*: three revisions allow two compactions with a commit between
them, the shortest history in which a checkpoint, a journal that starts behind it and a new head
differ; the second process is the reader or the stale writer; two faults cover a failed write
followed by a crash in the recovery. The safety properties hold without bounds (section 5).
*Locks*: mistaken recovery takes a dead owner, a successor and a late observer. *Gateway*: two
calls of one thread compete for the mutex, the third for the pool; with `Min = Initial = 1` and
`Max = 2` the target both grows and is cut. *Scheduler*: the join has a task with two
dependencies, the unequal budgets let one fail while the other retries, and three troubles allow
an interrupt, a crash of the resumed run and an I/O error together. *Supervisor*: two permits and
two calls of one thread let a probe, a waiter and a thread waiter coexist; with one place to wait
both limits are reached. *App Server*: one slot is the tightest competition; the third call waits
while the first is aborted and the second has the thread. *Coding*: a second process meets every
state the first leaves behind, three attempts distinguish repetition from exhaustion, and the two
faults are a lost answer and a crash. *Blackboard*: two artifacts that name each other, two
revisions for a stale author; two faults were also run (10.5 million states). *Rollout*: the second
rollout replaces the first, three generations allow a promotion and its rollback; the run and the
operator are two reconcilers.

`CHECK_DEADLOCK FALSE` is used where the program stops: finished runs, dead processes, settled
calls, used-up bounds.

## 4. Fairness

* `RunStore`: `WF(Step(p))`. An operation that has the lock is a promise chain that runs on; no
  fairness for beginning one, for crashes or for faults.
* `FileLock`: `WF(Step(p))` for a call that has begun, `WF(Age)` because clocks advance.
* `Gateway`: timers fire, answers arrive or the deadline passes (`callTimeoutMs`), begun commands
  are carried out. Nobody has to start a call, give a command or resume a paused run.
* `Scheduler`: `WF(Schedule)` and `WF(Execute(t))`, because the event loop runs every continuation
  whose promise has settled and the gateway settles every call (`CallsSettle`). Operators, crashes
  and resumes are free.
* `Supervisor`: continuations run, a startup has a deadline, drains have a timeout, and a backend
  answers a call that was aborted. Nobody has to answer or abort another call, and a closed backend
  need not answer its turns.
* `AppServer`: continuations run; a request is answered or the client's timeout recycles the
  session (`rpcTimeoutMs`), a startup ends or times out. A turn may go on for ever if nobody
  aborts it.
* `CodingIntegration`, `Blackboard`, `Rollout`: none, all their properties are safety properties.

## 5. Proofs

All constants are arbitrary under the assumptions named in the modules, which TLC evaluates on
each run: `StoreAssumption`, `LockAssumption`, `GatewayAssumption` (the order of the pool's
options, as its constructor demands), `SchedulerAssumption` (finitely many tasks, acyclic
dependencies, as `dag.ts` validates; positive budgets), `SupervisorAssumption`,
`AppServerAssumption`, `CodingAssumption`, `BlackboardAssumption`, `DistinctNames` and `Bounds`.
They say that sets of calls are finite, that markers such as `None` are not names, and that limits
are natural numbers, positive where the code validates it. Each theorem goes the same way: an
inductive invariant (`IInv`, `SessionInv`), which TLC has checked on the run's instance, one lemma
per action, and the property as a consequence. A refinement adds a smaller invariant about what the
abstract state remembers, and shows that every step is an abstract step or invisible.

**Store.** `TypeCorrect`, `MemoryDurable` and `UnreadableCauses` rest on an inductive invariant
that says how the three files overlap (`ChainInv`, `HeadInv`, `CursorInv`) and what the operation
holding the lock has already written (`OpInv`); neither part is inductive alone, because each
write is only correct for what the one before it left. `NoUpdateLost` follows
from the same invariant: whatever becomes of the events, only the holder of the lock that has seen
the latest revision replaces it. Under `NoBareTails`, that a cut event line never is a complete
one, `EffectsPublishedOnce`, `LoadsSettle`, `NothingLostByCompaction` and the refinement `StoreKeepsPromise` follow. The assumption is needed:
with complete lines without a newline (`CutTails = {"torn", "bare"}`) a plain event glued to one
loses it.

**Locks.** `LockExclusion`: as long as no recovery has removed a file other than the one it
judged, at most one process is inside. The invariant relates what a process inside relies on
(the file is its own) to what every observer about to unlink has judged (its creator is dead).

**Scheduler.** `SchedulerTypeCorrect` (with the budgets), `DependenciesFirst`, `RecordsAgree`,
`EndsReconciled`, `AcceptedKept` and `LateResultsDropped`. The invariant says what a lease means
(`LeaseInv`: only a running or validating task has one, and its order is where its execution left
it), that an order which may be executed has no validation on its account (`ReviewInv`, which
bounds the validations), and what an exit leaves (`ExitInv`: after an interrupt or a cancellation
no lease and no execution about to begin). Without `LeaseInv` a late execution could take an
accepted task back; without `ExitInv` the reconciliation could close an order under a live lease.
`RunExecutesGraph` is the refinement to `TaskGraph`. It needs `WorkedInv`, that what is leased or
can be validated again was executed: only so does a preserved result that is validated after a
resume, without an execution of its own, end as the result of an execution.

**Gateway.** `GatewayTypeCorrect`, `PermitsAreAccounted`, `LaunchesHeld`. The books of pool and
control store are a function of where the calls stand (`Books`): active permits are those of the
calls between their permit and its release, the queue is the sequence of the calls that wait. That
a grant leaves the rest of the queue as it was is a statement about a recursive function
(`Remaining`); the proof takes a least counterexample, with the well-foundedness of the naturals
(`WFMin`), instead of an induction theorem. `LaunchesHeld` needs that nobody writes the control
store between a lease and its launch (`CallInv`); otherwise a launch could follow a pause.

**Supervisor.** `SupervisorTypeCorrect`, `NothingIsLost`, `ProbesOnly`. Queues list exactly the
calls that wait in them and counters count exactly the calls that hold what they count
(`PermitInv`, `PlaceInv`, `ThreadInv`), a half-open circuit has exactly one probe (`ProbeInv`),
who waits under an open circuit is that probe (`QueueInv`), and after `close()` nobody waits
(`ClosedInv`). `QueueInv` is what a handover of a permit relies on, since it does not look at the
circuit again. That the permit queue never refuses a call that was let in follows by counting:
the calls with a permit, those that wait and the new one are different calls inside, of which
there are at most `MaxInflight + MaxQueue`.

**App Server.** `AppServerTypeCorrect`, `SlotsStayInUse`. What the process may run has a slot even
before the client has heard of it (`TurnOk`: a sent request on a thread of this session), and a
slot without a call in progress has an answer on its way (`SlotOk`). Both need to know which
requests can be open at each label (`CallOk`), and that the queue is empty unless all slots are
taken (`SlotInv`). The exception for calls with images (`stale`, `WithImages`) is the leak listed
in section 6.

**Coding integration.** `CodingTypeCorrect`, `CommitsEnterOnce`, `AnswersTruthful`,
`StopsForGoodAlways`. An order belongs to the holder of its journal lock (`OwnerInv`); the journal
bounds what may still happen to the order (`JournalInv`); every point of an execution knows how far
the order has got (`StageInv`); the target holds only commits that have entered it (`HeadInv`).
The proof never uses the lock of the target ref: a commit is swapped in at most once because its
intent is durable before the swap and the swap compares the base. `PipelineIntegratesOnce` is the
refinement to `IntegrateOnce`. Its invariant `HostInv` says that who puts the proof or
records the integration has been answered "integrated".

**Blackboard.** `BoardTypeCorrect`, `PublishedIsReadable`, `NoPublicationLost`,
`BlockedOnlyByWriters`, `PublicationsImmutable`. Nothing rests on the artifact's lock, which a
mistaken recovery can give to two publishers. The exclusive creation of the revision file lets at
most one of them behind the head (`WriterInv`); the revisions up to the head are whole and at most
one file follows (`ChainInv`); whole revisions name what can be read (`RecordInv`); and what a
publisher saw is stale exactly if that next file exists (`WorkInv`). `BoardPublishesAtomically`
is the refinement to `RevisionChains`; `SeenInv` says that the inputs a publisher names were
published when it looked and still are, so that the move of the head publishes a revision made of
published ones; the chain it extends is the one it saw because of `WorkInv`.

**Deployment.** `RolloutTypeCorrect`, `RecoveriesInOrder`, `RolloutOverForGood`. At each step of a
recovery `JobInv` says what it, or another recovery of the same rollout, has done before; `LeftInv`
says why a rollout that has left the index stays out: it is over, quarantined, bound to an older
champion, or the index is wedged. Without it the self-healing read could bring a rollout back.

**Only model-checked.** Liveness, which needs `ENABLED` and fairness: `OperationsEnd`,
`AbandonedLockIsTaken`, `CallsSettle`, `RunSettles`, `CloseSettles`, `AbortReleases`. That
`LockExclusion` carries the excuse of a mistaken recovery, and the store's second group of theorems
the hypothesis `NoBareTails`, is not a limit of the prover: without them the statements are false
(section 6).

## 6. What the violations say

Each is a place where the code does not do what its own text says; the details and quotes are in
`PROJECT.json` under `findings`. A run whose second compaction is interrupted can never be loaded
again; a retry that begins to wait at the wrong moment fails the run as stalled; an integration
interrupted before its commit can never be recorded.

The models reach more states of this kind, which no run repeats. They are listed with the hazards:

* both lock protocols can admit two holders through a mistaken recovery (`Exclusion` without its
  excuse);
* a plain event appended to a complete line without newline destroys both;
* a call that had its permit before a 429 launches during the cooldown;
* an interrupted attempt is charged to the work order; a failed validation can make a task ready
  with an order no lease accepts;
* a call aborted while it reads images keeps its slot for ever;
* an `update-ref` killed by its timeout counts as a lost swap even if the ref moved; an aborted
  integration after the intent leaves the order for manual recovery; a crash between pin and delete
  leaks the pin;
* a publication cut between revision file and head blocks its artifact for good, and the same
  pattern wedges a rollout or its index;
* a crash behind the quarantine of a rollout, or the activation of another one, leaves its recovery
  unfinished: the restart drops it from the index instead of reconciling it;
* a promotion between the check and the write of a quarantine quarantines the champion, although
  `src/evolution/deployment/traffic-authorities.ts:64` speaks of "proving the champion is
  unaffected".

## 7. Not modelled, and why

Planning, reducing and judging teams, and the coding, artifact and research modes of a task, are
further pipelines around the same commits. In the modelled components: directives, metrics and the
final report of the store; notification parsing and byte limits of the App Server client; repair
orders and protected verification around the coding pipeline; the verified artifact cache; more
than one workload, signatures and SLO statistics of a deployment; the activation lock, whose
recovery is a variant of `FileLock`. Broker, request gates, event hub, storage maintenance and
directives are planned below. Receipts, gates, councils and rosters are pure decisions that
`Scheduler` takes as free choices. Parsing, prompts, rendering and HTTP carry no state that the
properties are about.

## 8. Plan

1. `DurableRun`, `RunStore`, `FileLock`, `Gateway`, `Scheduler` with proofs of the store, the locks
   and the scheduler: done.
2. `Supervisor`, `AppServer`, `CodingIntegration`, `Blackboard`, `Rollout`, model-checked: done.
3. Proofs of the safety properties of all modules, and the refinements of the store, the
   scheduler, the integration and the blackboard: done. Worth stating on top of them: that the
   permits of `Supervisor` bound the calls of its `AppServer`, and an abstract deployment that
   `Rollout` implements.
4. `Directives`, `ToolLedger`, `RequestLedger`, `EventHub`; a `FileLock` instance for the control
   store's lock.
