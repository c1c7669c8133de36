# A TLA+ model of PaperClaw

PaperClaw is a local agent: it runs language-model agents over a workspace, as single
conversations, as background tasks, as teams and as runs of a durable service. This directory
models the parts that have to stay right while processes crash, threads overrun their time,
several processes share one database, messages are lost or repeated and callers repeat
themselves. It holds TLA+ modules translated from the code, TLC configurations that check them on
small instances, and proofs that TLAPS checks for every value of the constants.

Paths below are relative to `src/src/paperclaw/` unless they start with `Plan/`. `PROJECT.json`
has the correspondence of definitions and lines of code, the hazards with the properties that
answer them, the findings, and the mutants: for every checked property a plausible bug of the
code (a mutated definition, kept next to the real one) that the property catches.

## 1. Inventory

### The components, their state and their operations

| component | state it keeps | operations | modelled in |
|---|---|---|---|
| Durable task store (`tasks/store.py`, `distributed_store.py`) | SQLite: a row per task (status, version, attempt, cancel flag, owner, lease, side-effect state), dependencies, fencing generations | create, refresh, claim, start, heartbeat, mark, complete, requeue, cancel, recover leases | `TaskStore`, refining `TaskLifecycle` |
| Background supervisor (`tasks/runtime.py`, `bootstrap.py`) | in memory: a poll loop, a coroutine and a heartbeat per claimed task, a semaphore, executor threads | start, recover once, poll, stop; begin, execute, read back, complete or requeue | `TaskSupervisor` |
| Task submission (`tasks/tools.py`) | idempotency keys and request digests | create with a key, replay | `TaskAdmission` |
| SQLite bus (`message_bus/store.py`) | numbered messages, a cursor per consumer and topic | publish, pull, ack | `MessageBus` |
| Redis bus (`message_bus/redis_streams.py`, `redis_backend.py`) | stream, pending entries, acknowledged set, contiguous cursor | the same, one Redis command at a time, with redelivery | `RedisBus` |
| Team runtimes (`multiagent/resilient_runtime.py`, `ordered_outbox.py`; `bus_runtime.py`, `observed_runtime.py`) | a second database: attempts, terminal mark, outbox; the trace of a team | serve requests, publish verdicts, cancel | `TeamRuntime`; `BusTeams` |
| Team coordinator and workers (`multiagent/coordinator.py`, `worker.py`, `scoped_tools.py`, `lease.py`, `reviewer.py`, `tool.py`, ...) | task statuses, worker threads, budgets, file leases, judgments | schedule, cancel, review; read and write files; judge; delegate and charge | `Coordinator`, `ScopedTools`, `TeamVerdicts`, `Delegation` |
| Service runs (`service/`, `durability/`) | durable rows, leases, action receipts, public events; or in-memory records | submit, claim, act, finalize, cancel, reconcile, stream | `ServiceRuns`, `RunEvents`, `ApplicationRuns` |
| Checkpoint and resume (`runtime/flow_runner.py`, `resume*.py`, `checkpoint.py`) | events of a flow, rows of checkpoints | run node by node, decide what may go on | `FlowRuns` |
| Executor gateway (`executor/`) | records and child processes on another machine | submit, poll, cancel, fetch | `WorkerGateway` |
| Sessions (`context/session.py`, `repository.py`, `migrations.py`) | SQLite: runs, keyed events, events of tool calls, ledger of operations, checkpoints | open, migrate, announce and end tool calls, record operations, resume | `Sessions` |
| Context (`context/builder.py`, `compaction.py`, `orchestration.py`) | items, summaries, snapshots; the candidates of one prompt | build, compact, assemble | `Contexts` |
| Memory (`memory/`) | `MEMORY.md` under a lock file; rows that supersede each other | add, replace, remove; decide conflicts, freeze snapshots | `Memory` |
| Agent loop (`harness/query_engine.py`, `agent_runtime_executor.py`, `agent/flow.py`) | active run, stop token, budgets, graph state | submit, stop, decide, act, verify, reflect | `AgentRuns` |
| Model clients (`model_policy/router.py`, `models/`) | a chain of models, attempts, delays | route, retry, fall back | `ModelCalls` |
| MCP and LSP clients (`mcp/`, `lsp/`) | connections, pending requests, tables of tools | connect, discover, call, restart, close, validate, select | `McpClient`, `LspClient`, `ToolSchema`, `CapabilityChoice` |
| Planning (`planning/`) | plans, questions and the phase of a scope | enter, propose, decide, ask, answer, guard writes | `PlanMode` |
| Project extensions and index (`projects/`) | registry, manifest, runtimes; an index and its metadata | enable, activate, execute; build, inspect, open, watch | `Extensions`, `ProjectIndex` |
| Retrieval (`retrieval/`) | documents, versions, chunks, search rows, manifests | index, repair, query, cite | `DocumentIndex` |
| Artifacts and traces (`artifacts/`, `storage_safety.py`, `trace/`, `replay/`, `eval/trace_eval.py`) | revisions, keys, blobs; durable events | add, export; project, replay, evaluate | `ArtifactStore`, `TraceReplay` |
| Skills (`skills/`) | files of skills, remote registrations | discover, load | `SkillFiles` |
| Desktop (`desktop/`, `tui/state.py`) | one active run, a reducer, fan-out to clients | start, stop, poll | `DesktopRuns` |
| Subprocess executor of tasks, built-in tools, provider configuration | | | not modelled, see section 6 |

### How they interact

* Agents and HTTP clients *call* the store, the bus and the services. An answer may be lost and
  the call repeated, when a run is resumed before a result was saved or a connection breaks.
* Any number of processes *share* each SQLite file. Owners of rows do not tell processes apart
  (every command line is `cli-task-worker`, `tasks/bootstrap.py:131`); versions, fencing
  generations and leases do.
* Threads are *told* to stop and cannot be made to: the executor of a task, the worker of a team,
  the engine of a service run, the worker of an MCP call all outlive the caller that gave up.
* The team runtime *calls* two databases that share no transaction. What it must publish is
  committed with the verdict as outbox rows and published afterwards.
* Files are shared with the user and with other programs: the memory file, the knowledge files,
  skills, the workspace.

### What is hard, and what answers it

The list is `hazards` in `PROJECT.json`, each with its line. In groups:

* **Stale holders** that go on after their lease, their row or their process was given to another:
  `OnlyLatestAttemptActs`, `NoLeaseRevival`, `ExclusiveExecution`, `RunsSound`, `NothingRepeated`,
  `WritesAreSafe`.
* **Crashes between two steps**, and what the next process makes of the half that was done:
  `TeamSound`, `CommitsHold`, `MarksSound`, `NothingRedone`, `MemoryFileSound`,
  `MemoryItemsSound`, `ArtifactsSound`, `SessionsSound`.
* **Cancellations** that race with a result, a timeout, a recovery or the next run: `CancelWins`,
  `NothingRepeated`, `RunSound`, `ApplicationSound`, `RecordsSound`, `CancelEnds`.
* **Answers of a server** that meet a caller's deadline, its stop or the closing of the connection:
  `ConnectionSound`, `LspSound`.
* **Lost, repeated and reordered calls and messages**: `GatewaySound`, `AdmissionSound`, `BusSound`, `PastIsKept`,
  `StreamSound`, `EveryStreamMessageServed`, `NoRequestSkipped`.
* **Limits**: retry budgets, capacities, token budgets, pools: `RowsSound`, `TeamWorkSound`,
  `TeamsSound`, `ContextSound`.
* **Something must happen**: `EndsUnlessStranded`, `EveryTeamEnds`, `EveryQueuedRunEnds`,
  `EveryStreamMessageServed`.

## 2. Modules

```
TaskLifecycle  <-- refined by --  TaskStore  <-- extended by --  TaskSupervisor  -- TaskSupervisorProofs
TaskAdmission, ArtifactStore, ApplicationRuns                    -- TaskAdmissionProofs
MessageBus     <-- extended by --  TeamRuntime                   -- TeamRuntimeProofs
RedisBus                                                         -- RedisBusProofs
ServiceRuns, WorkerGateway                                       -- ServiceRunsProofs
FlowRuns, Sessions                                               -- FlowRunsProofs
Coordinator, Memory                                              -- CoordinatorProofs
ScopedTools, AgentRuns, PlanMode, McpClient, LspClient           -- AgentRunsProofs
MCAgents, MCState, MCServices    small instances of the remaining modules, side by side
MCTaskSupervisor                 small instances of the supervisor and of the store alone
```

Every module names its source files at its head, every variable the attribute, table or file it
stands for, and every action the method or the part of it that is one step. What is one step
follows from the code everywhere in the same way: a transaction, a statement outside a
transaction, a Redis command or script, a block under a lock, a file operation. What is read
before such a step and used in it stays in the record of the process that has read it.

### TaskStore, TaskLifecycle: the rows, and what they promise

Every method of the store runs in one `BEGIN IMMEDIATE` transaction, so each is one action; a
method that raises rolls back, so its guards are conjuncts. `row[t]` is the row joined with its
dependencies and its fencing generation. `FencedWorkers` says which worker uses the fenced
methods, and `FencedOwner` is the check in front of both kinds.

* *Time* is the number of ticks a lease has left: a heartbeat and a claim set it to `LeaseTicks`,
  `Tick` takes one off all leases, 0 is expired, `NoLease` is NULL.
* *Creation order* replaces `created_at`: two creations never get one clock reading.
* `Effects` has two values: the code never distinguishes `none` from `safe`, nor `committed` from
  `unknown`.
* `RefreshDependencies` is one pass over the waiting rows, oldest first; since dependencies are
  older than dependents, the rows it blocks are the one solution of `B = Doom(B)`.
* The event log, usage and reason columns, and texts are left out: no decision reads them.

`TaskLifecycle` has tasks without rows, versions, leases or workers: a phase, the attempts spent,
the tasks needed. `ImplementsLifecycle` states that the store, seen through `Phase`, implements it.

### TaskSupervisor: processes over the store

`proc` is the main loop of each process, `runner` the coroutines, `threads` the executor threads.
Each call of the store from a coroutine is a step of its own, with the decision taken on its
answer. `Halt` cancels the coroutines of a stopping process, after a store call they have handed to
a thread has ended. `TimePasses` keeps a lease alive as long as its process serves and does not
stall, because `heartbeat_seconds < lease_seconds`; with `"stall"` among the faults it does not.
Executors are what the supervisor sees of them: a verdict, an exception or a timeout, after
changing files or not. `SupSafetySpec` is the specification without fairness.

### TaskAdmission: keys and replays

`create_task` as a caller sees it: the lookup of the key, the comparison of digests, the insert.
`TaskId` mints a fresh id for a request without one, per call, as `tools.py:204` does, and the
digest covers it. `LoseAnswer` is the environment.

### MessageBus and TeamRuntime: topics, and processes over two databases

A bus operation is one transaction; refused calls change nothing and are disabled, callers ask
`Accepts`. `received` is history. A process of the team runtime is one call of `execute`; its
program counter goes through the steps that a crash can come between: submission, pull, the
attempt counted, the accepted event, the coordinator, the commit of verdict and outbox rows, for
each row its publication and its mark, the acknowledgement. A publication that is refused because
the topic is full raises in the code; `Say` names the place where the process goes on. The
coordinator returns or raises; its progress events are the environment's. `MaxAlive` is 1 in the
runs: nothing keeps two processes with one consumer id from running a request twice.

### ServiceRuns: durable runs

`run`, `lease` and `receipt` are the tables; `service` and `drainer` the processes and their
drainer threads; `found` what a start has read and not decided; `claims` and `acted` are history.
A service reconciles when it starts, several may do so at a time, and dies at any step. `stalls`
is chosen once per behaviour: whether a lease may run out although its heartbeat runs. A run has
one action key.

### FlowRuns: checkpoints and resume

`flog` is the event log, `marks` the table of checkpoints, `run` the runner with the sequence it
holds, `did` is history. A row of the table carries the sequence from *before* its
`checkpoint.committed` event. The flow is a chain of nodes with one mutating operation each.

### The other modules

| module | actors that interleave | left out |
|---|---|---|
| `RedisBus` | processes reading for one consumer, dying between two commands | the audit stream |
| `RunEvents` | the services that execute one durable run one after the other, users, a stream | all but the closing events |
| `ApplicationRuns` | submitters, pool threads, cancellations, shutdown, a stream | the engine but its token and status |
| `Coordinator` | the scheduling loop, worker threads, `cancel()`, the deadline | what tasks do |
| `ScopedTools` | worker threads between the steps of a tool call, edits from outside | contents but for who wrote them |
| `TeamVerdicts`, `Delegation` | worker, judge, reviewer, gate; agent, team thread, stop | evidence but its identity |
| `BusTeams` | one process at a time, crashes and faults between any two transactions | the outbox (that is `TeamRuntime`) |
| `Sessions` | the executor of a run and processes that reopen it, on one database, dying, with events refused; the ledger is asked apart from tool calls, as in the code | contents of messages |
| `Memory` | writers that die or are suspended; users between statements | ranking, extraction |
| `Contexts` | builders of several roles on one table; one prompt | wording |
| `AgentRuns`, `ModelCalls` | the engine and the thread that stops it; one turn and its provider | prompts, streaming |
| `McpClient`, `LspClient` | callers, worker threads, reader thread, server, closer | payloads |
| `ToolSchema`, `CapabilityChoice`, `SkillFiles` | sequential, with files that change during a scan | texts |
| `PlanMode` | processes between the check of a phase and the write | texts of plans |
| `Extensions`, `ProjectIndex`, `DocumentIndex` | operators, hosts, builders, a watcher, indexers, a maintainer, readers | parsing, vectors |
| `ArtifactStore`, `WorkerGateway`, `TraceReplay` | processes that stop; callers, gateway and children; executor and exporter | contents but their identity |
| `DesktopRuns` | worker thread, API threads, pollers | layout |

## 3. Model checking

A run that passes has been searched exhaustively within its bounds. Every one of its properties
fails on the mutant listed for it in `PROJECT.json`.

| run | what it asks | bounds |
|---|---|---|
| `TaskStore_rows` | `RowsSound`, final rows, no revival of leases, the lifecycle | 3 tasks with every dependency graph that connects them, one with 2 attempts, 1 worker, 1 lease tick |
| `TaskSupervisor_fencing` | stale runners never write; cancels win | 1 task, 2 attempts, 2 processes sharing a worker id, every fault, 1 crash or stop, 1 lease tick |
| `TaskSupervisor_exclusive` | no task runs in two threads | the same without stalls and timeouts, 2 crashes or stops, 2 lease ticks |
| `TaskSupervisor_ends` | every task ends, unless a late cancel stranded it | 2 tasks that may depend on each other, 3 attempts, 2 runners, 1 provider slot, 1 lease tick |
| `TaskSupervisor_cancel_strands` (violation) | a task whose cancel was requested while it ran ends | 1 task, 2 attempts, 1 process, no crash |
| `TeamRuntime_crashes` | `TeamSound`, `CommitsHold` | 3 processes one after another with 2 requests, crash anywhere, topics of 5, 2 attempts, 1 poll each, 2 cancellations |
| `TeamRuntime_skip` (violation) | no request is passed by the cursor before its verdict | 2 processes, 2 requests |
| `Agents_suite` | the properties of the modules that run agents | in `Agents_suite.cfg` and `MCAgents` |
| `State_suite` | the properties of the modules that keep what a run did | in `State_suite.cfg` and `MCState` |
| `Services_suite` | durable runs, the Redis bus, admission of tasks | 1 run, 3 lives of services (2 where leases may stall), 2 alive; 2 processes and 2 consumers, 2 messages, 1 crash; 2 callers, 2 keys, 2 minted ids |
| `Coordinator_stuck` (violation) | a team is given up as blocked only when nothing can start | 3 tasks, the coordinator alone |
| `ContextBuild_compacted` (violation) | what a summary stands for is not compacted again | 3 texts, 1 role, 2 builds, the builder alone |

**Suites.** `part`, chosen by the initial state, says which component of a suite runs; the others
take no step and stand at their initial state, or at `Unset` where no property reads them. So a
suite is the union of its components' state spaces, not their product, and each property is that
of its module. Where a module has many initial states, the parts that do not run keep one. The
properties of a suite put those of several modules together: `RecordsSound`, for instance, is
`TraceSound`, `DesktopSound` and `RunEventsSound`, whose
conjuncts are stated one by one at the end of their modules.

**Why the bounds are enough to be interesting.** Three tasks make a
chain, a fork and a join; rows of tasks that no dependency connects meet only in the order of
claims, which a fork has too. One worker
suffices in `TaskStore_rows` because owner-only calls already present every version and generation
up to the row's, which is what tells attempts apart. Two attempts give a first one, a retried one
and an exhausted budget. One tick already lets a lease
expire between any two steps and be renewed before; two tell a lease that was just renewed from
one about to expire.
Topics of 5 are full in the middle of a verdict after one retry, or after a request of each
process; what an attempt leaves to be retried is retried by the next process, from the same rows
as by the next poll of the same one. Three lives of a service are one that dies with a run, and two that reconcile it at the
same time; `claims` shows that the run is then repeated once. Two processes that read the Redis
stream for one consumer make every race of its cursor. Flows of three nodes have a first, a middle
and a last one, and two crashes are one in the resume of the other. In the other modules, a bound
is at least two of whatever competes, and one more than a limit of the code.

**Deadlock.** The store and the supervisor never deadlock. `CHECK_DEADLOCK FALSE` is set where
components end: the suites, whose bounded inputs run out, and `TeamRuntime`, whose processes end.

**Symmetry** is used in `TaskStore_rows` only, for the two tasks with one attempt: it checks
action properties that name no task.

**Fairness.** `TaskSupervisor`: the event loop, the thread pool and the store keep going, so every
step of the main loop and of a runner is weakly fair; an executor ends because `wait_for` bounds
it with the task's timeout (`RunnerEnds`); time passes; a process that is down is started again.
`Coordinator`: its loop goes on, worker threads end (each has a step limit), the deadline passes.
`ServiceRuns`: every thread of a living service goes on; submission, which a request handler
completes, too. `RedisBus`: a living process goes on pulling and serving, and what is pending grows
idle. Clients, crashes, stops, cancellations and file writes owe nothing. `TeamRuntime` has no
liveness property: a process is a command that ends after its cycles, and nobody is obliged to
start another.

### What the violations show

1. `TaskSupervisor_cancel_strands`: the executor raises, and the runner reads the row back before
   a cancel is requested and requeues it after; the requeue keeps the cancel flag, no claim takes a
   queued row with that flag, and nothing ends it.
2. `TeamRuntime_skip`: a request whose attempt failed stays unacknowledged, but the next one of
   the batch moves the consumer's only cursor past it. The trace needs a predecessor that died (or
   used up its cycles), so that two requests wait at once.
3. `Coordinator_stuck`: the round ends as blocked when no worker is active and a task is pending,
   without asking whether the result just collected made it ready. A chain of three tasks does it.
4. `ContextBuild_compacted`: the first build stores a summary and succeeds. In the second, what is
   kept fills the budget, so that the stored summary, which has the lowest priority, is evicted
   itself, with the originals it stands for. Where these fill a chunk of their own (16 items in the
   code, 2 in the run), they give a summary with the stored one's id. The filter of
   `context/builder.py:335` knows the selected items only, and the insertion fails; so does every
   later build. A build whose stored summary is still selected does not get there: the filter
   skips it, and its snapshot is written.

## 4. Proofs

What TLAPS proves holds for every value of the constants that satisfies the assumptions of the
modules: `NoWorker` is no worker, budgets, leases and capacities are positive, `Anyone` is no
consumer, services are numbered by positive numbers, a flow has a node, the team runtime has its
four topics, finitely many processes and requests, and reads the cancellations of each request as
a consumer of its own (a digest of the request's id); a team has a task, its workers write as
themselves, and the limits of an agent are numbers; "none" is no text of an answer; the newest schema
version and the limit of tool calls of a session are numbers; "free", the
lock without an owner, is no caller of an MCP or LSP server; a request to the gateway names an
execution, and the gateway keeps at least one record (`executor/gateway.py:139` refuses less); a text
of the memory has finitely many words, its limits are numbers, and nobody is no process; "absent" and
"partial", states of a file, are no contents of an artifact; the in-memory service numbers its runs,
of which there are finitely many, and "none" is no idempotency key. These say what the code's configuration and
identifiers are; none of them restricts what a process may do.

**TaskSupervisorProofs, the store.** `IInv` is the conjunction of `TypeOK`, `LeaseDiscipline`, `BudgetKept`,
`QuarantineKept` and `DependencyGate`. They need each other: the gate needs that a leased task has
an attempt, the budget and the quarantine what unclaimed rows hold, and all of them that only a
leased row has an owner. The argument is row by row. `StepMoves` shows that whatever a transaction
does to the table, each row makes one of a few *moves*; `MoveType` and `MoveKept` treat the moves,
once each; `GateStep` treats the one conjunct that relates rows. `InductiveInvariant` then gives
`TypeCorrectness`, `LeaseSafety`, `BudgetSafety`, `DependencySafety`, `QuarantineSafety` and
`RowsAreSound`. The action properties (`TerminalRowsFinal`, `ExpiredLeasesStayExpired`,
`FencedClaimsAdvance`) and the refinement (`StoreImplementsLifecycle`) reuse the same moves.
`FencedClaimsAdvance` assumes that every worker is fenced, which holds for the command line and
not for the service (`service/entrypoint.py:75`).

**TaskSupervisorProofs, the supervisor.** For any number of processes, runners, worker ids and tasks, and with
every fault. `SupStepIsStoreStep` shows that each step of the supervisor is one of the store or
leaves it alone, so that the store's invariant holds of the supervisor's tasks (`SupervisorUsesStore`).
`OnlyLatestAttemptActs` is not inductive: that the lease check compares a *version* must be tied to
the *attempt*. `ReadsAreOld` does it: what a runner has read is at most as new as its row, and
while the versions agree the attempts do. From the invariant follow `SupervisorTypes` and
`LatestAttemptActs`. `CancelRequestsWin` adds that a runner that has yet to read its row back after
a cancel request cannot end it as succeeded. `ExecutionIsExclusive` has the hypotheses of its run,
no stalls and no timeouts, and needs the longest invariant: a thread that executes belongs to a
runner whose lease is alive, or to a process that is down, whose leases have to expire before the
row is claimed again.

**TaskAdmissionProofs, tasks.** `AdmissionInvariant` ties the table of keys to the tasks and to what each
caller has been answered or has still to hear; `AdmissionIsSound` follows: a key stands for one
task and one request, an accepted answer names the task that was asked for, and a replay that
names its task is found.

**TaskAdmissionProofs, artifacts.** That every revision has its bytes is a statement about rows and files;
the process that writes the row has looked at the file steps before. `WorkFits` says of each process
what it has seen and still holds: past the check of the hash the file is complete, while it fills
a file that is not (and there are no hard links), the rows a bundle has copied are still the first
ones of its artifact. `OneWrites` makes the former last: the transaction that is open while a process
works on a file keeps the others off. `TablesGrow` (keys and revisions are only added, to the end)
makes the latter last. `RevisionAdded` treats the creation of an artifact and the revision of one
alike: one key more, bound to one revision more. `ArtifactInvariant` and `ArtifactsAreSound` follow,
for any number of processes and of stops.

**TaskAdmissionProofs, the application.** A run of the in-memory service is moved by its thread, its
engine and any number of callers. `PlaceFits` says at each place of the thread what there is of the
engine, its token, its report and its end. `EndFits` says that after the terminal event there is at
most one event more, and none while a stop can still be announced: with it a stream finds the end
in a history that drops events, and the service sees whether the engine has sent one. `StopFits` is how a
cancellation gets to the token: by the caller, when the start of the run was known, and else by the
thread that starts it. `RunSteps` treats the steps of one run alike (`Follows`: what it was asked for
stays, its events only grow, it takes no place of another); `TakeUpKeeps` and `SubmitKeeps` are the
two that take a place, below the limit. `ApplicationInvariant` and `ApplicationIsSound` follow.

**TeamRuntimeProofs, the bus.** `DeliveredUpToCursor` is not inductive: an acknowledgement may jump over
messages. It is harmless because pulls deliver initial parts, so what a consumer has received has
no gaps: `NoGaps`, which `BusInv` adds. One lemma per operation shows it keeps `BusInv`. From it
follow `BusTypeCorrectness`, `KeysAreUnique`, `ReplaysAreAccepted`, `NothingIsMissed`, `BusIsSound`
and `PastIsKeptForever`.

**ServiceRunsProofs, the durable service.** `RunsIInv` has the types, what a start remembers (`FoundOK`: a reading with
the row's version is the row as it is) and one conjunct per row (`RowsOK`): a run is claimed at most
once more than it was recovered, and not more often while it waits; it is recovered at most once;
its action was performed at most once and never without a receipt; its lease, and whoever wrote
its end, is the worker that claimed it last. Every step moves a row in one of seven ways (`RowStep`),
so the invariant is proved once per move and the moves once per action. `RecoveryIsSound` follows.
`WorkersHoldLeases` is about services that do not stall: a drainer that works on a running run
holds its lease live, nobody has reserved an action of a queued run, and nobody works on a run
that a start has read as abandoned and that has not moved since. These three are inductive only
together: the lease is what the start looks at, and a receipt counted before its run was released
is what decides between another attempt and an operator. With it `EndsAreKept` shows that an
attempt never starts a second time over a reserved action. With stalls it may: the receipts are
counted in one transaction and the run queued in another. The theorem says so by its hypothesis,
as the property does.

**ServiceRunsProofs, the gateway.** A restart forgets the records and keeps the children, while handles
and requests of the life before are still on their way, so `WgInv` carries the life everywhere.
`TablesFit` has what the gateway holds: a record is of this life and says what its child says,
a child of this life is the one its execution's record names, and `ChildSound` says of a child of any
life what its result, its process and its directory may be. `HandleFits` and `MessageFits` say what
a caller and a request on its way, a late one included, know: in the life they are from, the record
they ask about exists, has their digest and, once told of an end, that end. One lemma per operation
of the server shows that serving a request moves the tables on (`TablesMove`) and answers from them,
whoever asks and however late; `LifeGoesOn` then treats every step within a life and `RestartKeeps`
the one that starts another. `GatewayInvariant` and `GatewayIsSound` follow.

**FlowRunsProofs, flows.** The marks alone are not inductive: that a row may be resumed from needs that
every operation up to its sequence was settled when it was written, which needs that only the
operation of the runner's own node is ever open, which needs that no run goes on with an open
operation behind the latest checkpoint. `FlowIInv` says these together, with rows written node by
node under one definition; `LatestIsLast` reduces the greatest sequence to the last row. From it
follow `CheckpointsAreSound` and `DoneStaysDone`.

**FlowRunsProofs, sessions.** The code does not ask the ledger before a tool call; what keeps two
tools from running under one index of the log, and a tool from running unannounced, is the executor
alone. `CallsAreCounted` says that one process at most is the executor of the run, and none before
the run is there; `ProcessOK`, that its counter is above every index under which a tool took
effect, and that a call in progress was announced under its own. An event that the database
refuses changes none of this: a refused start keeps the tool from running, and a refused result
leaves the call ambiguous. `NewIsRecorded` treats the ledger: what was called new to somebody is in
it, and the transaction refuses the second entry. `ProcessOK` also says what an opening process has
read of the schema, which is never ahead of it, so that of two processes that apply a version
together the later finds it applied. `SessionInvariant` and `SessionsAreSound` follow, for any
number of processes, calls, deaths and schema versions.

**RedisBusProofs.** `StreamSound` is not inductive: that the cursor stays behind what was
acknowledged needs the same of the set ahead of it, and of the number a process has counted up to
and not written yet. `RedisIInv` says this once for each group and once for each process, with what
a process holds at every step of a pull; the argument is then about one group and one process at a
time (`MinIsLeast` and `MaxIsGreatest`, from the well-foundedness of `<`, treat the cursor's moves).
`StreamIsSound` follows: what was delivered is pending or acknowledged, and the cursor passes
nothing that no caller acknowledged, although it may itself go back. Processes may share a consumer
and crash between any two commands.

**TeamRuntimeProofs, the runtime.** For any number of processes, requests, attempts and crashes, one process at
a time: the theorems have the hypothesis `MaxAlive = 1`, as the run does, because two processes at
one request are beyond what the runtime promises (section 6). `TeamSound` relates messages of two
topics, rows of another database and what was run. `TeamIInv` adds, about the records, that a
verdict on the bus is a row of a committed outbox, that the rows of an outbox come from one commit,
and that a cancellation was acknowledged only for a request that was announced as cancelled; about
the attempts, that each one from the last allowed on either ended its request or belongs to a
process that lives or crashed at it. Counting those processes gives the bound on how often a
request is run, in terms of crashes and not of the topic's length. About the living process it says,
at each program counter, what it has read and that it still holds. `TeamIsSound` follows, and
`CommitsAreHeld`: a request is acknowledged only when it has ended and its outbox is delivered, and
one that has ended is never run again.

**CoordinatorProofs, the team.** That the work really done stays within the budget is not inductive: workers
end late, after their deadline or after they were given up, and what they have used is known only
then. `BoundsOK` counts every worker alive with all it may still use (its cap, and what a call may
take beyond it); the scheduler checks this sum before it starts a worker (`Fits`), so an end can
only lower it, and what has been used is below it. The sums are those of the library over finite
sets, about which the first part of the module proves what is needed: that the recursion has a
solution, that any element may be taken out first, that sums grow with their summands and fall into
parts. `CoInv` adds the path (a team is parallel or sequential for good), that the active workers
are the running ones, that only they and workers told to cancel are alive while a round is open, and
what completed and blocked rows say of results. `AcceptedIsAcyclic` shows that what Kahn's algorithm
accepts has no cycle: among any tasks there is one that depends on none of the others, so while
results are missing one task is next (`OneIsNext`). There is one lemma per step of the loop;
`CoordinatorInvariant` and `TeamWorkIsSound` follow, the latter for every plan, budget, deadline and
cancellation, with any number of fix rounds.

**CoordinatorProofs, the memory file.** `PromisesKept` is about the file; a process that holds the lock
has read the file earlier and replaces all of it. `MfInv` therefore says of each process what it owes
at its step (`WriterOK`): what it has read still holds every promised entry, what it has written to
the temporary file holds those and its own, and whoever is past the lock is the one the lock file
names. All of this is conditional on `~robbed`, that no process broke the lock of one that lives and
was only suspended past the timeout: then two write at a time, which the code accepts. That the file
stays within its limits needs no such condition: `Bounded` holds of the file, the temporary file and
every list in a process: what is added or replaced is checked against the limits, and a removal,
which is not, moves the later entries down and leaves the smaller sum (`SumMoves`).
`MemoryFileInvariant` and `MemoryFileIsSound` follow.

**CoordinatorProofs, the memory items.** A decision makes up to two changes in transactions of their own
before its record, while others change the same items. `CarriedOut` says, for every step of it, that
what is not yet done stands in its list and that the rest is done; `ItemsGo` (rows are only
appended, so what a row superseded stays superseded) keeps this through everybody's steps.
`HeadsOK` (a memory has one head) is kept by every change to an active row, and `raced` remembers
the one that was not. `MemoryItemsInvariant` and `MemoryItemsAreSound` follow.

**AgentRunsProofs, the tools.** `WritesAreSafe` relates a write to what its worker read before two
other steps: the leases, and the comparison of hashes. `WsInv` says that past the leases a call
holds all its targets, that a lease is only of a file its worker may write, and, for the step
between the comparison and the replacement, that a hash which is stale by then is so because of
somebody outside the team: no other worker can hold the lease. `ToolsWriteSafely` and
`WorkersAreSound` follow. The attempt to prove `KeyedOnce` found an error of the model: the lookup in
the ledger compared with a value the ledger never has, so no keyed call was ever made twice in
either way and the property said nothing. The lookup is what the code does now, the menu of calls
has keyed and other calls side by side, and `KeyIsKept` (a keyed call that ran is in the ledger or
still in hand) carries the proof.

**AgentRunsProofs, the loop.** A verified report is about the files at that moment; `ArInv` says that
between verification and reflection nothing touches them, and that a reflection the model is asked
for is about a verification that failed. The bound on calls needs that a call past its checks is
still within its budget, and the one on late calls that until a call begins none has begun since
the stop. `AgentInvariant` and `AgentRunsAreSound` follow for every goal and every budget.

**AgentRunsProofs, plan mode.** A plan is decided and a question answered in two steps, a check and a
store, by callers that share the rows. `PmInv` adds to `PlanSound` that a plan that waits was never
decided and that what a caller holds past its check still is an answer its question allows; that
everyone is told the same then follows from the store, which looks at the status again
(`StoreKeeps`). `PlanInvariant` and `PlansAreSound`.

**AgentRunsProofs, MCP connections.** A caller that gives up leaves its worker behind, so a result
belongs to its tool only because ids are given out once and what carries the id of a request that is
waited for is about its tool: `IdsGiven`, `IdsOnce` (an id stands in one request or one line at a
time) and `AboutTheTool`. That an open connection has nothing stray on the wire needs `Threads`
(who has the lock polls for its worker; a worker that nobody polls for works on a closed
connection) and `NothingStray`: until the connection fails or closes, whatever is on its way is
waited for. Two lemmas treat the wire, one per kind of step (a step that asks, a step that does not);
`ConnectionInvariant` and `ConnectionsAreSound` follow for any pages, tools and threads.

**AgentRunsProofs, LSP clients.** A response, a deadline, the end of the reader and the closing of the
manager race for one entry of the pending table, and whoever takes it must answer. `Unanswered` (who
is in a table waits and has no answer; who does not wait has none) makes this inductive, `RequestIds`
keeps a response from another's request, and `StartedOpen` separates the client that the closing
thread has taken from the one in the table and the one being started. `ServerSideKeeps` treats every
step that takes entries, `CallerKeeps` every step of a thread that lists none, `AskedKeeps` the one
that does; `LspInvariant` and `LspIsSound` follow, for any number of threads and of servers started.

**Only model-checked**: the invariants that `MCAgents` and `MCState` put together from the remaining
modules, and what the provers cannot reach: liveness, `ENABLED`, what a recursive definition computes
for every input (`ToolSchema` validates schemas by RECURSIVE operators, and no theorem can be stated
about a module that reaches one).

## 5. Statements that the model does not keep

Some modules state what one might expect and the code does not do. TLC finds a behaviour for each
of them; they stand in the modules next to what holds instead, and no run checks them.

| statement | module | what happens |
|---|---|---|
| `EveryTaskEnds` | `TaskSupervisor` | leases are recovered once, at start: those of a crashed process that run out after its successor has started are nobody's |
| `ReplayIsFound` | `TaskAdmission` | a caller that gives a key and no task id is refused when it repeats the request, since the digest holds the minted id |
| `CursorKept` | `RedisBus` | the cursor read before an acknowledgement of another process is written after it and goes back; `NothingLost` shows that nothing is lost by it |
| `NoBlindWrite` | `ScopedTools` | a file created between the check of the digest and the lease is overwritten by a worker that never read it |
| `NoBlindRerun` | `TaskSupervisor` | an attempt that changed files and raised is run again |
| `TerminalLast` | `AgentRuns` | a stop that was accepted as the run ended is announced after its terminal event |
| `StoppedIsLast` | `Sessions` | the log of a session goes on after its terminal event |
| `RevisionsGrow` | `Sessions` | the revision of a task state is read and written by two statements; with another process in between it goes back |
| `OperationOnce` | `FlowRuns` | an operation that was confirmed has no checkpoint yet when its process dies; it counts as settled and is done again |
| `ProtectedTextSaid` | `Contexts` | protected text loses to an unprotected duplicate of a higher rank, which a quota then drops |

Observations of the same kind that follow from the models, and from reading the code for them:

* A lease of a running task whose cancel was requested and that runs out is requeued with its
  cancel flag, and never claimed again.
* Mutating tool calls must call `record_side_effect`, says `context/session.py:20`; the executor of
  a run never does (`harness/agent_runtime_executor.py:206-304`), so after a crash only the
  ambiguous calls of the log tell an operator what may have happened.
* A thread that lists an LSP request after the reader thread has ended is answered by nobody and
  waits for its deadline (`lsp/client.py:190`, `lsp/manager.py:140`).
* The provider limit counts coroutines, not the threads that outlive a timeout
  (`tasks/runtime.py:231`).
* A stale execution of a durable run writes its events and its engine's id without a look at the
  lease, and its timer may fail its successor (`service/durable_application.py:404` says otherwise).
* In the gateway, timeouts are enforced only when somebody polls; a restarted gateway starts the
  same execution again beside a surviving child.
* Without hard links a crash leaves a partial blob that refuses its content from then on.
* A "cancelled" answer of a delegation may leave a worker thread running; calls of workers that
  crashed or were cancelled are never charged.
* MCP: a failed session stays open after an invalid result. LSP: a server whose initialization
  failed keeps running untracked.
* The desktop numbers events under a lock and delivers them outside it, so rows may be lost.

## 6. What is not modelled, and why

* *Subprocess executor of tasks* (`tasks/process_executor.py`): the supervisor sees a verdict, an
  exception or a timeout of it, as of any executor; its pipe protocol is planned.
* *Built-in tools* and *provider configuration*: one call or one record at a time, without a state
  between calls; `AgentRuns` and `ScopedTools` have the calls by what they do to files.
* *The PostgreSQL state store* of the team runtime, a second implementation of the same operations.
* *Two processes with one consumer id at the same time*: the team runtime has no lock between
  them, and both run a request they both pull.
* *Texts and numbers*: prompts, ranking, parsing, rendering, terminal screens. Their results enter
  the models as choices.
* Of the components marked "partly" in `PROJECT.json`, what each leaves out is in its note.

## 7. Plan

1. Proofs: `TraceReplay`, `DesktopRuns`, `RunEvents` and the other invariants that `MCState` and
   `MCAgents` put together.
2. The subprocess executor: the pipe protocol with cancellation, timeout and kill.
3. `TeamRuntime` over `RedisBus`, with processes that run at a time.

## 8. Running it

```
tlc -config TaskStore_rows.cfg MCTaskSupervisor.tla
tlc -config Services_suite.cfg MCServices.tla
tlapm CoordinatorProofs.tla
```
