# HelixGrid, specified

TLA+ specifications of HelixGrid: what the system's parts do, what they promise
each other, model-checked by TLC on small instances and, where it matters most,
proved by TLAPS for every instance.

All line references are to the repository this directory belongs to, relative to
`src/`. `PROJECT.json` maps every definition to the lines it stands for.

## 1. The system

HelixGrid runs workflows. A client submits a directed acyclic graph of tasks to
the **coordinator**; **workers** poll it for tasks, each handed out under a
time-limited **lease**; the coordinator follows the tasks' results, retries
failures after a back-off, takes back the tasks of workers that went silent, and
publishes every change as an **event** clients can stream.

    clients (Python/TypeScript SDK, CLI, dashboards, load generator)
        | HTTP: create, cancel, get, list            | SSE: events
        v                                            ^
    api/server.go --calls--> core/store.go --Publish--> EventBus (core/model.go)
        ^                        | uses
        | HTTP: register,        v
        | heartbeat, lease,   Workflow.Recompute / Cancel / TransitionTask
        | start, renew, log,  ValidateSpec / NormalizeRetry / RetryDelay
        | complete
    worker/src/main.rs        helixd main.go: calls Store.Sweep once a second

Beside them stand a Python chaos lab, which drives a reference model of the
coordinator through random scenarios and shrinks those that fail, a Tk dashboard
that runs the whole with docker compose, a Java verifier that replays exported
events, a PostgreSQL schema that does the store's work in SQL functions, and a
C++ scheduling simulator.

### Inventory

| Component | State it keeps | Operations | Hard behaviour |
|---|---|---|---|
| Store (`coordinator/internal/core/store.go`) | workflows, workers, leases, idempotency keys | create, cancel, register, heartbeat, lease, start, renew, log, complete, sweep | expiry, cancellation and completion race for a task; each lease is recorded twice; counters adjusted by hand |
| Workflow model (`core/model.go`) | task runtimes, workflow state | Recompute, Cancel, TransitionTask | one pass in topological order must reach a fixpoint; when a failed workflow ends |
| Specification validation (`core/model.go`) | none | ValidateSpec (Kahn), NormalizeRetry, RetryDelay | cycles; doubling up to a cap |
| Event bus (`core/model.go:451-529`) | bounded log, subscribers' bounded channels | Publish, Replay, SubscribeReplay | truncation, dropped sends, snapshot against live |
| HTTP API (`api/server.go`) | one loop per event stream | routes; SSE loop | recovering dropped events in order, without duplicates |
| helixd (`cmd/helixd/main.go`) | sweep ticker, signal context | run, shut down | restart forgets everything; sweep during shutdown |
| Analytics (`core/analytics.go`) | none | AnalyzeWorkflow | critical path on a snapshot, clamped durations |
| Worker agent (`worker/src/main.rs`) | session, semaphore, a renewal task and a child process per lease | register, heartbeat, poll, run_lease, drain | lost replies, renewal that gives up while the child runs, timeouts racing exits, shutdown |
| Replay verifier (`tools/replay-verifier`) | a state per task and workflow | replay, check | must accept every history the coordinator publishes |
| Chaos lab: model (`tools/chaos_lab/model.py`) | workflows, workers, leases, closed leases, a clock | the coordinator's operations, stale and duplicate calls, check_invariants | methods that raise after a change; a dropped worker that registers again |
| Chaos lab: generator, runner (`generator.py`, `runner.py`) | none between scenarios | workflow, workers, scenario, next_action; replay | choices made from the model's state; a violation inside the generator |
| Chaos lab: shrinker (`shrinker.py`) | the scenario so far, the pass, its cursor and granularity | shrink: ddmin, simplify, remove workers, remove tasks | an oracle that may raise; passes that undo each other; termination |
| PostgreSQL functions (`storage/postgres/schema.sql`) | tables | claim_runnable_task, recover_expired_leases | row locks, SKIP LOCKED, several sweepers |
| Simulator (`simulator/src/main.cpp`) | ready queue, running heap | simulate | list scheduling with retries |
| Python client, CLI (`sdk/python/.../client.py`, `cli.py`) | a builder's tasks; none between commands | build graphs, submit, wait, cancel, stream events | polling deadline, slow requests, lost answers, calls that fail half way |
| Python DSL (`dsl.py`) | none | validate, find_cycle, topological_order, compile, critical_path, statistics | agreement with the coordinator's validation |
| Dashboard (`dashboard/helix_dashboard.py`) | `_busy`, threads, `_events`, what is shown | start, stop, restart, run, logs, cancel, refresh | threads against timers and one queue, answers that are late or lost |
| TypeScript SDK, load generator, native dashboard, installers, file tools, protocol files, CI | - | - | not part of the core logic, or further clients |

### What makes each part correct

* **Store**: one live lease per task at most, both records of it equal; tokens
  fence attempts; `ActiveLeases` is the number of leases held, within capacity;
  results only from the holder of a live lease; final states stay final; leases
  of the silent expire; every workflow ends if workers do their part.
* **Workflow model**: dependencies first; a verdict that follows from the tasks;
  nothing left unfinished or leased in an ended workflow; an open workflow
  always has something that can move.
* **Validation**: exactly the acyclic graphs are accepted, with a topological
  order; delays grow to the cap and never beyond.
* **Event bus and stream**: identifiers increase; a subscriber sees every retained
  event of its workflow once, in order.
* **Worker agent**: one process per held lease; at most `concurrency` of them; a
  process is reported once or its lease runs out; shutdown ends.
* **Chaos lab**: the reference model keeps the promises of leases, and its checks
  fail only when something is wrong; the generator asks for nothing out of order;
  the shrinker keeps the failure and leaves nothing superfluous.
* **Clients, DSL**: what they build or compile is what the coordinator accepts;
  waits end on time; reports are true.
* **Dashboard**: one action at a time; it comes to show what is there.
* **Replay verifier**: it accepts every history of the coordinator.
* **PostgreSQL**: the same promises as the store's, under concurrent transactions.

The repository states its own list, README.md lines 350-361 ("Failure model"):
a token identifies one attempt, stale completions are rejected, a worker never
exceeds its capacity, a workflow succeeds only if every task does, a failed
dependency prevents its dependents, cancellation is monotonic, expired leases
are recoverable. The properties below cover all of its points; cycles (point 8) are covered by
`ValidatorsAgree`, event identifiers (point 10) by `ReadsInOrder`.

## 2. What is modelled

### `Coordinator`: the store

Every method of `Store` locks `Store.mu` on its first line and unlocks it by
`defer`, so each method is one atomic step: one action.

| Action | Method |
|---|---|
| `CreateWorkflow(f, key)`, `CancelWorkflow(f)` | `Store.CreateWorkflow`, `Store.CancelWorkflow` with `Workflow.Cancel` |
| `RegisterWorker(w)`, `HeartbeatWorker(w)` | the methods of these names |
| `LeaseNext(w)` = `LeaseNextGrants` or `LeaseNextEmpty` | `Store.LeaseNext`, sweep and recomputations included |
| `StartLease(l)`, `RenewLease(l)`, `AppendLog(l, size)`, `CompleteLease(l, ok)` | the methods of these names; each begins with `TouchOverdue(l)`, the expiry of an overdue lease it was called with |
| `Sweep` | `Store.Sweep`, called by helixd's ticker |
| `Tick` | time passing |

State:

* `store` is the record of what the helpers change: `wf` (workflow states), `rt`
  (task runtimes), `leases` (`Store.leases`), `active` (`Worker.ActiveLeases`).
  The code's in-place helpers (`sweepLocked`, `expireLeaseLocked`, `Recompute`,
  `Cancel`, the bodies of `LeaseNext` and `CompleteLease`) are operators from a
  store to a store (`Swept`, `Expire`, `Recompute`, `Cancel`, `Grant`, `Renew`,
  `Close`), composed in the order the code calls them.
* `registered`, `age`: the workers, and the time since each one's heartbeat.
* `arrivals`: the workflows by creation time, the order `LeaseNext` serves them.
* `idempotency`, `issued` (tokens drawn so far), `bus`.

Abstractions. A workflow or worker identifier is a constant that is used at most
once, as `newID` draws identifiers that are new: that it does is taken for granted, of
tokens too, and what `ClosedTokensStayClosed` adds is that no method brings a token
that was removed back. A registration always makes a new worker. Deadlines are countdowns: the code only compares them with the clock,
by `!now.Before(deadline)`, which is `ttl = 0`. A countdown of 0 stays 0, so a
deadline may be arbitrarily long past when the next call comes. `StartedAt` and
`FinishedAt` are Booleans (set or nil). Exit codes and messages are one Boolean,
`ok`. Labels are the relation `Fits`. Calls the code refuses without a change
(unknown token, wrong state, invalid body) are not steps. What `ValidateSpec` and
`NormalizeRetry` guarantee stands as the assumptions `GraphAssumption`,
`OrderAssumption` and `PolicyAssumption`; `Dag` and `Retry` model those two. The event bus is a parameter: every action hands its events,
in the order the code publishes them, to `Deliver`; the instances here discard them, and
`EventStream` leaves open who publishes what.

`Survivors` gives Recompute's cancellations in closed form instead of a loop:
the largest set of waiting tasks that has no unsuccessful dependency, directly or
through one another. That keeps the module free of recursion, so that it can be
proved about; `RecomputePass` justifies it.

### `RecomputePass`: the loop

`Workflow.Recompute` as it is written, turn by turn over the topological order with
its three flags (`PassTurn`, `Turns`, `RecomputeLoop`), compared with `Recompute`.

### `EventStream`: the event bus and its readers

`EventBus` and the handler of `GET /v1/workflows/{id}/events`, for any number of
clients. `EventBus.mu` makes each bus method one action; the handler runs beside
them, and each of its steps is an action:

| Action | Code |
|---|---|
| `Publish(f)` | `EventBus.Publish` of an event about `f` |
| `Connect(s)` | the request up to `SubscribeReplay`, snapshot and channel under one lock |
| `Receive(s)`, `Ping(s)` | the two cases of the handler's `select` that go on |
| `Flush(s)` | `flushReplay`'s call of `EventBus.Replay` |
| `Send(s)` | one turn of the loops that write events |
| `Hangup(s)` | the end of the connection and the deferred `cancel` |
| `Read(s)` | the client reading the response (`iter_events` of the SDKs) |

`published` remembers every event's topic, its index being the identifier, so that
`nextID` is its length; `events`, `channel`, `pending` (the rest of the slice a loop
ranges over) and `lastSent` are the code's. What was written and not yet read is in
`wire`, and is lost with the connection; a client that connects again sends the last
identifier it has read as `Last-Event-ID`. An event is an identifier and a topic.
Publishers are left open: any topic at any time, so between two events of one store
method too.

`OrderedFeed` is the abstract specification: a client reads the events of its
workflow in order, once each, and skips one only if it has left the log.
`EventStream` implements it (`ReadsInOrder`).

### `Dag` and `Retry`: the shared algorithms

Pure operators. `Dag` is the topological order by Kahn's loop with a sorted queue,
and the reasons for refusing a graph, which `Model.validate_dag`, the Python
builder, the DSL and `ValidateSpec` compute each for itself, with the one that
`validate_dag` raises for (`FirstRefusal`): `Unblocked` is what
their counting of indegrees comes to, repeated, unknown and own names included.
`Retry` has both normalisations (`Normalized`, `NormalizedByDefaults`) and the
doubling with its cap.

### `ReferenceModel`, `ChaosRunner`, `ScenarioGenerator`, `ChaosLab`: the chaos lab

`Model` of `model.py` is a sequential class, so each of its methods is an operator
from a model, a record of its fields, to an *answer*: the model it leaves and the
code of the `ModelError` it raises, if any. A method can raise after it changed
something: `Unusable` expires an overdue lease and refuses the call, as
`ensure_live_lease` does. `ChaosRunner` has `check_invariants` as the set of codes
that fail (`Violations`), `Model.apply` and `ScenarioRunner.replay`;
`ScenarioGenerator` has every workflow, worker specification and action the
generator's random draws can come to, whatever their weights.

`ChaosLab` is the state machine. It begins with any bootstrap that did not raise; a
workflow, its workers and the model are drawn in `Init`. `Generate` is one turn of
`ScenarioGenerator.scenario`, `Follow` one of `replay`, on a script that asks for
what the generator never would: a closed or unknown token, a dropped worker, a
second registration. `LeaseService` is the abstract specification: a task is idle,
held under a token, decided by its holder, or dropped; a token is given out once.
`ChaosLab` implements it (`KeepsThePromise`), with the phases of tasks, their
`lease_token` and the tokens of live and closed leases as the refinement mapping.
So does `Coordinator` (`KeepsThePromise` in `CoordinatorProperties`, with the tokens
drawn so far as those spent): the reference model and the store it is a reference
for keep one promise.

### `Shrinker`: delta debugging

`ScenarioShrinker.shrink` with its loops as actions, one candidate replayed per
step: `TryChunk`, `RefineChunks`, `EndChunks` (`_ddmin_actions`), `TryVariant`,
`NextAction`, `EndSimplify` (`_simplify_actions`), `TryWorker`, `EndWorkers`,
`TryTask`, `EndTasks`, and `NextRound`, `Finish`. `trial` is the scenario the pass
has come to, `current` the one of `shrink`. The oracle is `Replay`, strict or not,
with one of three predicates; the third raises when there is no failure, and
`_fails` takes that for a success of the removal, while the last replay lets it
through (`outcome` "raised"). A text is its length, except that the "x" which the
shrinker writes differs from other texts of one letter.

### `WorkflowBuilder`, `DslGraph`, `BuiltGraphs`: graphs in the Python SDK

`WorkflowBuilder` is the builder's state machine: `NameTask` (`task`), `Connect`
(`depends_on`, which may raise half way and keeps what it did), `Build`. A
definition holds the builder's own `Task` objects, so `built` is only an order of
names. `DslGraph` has the DSL's algorithms: depth-first search for a cycle,
`validate`'s errors about the graph, compilation, the critical path, the width.
`CriticalPath` has both of its exceptions, the `DSLError` of a cycle and the `KeyError`
of a path that leads to a dependency that is no task.
`BuiltGraphs` extends both: its invariants give every graph the builder comes to, and
the same graph with one task more that only the DSL can write, to all of them. The
recursive search is the function `VisitRun` of the number of calls that may be open, the
loops are functions of the number of turns, so that both can be proved about.

### `Cluster`, `Dashboard`, `CommandLine`, `Frontends`: the Python front ends

`Cluster` is what the front ends find: Docker, the compose project, a coordinator
that answers, ends workflows, and forgets them when its process dies. `Dashboard`
has a thread of `_background` as the list of what it still has to do
(`WaitForDocker`, `BringUp`, `BringDown`, `WaitForCoordinator`, `Submit`, `Follow`,
`ReadLogs`, `Returns`, `Finally`), the probe threads step by step (`Probe`), the
timers (`PeriodicRefresh`, `PollEvents`) and the buttons. A call may fail, time out
after it took effect, or succeed with its answer lost; the window then shows an error,
which is left out, and what is listed is refreshed or not. `CommandLine` has one
command of `cli.py` at a time, with a clock: `Tick` lets time pass while a request
is out or `wait` sleeps, never beyond `Patience` or the end of the sleep. `Patience`
is an assumption about the network: the 15 seconds given to `urlopen` bound each
operation on the socket, and a server that sends its answer in drops can hold a request
for longer. `Frontends` puts the two beside one cluster.

### `CoordinatorProperties`

The properties of section 3, apart from the model so that other modules can use
the model alone. The `MC` modules hold the instances.

### The proof modules

| Module | On top of | About |
|---|---|---|
| `CoordinatorProofs` | `CoordinatorProperties` | invariants and action properties of the store |
| `CoordinatorOutcomeProofs` | `CoordinatorProofs`, `RecomputePass` | counters, verdicts, refinement, Recompute's loop |
| `EventStreamProofs` | `EventStream` | the order of a client's events |
| `FrontendsProofs` | `Frontends` | what the window and the commands say |
| `DagProofs` | `Dag` | Kahn's order and ancestors, for every graph |
| `WorkflowBuilderProofs` | `BuiltGraphs`, `DagProofs` | what the builder holds; the DSL's algorithms; retry delays |
| `ShrinkerProofs` | `Shrinker`, `DagProofs` | what shrinking keeps and leaves |
| `ChaosLabProofs` | `ChaosLab`, `DagProofs` | the reference model under both drivers |

Section 4.

## 3. What is checked

| Run | Configuration | Checks | Shows |
|---|---|---|---|
| `coordinator` | `MCCoordinator.cfg` | `TypeOK`, 7 invariants, 4 action properties | two workers with different labels and capacities on the join {a, b} -> c, a with one retry |
| `two_workflows` | `MCTwoWorkflows.cfg` | `ActiveCountsLeases`, `KeepsThePromise` (refinement of `LeaseService`) | two workflows on one worker of capacity two, logs and idempotency keys included |
| `live` | `MCLive.cfg` | `SilentLeasesEnd`, `RetriesWake`, `WorkflowsEnd` | the chain a -> b, a with one retry, b fit for one of two workers |
| `recompute_pass` | `MCRecomputePass.cfg` | `PassAgrees` | every assignment of states to a five-task graph |
| `event_stream` | `MCEventStream.cfg` | `ReadsInOrder` (refinement of `OrderedFeed`), `Delivered` | two clients of two workflows, a log of two events, channels of one |
| `reference` | `MCChaosLab.cfg` | `TypeOK`, 3 invariants, 2 action properties, `KeepsThePromise` (refinement of `LeaseService`) | generated scenarios of two and three tasks, scripts about one |
| `shrinker` | `MCShrinker.cfg` | 3 invariants, `Converges` | every failing script of up to four of eight actions over a diamond |
| `algorithms` | `MCWorkflowBuilder.cfg` | 5 invariants | every graph of up to four tasks and four edges |
| `frontends` | `MCFrontends.cfg` | 3 invariants, `ComesToRest` | a window with two probe threads, then commands, one workflow |
| `attempt_budget`, `stale_retry_time`, `stale_finish` | `MCAttemptBudget.cfg`, `MCStaleRetry.cfg`, `MCStaleFinish.cfg` | one each, violated | section 5 |

The properties, in the order of the module:

* `LeaseMatchesTask`: the lease table and the task runtimes agree on each lease.
* `ActiveCountsLeases`: `ActiveLeases` counts the worker's leases, within capacity. With
  two workflows on one worker (`two_workflows`), this and `KeepsThePromise` say that a
  cancellation of one workflow leaves the leases of the other counted and held.
* `DependenciesDone`: no task gets going before its dependencies succeeded.
* `TerminalIsQuiet`: an ended workflow has no unfinished task and no lease.
* `OutcomeJustified`: verdicts and cancellations follow from the tasks.
* `NeverStuck`: an open workflow has a task that can move, and no task waits in vain.
* `BudgetDecides`: FAILED means attempts spent, RETRY_WAIT means some left.
* `ClosedTokensStayClosed`: a token that is not live never comes to life again.
* `ResultsNeedALiveLease`: a result is decided by the holder of the unexpired lease.
* `FinalIsForever`: ended tasks and workflows never change state.
* `BackoffRespected`: no retry before its time.
* `KeepsThePromise`: whatever one method runs together is one step of the abstract
  lease protocol.
* `SilentLeasesEnd`, `RetriesWake`, `WorkflowsEnd`: recovery and progress.
* `ReadsInOrder`: the stream implements the feed: order, no duplicate, no gap.
* `Delivered`: no dropped event stays undelivered. Receiving is not enough: the
  channel may be full of other workflows' events, which wake nobody; the handler
  finds the event only because the keepalive ticker flushes as well.

The chaos lab:

* `TypeOK`: fields in range, and no method cut short by a forbidden transition.
* `OverIsQuiet`: an ended workflow, FAILED ones included, holds no lease and no
  unfinished task.
* `GeneratorAsksInOrder`: what the generator chooses is refused only because a
  worker was silent too long or a log is full, or because it was meant to be stale.
* `EveryTaskHasAPlace`: some worker may take each task.
* `OnlyTwoChecksCanFail`: of the model's checks only `ATTEMPT_BUDGET` and
  `LEASE_WORKER_INDEX` can, each in one way: a lease after an expiry, and a worker
  that registers again while its leases live.
* `ClosedStaysClosed`, `KeepsThePromise`: tokens and leases as promised.
* `NothingLost`: what a pass accepts satisfies the predicate or makes it raise, which
  `_fails` takes for the same; a scenario that does not fail may thus be shrunk further,
  but is never returned, as the last replay ends in the predicate's own exception. The
  `RuntimeError` "shrinker lost target failure" is out of reach of every predicate.
* `ResultIsMinimal`: what a round leaves as it was is minimal: no single action, idle
  worker or idle task can still be removed and no time step shortened. Of a graph that
  `validate_dag` refuses nothing is said about tasks: removing one may not come back.
* `OrderSurvives`: each task left waits for just those it waited for.
* `Converges`: shrinking ends. It needs no fairness: `Spec` stutters only when
  `shrink` has returned, and a step that is not a stutter is always possible before,
  which the deadlock check shows, so an infinite run of steps is what is excluded.
  And it is a round without a change that ends it, not `max_rounds`, for scripts of up to
  four actions: longer ones may use the rounds up.

The Python SDK:

* `BuildsWhatIsValid`: the builder holds no graph the coordinator would refuse but
  for a cycle, and builds exactly when there is none.
* `ValidatorsAgree`: search and counting refuse the same graphs for the same
  reasons, the reported cycle is one, what compiles is ordered.
* `CriticalPathIsLongest`, `WidthIsReached`, `BackoffIsCapped`: against reference
  definitions (all chains, all independent sets, the closed form of the delay); the
  critical path raises for a cycle and for nothing else the builder makes.

The front ends:

* `OneActionAtATime`: busy exactly while a thread runs or its idle event waits, and
  nothing of an action comes after its idle event.
* `SaysTheTruth`: the window's message of success and the exit codes are true.
* `WaitIsPunctual`: how late `wait` notices the end, and how early or late it gives up.
* `ComesToRest`: once the cluster rests, the window shows what is there, whatever
  older probes report, and is busy only with a workflow that does not end.

Every property has a mutant: a plausible bug in one definition (`..._OffByOne`,
`..._Never`, ...) under which TLC finds it violated.

### Bounds, and why they are enough

* `MaxLeases` (3 or 4) bounds the tokens ever drawn. With four a task can be
  leased, lost, leased again, fail and be retried, or two leases of one worker
  can expire in one sweep while a third is being completed. In `live` a workflow
  that has spent the tokens is excused, explicitly, in `WorkflowsEnd`.
* `LeaseDuration` 2 and `WorkerTTL` 1 let a lease be renewed half way, expire
  before and after its worker does, and be touched at its very deadline. `live`
  uses 1 and 0: each deadline passes in one tick.
* A delay of 2 gives a retry a deadline that is some way off, near and past, while
  the other tasks' leases run, are renewed and expire; `live` uses 1,
  `two_workflows` 0.
* In `event_stream` four events pass through a log of two and channels of one, so
  there are sends that find the channel full, of the client's own events and of
  others', and slices that outlive the log. Connections are not bounded.
* Three tasks give a join, whose failed side must wait for its active one before
  the workflow ends; the chain gives cascading cancellation; two workflows give
  the order of service and the isolation of a cancellation. The five-task graph
  of `recompute_pass` has a diamond and a second root, so a cancellation travels
  two levels and by two ways.

* `reference`: one step of two ticks or two of one let a lease expire at and before
  its deadline and a worker outlive its heartbeat (`WorkerTTL` 1); three leases let
  a task be leased, lost and leased again beside another one. Generated scenarios
  have two tasks side by side after a third, or a chain whose second asks for a
  label; scripts are about one task. `MaxWriters` (1) bounds the tasks that have output
  at a time: one writes a log, up to its limit.
* `shrinker`: four actions are enough for two refinements of ddmin and for the
  order to matter; the amounts allow two rungs; a diamond makes the removal of a
  task rewire its two neighbours and drop a duplicate. Six rounds are never used up by
  such scripts (`Converges` says so).
* `algorithms`: four tasks, their names not in the order they are added, and four
  edges: a cycle of each length, a diamond, two components; in addition, nodes with
  a fifth task that repeats a name or a dependency or names none. Policies reach
  past every limit of `NormalizeRetry`, scaled down.
* `frontends`: two probes at once, so that an older one reports last. The bound
  `Prober` counts probes whose report was not yet handled; the code has none. A
  request takes up to two ticks, a poll one; timeouts of 0 and 3 fall at and between
  polls. The window and the commands are used one after the other: they share
  nothing but the coordinator, whose own moves (a crash, an end, somebody's
  cancellation) include what the other one could cause.

Two workflows with one worker and one workflow with two workers are checked
apart: the code treats workers independently but for the tasks they compete for,
and both competitions occur.

### Fairness

`ServerFairness`: weak fairness of `Sweep` (helixd's ticker, `main.go:38-47`, runs
as long as the process) and of `Tick` (time passes). Nothing else is assumed for
`SilentLeasesEnd` and `RetriesWake`. `WorkflowsEnd` is conditional on
`WorkerFairness`, which says workers do their part: they register, heartbeat and
poll (the agent's loops, `worker/src/main.rs:347-393` and `427-467`), and a task
that has a live lease time and again is in the end completed with success. These
are assumptions about workers and the programs they run, not about the
coordinator: strong fairness is needed because a heartbeat or a lease may run out
between two calls of a worker. Without them only a cancellation ends a workflow.

`event_stream` assumes that the handler's goroutine runs (`Send`, `Receive`,
`Flush`), that the 15-second ticker fires (`server.go:298`) and that a client reads
while it is connected; nothing about publishing, connecting or hanging up.

`frontends` assumes that a background thread runs and its calls end (`Working`; every
call has a timeout), that probes do (`Threads`), that the timer fires (`Timer`) and
that the window's loop takes events from the queue (`Polling`), which includes that a
message box is dismissed, as it holds up the loop that showed it. Nobody has to
click, and nothing is assumed of the cluster but, in `ComesToRest` itself, that it
comes to rest.

Deadlock is checked in every run but `reference`, where a scenario really ends.

## 4. What is proved

For every value of the constants that satisfies the named assumptions. Of the
coordinator these are `GraphAssumption` (any finite or infinite sets of workflows,
tasks and workers, any acyclic graph), `OrderAssumption` (each task stands in the order
once, after what it depends on; only the proofs about Recompute's loop use it) and
`PolicyAssumption`; the event bus is any. Of the event stream it is `StreamAssumption`:
any clients, topics, log and channel sizes of at least one, any number of events. Of the front
ends they are `FlowAssumption` and `TimingAssumption`: any workflows, any timeouts,
any positive poll interval, any bound on the duration of a request as a whole
(`Patience`, section 2), any number of probes. Of the
builder: `NamesAssumption` and `UnknownAssumption` (any distinct names, any number of
them), `WeightsAssumption` (any integer weights), `PoliciesAssumption` and
`DefaultsAssumption` (any integer policies, limits that are positive). Of the shrinker: `ScenariosAssumption`, `RoundAssumption` and
`LadderAssumption`: any scenarios of the right shape, any workers and scripts, any ladder,
any number of rounds. Of the chaos lab: `LimitAssumption`, `ConfigAssumption` and
`BoundsAssumption`: any limits of leases, heartbeats and logs, any sizes of workflows and
crews, any label sets, any integer policies, log texts within one chunk, any clock,
any number of leases and of writers.

### The coordinator

In `CoordinatorProofs`:

* `InvariantHolds`: `Spec => []Invariant`, the inductive invariant.
* `TypeCorrect`, `LeasesMatchTasks`, `DependenciesFirst`, `BudgetKept`: the
  invariants `TypeOK`, `LeaseMatchesTask`, `DependenciesDone`, `BudgetDecides`.

The second half of `CoordinatorProofs` has the action properties:

* `TokensStayClosed`, `ResultsFromHolders`, `FinalStaysFinal`, `BackoffKept`: the
  action properties `ClosedTokensStayClosed`, `ResultsNeedALiveLease`,
  `FinalIsForever`, `BackoffRespected`.

In `CoordinatorOutcomeProofs`, about the counters:

* `CountersRight`: the invariant `ActiveCountsLeases`;
* `AttemptsCounted`: the action property `AttemptsCountLeases`, that the attempt counter
  moves with the leases, one by one. It is local to each method, so no run checks it.

The argument. `Invariant` is `TypeOK` and `Sound(store)`, where `Sound` is a
predicate of a store value, so that it can be carried through the composition of
helpers inside one method: `...Fields` lemmas say what a helper does to each
field, `...Sound` lemmas that it keeps `Sound`, and the theorems join them action
by action. None of the parts is inductive alone:

* typing needs `Attempted` (a held task has been attempted), as a retry's delay
  is `Delay[t][attempt]`, defined from attempt 1 on;
* `Matches` (that is, `LeaseMatchesTask`) gives `OneLease`: two leases of one task
  are equal, because both equal what the task records. Expiring, renewing or
  closing a lease can thus not leave another lease of that task behind;
* `Untouched` says tasks of a workflow that is not there yet are PENDING, so
  opening it cannot take a leased task's runtime away;
* `Ordered` (`DependenciesDone`) holds because a success is never undone and only
  a pass takes a task out of PENDING;
* `WithinBudget` (`BudgetDecides`) holds because a failure compares the counter
  before it decides, and no helper changes the counter of a task in either state.

The action properties follow from the same invariant and the step relation. A
method is a composition of helpers, so what a step may never do is stated as
relations between a store and a later one that compose: `Steady` (what ended
stays ended, a retry that is not due is left alone) and `Undecided` (no attempt
gets its result). Every helper but the completion and the cancellation of a task
is both; those two are treated by themselves. `NextPermitted` joins them.

The counters need a second invariant, `Accounts`: each count is the number of
leases held and within capacity; leases belong to registered workers, under
tokens already drawn; tasks of a workflow that is not there yet have no attempts.
The second part is what makes registering a worker safe, which sets its count to
0: a worker that is not registered holds nothing. The third makes opening a
workflow safe, which replaces the runtimes of its tasks. `Tame` is the relation
of a change that grants nothing; every helper but `Grant` is tame, and `Grant`
adds one to one count for one lease with a token drawn in the same step.
`ReleasedCounted` shows that the code's `> 0` guard on the decrement never bites.

There too, about outcomes:

* `OutcomeInvariantHolds`: `Spec => []OutcomeInvariant`, the third inductive invariant;
* `EndedIsQuiet`, `VerdictsJustified`, `WorkflowsCanMove`: the invariants
  `TerminalIsQuiet`, `OutcomeJustified`, `NeverStuck`.

Between two methods every workflow is `Settled`, which joins these three: `Quiet`,
`Judged`, `Moving`, and `Grounded` (a task that no client cancelled is CANCELLED below
an unsuccessful one). Inside a method only `Grounded` survives: a completion breaks the
others, and the pass that ends the method restores them. So the main lemma,
`RecomputeSettles`, asks for `Grounded` alone and gives `Settled`, whatever was done to
the tasks since the last pass. That a pass leaves something that can move is where
acyclicity is used (`FirstTask`): of the tasks that wait one waits for none of the
others, so it waits for something active, or for a success, and then it does not wait;
of the cancelled tasks one is below none of the others, so it is below a failed one, and
the workflow is FAILED. Methods without a pass only move tasks between active states
(`Stirred`), which settles nothing and unsettles nothing; a cancellation ends everything.

There too, the refinement:

* `CoordinatorKeepsThePromise`: the store implements `LeaseService`, the refinement
  `KeepsThePromise`.

Most helpers only take tasks away from their holders or drop them: they `Yield`, and
yielding composes. A method is then a chain that yields around at most one grant
(`GrantingStep`) or one result (`CompletingStep`), and such a chain is one step of
`LeaseService`; that the granted token was never given out is `Accounts`, that the
completed task was held under this very token is `Matches`.

There too, about Recompute's loop:

* `LoopIsClosedForm`: the loop computes `Recompute`, for every graph, order and runtimes;
* `OnePassIsEnough`: a second pass at the same instant changes nothing;
* `PassAlwaysAgrees`, `CoordinatorPassAgrees`: the invariant `PassAgrees`, of `PassSpec`
  and of the coordinator's own `Spec`.

After n turns the loop's variables are what the closed form makes of the first n tasks
(`TurnsClosed`): the order puts dependencies first, so a turn finds them already as the
closed form leaves them (`TurnInOrder`, `PassTaskClosed`), and the transitive
cancellation the closed form states by a largest set is found by looking one level down.
`Turns` is a recursive function: the closed form solves its equation, hence `CHOOSE`
picks a solution (`TurnsUnfold`), and two solutions agree up to the least number at which
they do not (`LeastNumber`, from the well-foundedness of `<`).

### The event stream and the front ends

In `EventStreamProofs`:

* `StreamsUnbroken`: `Spec => []FeedInvariant`, the inductive invariant;
* `HandlerKeepsOrder`: the handler implements `OrderedFeed`, the refinement `ReadsInOrder`.

What a client has read, what is on the wire, what the handler sent last and what it still
ranges over form one chain, each event followed by the next of its workflow that the log
still has (`Succeeds`, `Chain`, `Unbroken`). Publishing breaks no link, because what a
link skips has left the log and does not come back (`StillSucceeds`), though the slice a
handler ranges over may itself outlive the log. A link is made only by `Replay`, whose
result continues the chain from wherever it was asked to (`ReplayRight`, by induction over
its loop, from `LogOf`: the log is the last events, under consecutive identifiers). The
channel does not occur in the invariant at all: what is sent does not depend on it, only
when (`Delivered`, which stays with TLC).

In `FrontendsProofs`:

* `FrontendsInvariant`: `Spec => []Inv`, the inductive invariant;
* `FrontendsTellTheTruth`: the invariant `SaysTheTruth`;
* `WaitKeepsTime`: the invariant `WaitIsPunctual`;
* `FrontendsActAlone`: the invariant `OneActionAtATime`.

None of them is inductive alone. A report is true when it is made because of
what was read earlier, so `Inv` follows what was read through the threads: a command
that was answered with a final state (`Truthful`), a thread that has left its
`follow` step (`JobOK`: what it still has to do is in the order of its work, and a
thread past `follow` has a workflow that succeeded), an event in the queue
(`QueueOK`). What joins them is one fact about the cluster, `EndsKept`: no step, not
even a cancellation, changes a state that is final (`ClusterStepKeepsEnds`); a crash
makes the coordinator forget, it does not make the report wrong. Time is kept by
`Clocked`: while a request is out, the workflow has been over for no longer than the
request's age and the poll before it; asleep, for no longer than a request and the
sleep so far; and a wait that timed out had read, no longer ago than its request
took, that the workflow was running. `OneFrontEnd` says no command runs while the
window is open, which is what lets each half ignore the other. `OneAction` adds to
`OneActionAtATime` that there is at most one idle event in the queue, with nothing but
probes behind it: without that, taking one idle event from the queue could leave another.

### Graphs, and the builder

In `DagProofs`, which has no state: `KahnSound` (the order names tasks of the graph, each
once, after all it needs), `ValidDagMeans` (what `validate_dag` accepts, in terms of the
tasks), `AncestorsClosed` and `AncestorsLeast` (the ancestors are the least set that
holds a task's needs and theirs), and

* `AcyclicIsComplete`: Kahn's loop places every task exactly when no task is its own
  ancestor.

The loops are recursive functions; an argument about one is by the least number of turns
for which it fails (`LeastNat`). If the order is complete, places rank the tasks, and
those of lower rank hold all ancestors; if it is not, each task left over needs another
one left over, and the one with the fewest ancestors would need one with fewer still.

In `WorkflowBuilderProofs`:

* `BuilderTypes`: the inductive invariant: a name is that of its place, needs are other
  tasks, none twice, and a definition that was not outdated since is the Kahn order;
* `BuilderIsValid`: the invariant `BuildsWhatIsValid`;
* `BackoffIsRight`: the invariant `BackoffIsCapped`, of policies without bounds. The loop
  doubles and stops at the cap; `BackoffDoubles` gives the closed form for every attempt;
* `EstimateIsReached`: the invariant `WidthIsReached`. What is placed holds the
  ancestors of the next wave, and no task of that wave, so its tasks do not wait for
  each other;
* `CriticalPathIsRight`: the invariant `CriticalPathIsLongest`. The scores solve the
  equation "a task's weight and its best dependency's score" (`ScoresSolve`, along the
  order), so no chain weighs more than the score of its end, and the way back along the
  best dependencies comes to a root, as the ranks fall, with all of the score spent;
* `ValidatorsAgreeOnAll`: the DSL's `validate` and the counting of the coordinator and the
  chaos lab agree on every sequence of tasks with any names and any needs, the doubled,
  unknown and own ones included; and `ValidatorsAreOne`: the invariant `ValidatorsAgree`.

The last rests on what a depth-first search promises. A search is `Sane` when its stack is
a way along dependencies, of names that differ and are not done, and what is done can be
ranked, each name above those it needs. A visit from a sane search then ends with a cycle,
or with the name done and the stack as before (`Reached`): a name met again on the stack
closes a way round (`ClosesCycle`), and one whose needs are all done ranks above them
(`RanksOneMore`). `DfsVisitFinds` goes by the number of calls that may be open against
the length of the stack, which never exceeds the number of names, so the bound on the
calls in `VisitRun` is never felt. A ranking makes Kahn's count complete (`KahnComplete`), and
along a cycle ranks would fall for ever (`CycleHasNoRanks`).

### The shrinker

In `ShrinkerProofs`:

* `ShrinkerTypes`: the scenarios keep their shape, cursors stay in their lists, and
  `shrink` returns only from the end of a round;
* `FailureIsKept`: the invariant `NothingLost`, for every predicate of the three;
* `OrderIsKept`: the invariant `OrderSurvives`;
* `SettledIsMinimal`: the invariant `ResultIsMinimal`.

The first two need of the runner only that it answers. `OrderIsKept` is the rewiring of
`_without_task`: without the task, who needed it needs what it needed, so that the
ancestors of each other task are the old ones without it (by `AncestorsLeast`, in both
directions), and a graph whose tasks were not their own ancestors stays one
(`AcyclicIsComplete`). Minimality is the one with history: at the end of a round
nothing records what was tried. `Tried` says it for the running pass, by the cursor: what
lies behind it was replayed and found necessary, in the scenario as it is now. `Settled`
says it for the passes before, as long as the round changed nothing. Three things make
it work: ddmin ends only after chunks of one action went over the whole script without a
success, since a success sets the cursor back; `_simplify_actions` makes its variants
from the script as it was before the pass, so its part of `Tried` speaks of that script
and is void from the first action the pass changed (`Deviates`), and then `changed` calls
for another round; the same holds for workers and tasks, where a success makes the
scenario shorter than the one of the round.

### The chaos lab

In `ChaosLabProofs`:

* `Invariant`: `Spec => []IInv`, the inductive invariant;
* `Typed`, `NothingRunsOn`, `GeneratorIsServed`, `TasksHavePlaces`: the invariants
  `TypeOK`, `OverIsQuiet`, `GeneratorAsksInOrder`, `EveryTaskHasAPlace`;
* `TwoChecksFail`, `ClosedForGood`: the action properties `OnlyTwoChecksCanFail` and
  `ClosedStaysClosed`;
* `ModelKeepsThePromise`: the model implements `LeaseService`, the refinement
  `KeepsThePromise`.

A method is an operator from a model to a model, so nearly all of it is about values: a
model `a` and the `b` it becomes. `Core` is what each method needs and keeps, also half
way: the fields in range, a lease and its task saying the same (`LeasesAgree`), tokens
that the counter has passed and that are never both open and closed (`TokensAgree`), a
worker's count made of its own leases (`WorkersAgree`), times in order (`TasksAgree`),
needs that succeeded (`NeedsDone`), an order that fits the graph (`FlowAgrees`). `IInv`
adds what only holds between two methods:

* `Quiet`, that nothing of an ended workflow is unfinished, is broken by a result and by
  an expiry, and restored by the `recompute` at the end of the method. Its loop leaves a
  task pending only for one that is not over (`Waits`); so if no task is active, none is
  pending, as the first one in the order would wait for one before it.
* `Live`, that no lease is overdue, holds because time moves only in `advance`, which
  sweeps. `Unusable`'s own expiry, by which a refused call could change the model, is
  thus out of reach of both drivers.
* `Indexed` and `WithinBudget` are the two checks that can fail. They hold while the
  run is on, as it stops when a check fails; nothing keeps them but that.
* `Staffed`, in the generator's runs only, since a script may register a worker again.

Every method is one of five steps (`Moves`): the workers change (`Restaffs`), nothing is
granted or decided (`Eases`), that after some time, one attempt gets its result
(`Settles`), one task is leased under the counter's next token (`Leases`). `Eases`
composes, so that a sweep, a cancellation and a `recompute` are each many small eased
steps; closed tokens stay closed and `LeaseService` stutters, decides or grants by the
same distinction. `GeneratorIsServed` compares guards: what `next_action` chooses from
the model's tasks and leases is what the method will ask of them. `TwoChecks` goes
through `check_invariants`, check by check.

The model's loops are folds, over the tasks in order, the leases a sweep finds, the
workers a bootstrap registers. The library defines a fold by a `CHOOSE` of a recursive
function and the order of a set's elements by another. `FoldExists` solves the recursion,
for any choice of the elements, by a function on the subsets, and `FoldHolds` shows what
each turn keeps, by the least size of a subset where it is lost; `SeqFoldHolds` is the
same for sequences. Nothing in the proofs depends on which order the library chooses.

## 5. Where the code and the repository's statements differ

Each is a run that TLC ends with a counterexample; `PROJECT.json` quotes the lines.

1. `AttemptBudget` (`tools/chaos_lab/model.py:927`). Lease expiry re-queues a task
   without looking at its budget (`store.go:363`), so a task with one attempt can
   be attempted any number of times.
2. `NoStaleRetryTime` (`model.py:939`). `Workflow.Cancel` leaves `NextRetryAt` on
   a task it takes out of RETRY_WAIT (`core/model.go:435-440`).
3. `NoStaleFinish` (`model.py:953`). `FinishedAt` of a failed attempt is kept
   through the retry (`store.go:306`), which then runs with a finish older than
   its start; analytics computes the duration from the two.

## 6. Only model-checked, and not modelled

Liveness stays with TLC: `SilentLeasesEnd`, `RetriesWake`, `WorkflowsEnd`, `Delivered`,
`Converges`, `ComesToRest`, for which the provers lack fairness and ENABLED. Every
invariant, action property and refinement that a passing run checks is proved. The
library's induction theorems take an operator as a parameter, which the
provers cannot instantiate; what a recursive function or a fold computes is shown by the
least counterexample instead. The three violated runs state nothing to prove.

Not modelled: read-only methods and cloning; HTTP decoding and status codes; the
DSL's lexer, parser and formatter; digests, snapshots and reports of the chaos lab;
layout and texts of the dashboard; installers, file tools, CI, JSON parsing, random
distributions of the simulator (see the notes in `PROJECT.json`). The worker agent,
the Java verifier, the SQL functions, the simulator, analytics, the TypeScript SDK
and the load generator are planned.

Observations made while modelling, of behaviour that no doc or test of the repository
contradicts:

* `ATTEMPT_BUDGET` is reachable inside the generator, whose call of
  `check_invariants` (`generator.py:214`) is outside its `try`: the seed raises out of
  the campaign instead of becoming a scenario to report and shrink.
* `_simplify_actions` makes its variants from the action as it was before the pass,
  so a longer time step may replace a shorter one that was already accepted; the
  next round repairs it.
* `_fails` takes an exception of the predicate for a failure that is kept.
* `parallelism_upper_bound` (`dsl.py:808`) is no upper bound: a task may become ready
  while a longer branch is still in an earlier wave, and then run beside a task of a
  later one.
* In the DSL's `graphviz` the set of sinks (`dsl.py:770`) is computed and not used.
* `wait`'s `TimeoutError` becomes exit code 1, like a refused connection, so a script
  cannot tell the two apart (`cli.py:174-176`).
* The dashboard stays busy for as long as the workflow it started runs, and closing
  the window leaves that workflow running; the table of workflows is filled only
  when an action ends, after a cancellation, or on request.
* The coordinator and the chaos lab normalise retry policies differently: a base of
  0 becomes 250 ms in Go and 1 ms in Python, and only Go caps the delays.

## 7. Plan

Done, in this order: `Coordinator` with its properties and proofs; `RecomputePass`;
`EventStream`, `OrderedFeed`; `Dag`, `Retry`; the chaos lab with `LeaseService`;
`Shrinker`; `WorkflowBuilder`, `DslGraph`; the front ends and their proofs; `DagProofs`
and on it the proofs of the builder, the shrinker and the chaos lab.

Next, most important first:

1. `Agent`: the worker process, with its tasks and timers as processes, composed
   with `Coordinator` over calls that may be lost, and with restarts of either side;
   idempotency keys belong there.
2. `EventStream` joined to `Coordinator` through `Deliver`: a workflow's last event is
   its verdict, and clients see it.
3. `ReplayVerifier`: the Java state machines, fed by the events of `Coordinator`.
4. `PgStore`: the SQL functions statement by statement with row locks.
5. `Simulator`, `Analytics`, the TypeScript client.

Theorems: those of each module above as it comes. Of the modules there are, only liveness
is left.
