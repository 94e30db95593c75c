# The Bureau in TLA+

The Bureau (`src/`) is an MCP server that runs graphs of tasks. An engine, one or
more replicas of a Node process, keeps every graph in Redis, starts an AI worker
for each task whose dependencies are done (a Kubernetes Job in *pod mode*, the
mode modelled here), merges the branches the workers push, validates the result
and promotes it. This directory holds its specification: TLA+ modules translated
from the source, configurations that model-check them with TLC, and proofs that
the TLA+ proof system checks. `PROJECT.json` lists the runs, maps every definition
to the lines it models, and records the findings and the hazards.

Line numbers below are of files under `src/src/`.

1. [Inventory](#1-inventory): the parts of the system
2. [Modules](#2-modules): what models them, and how
3. [Runs](#3-runs): what TLC checks, with which bounds and fairness
4. [Findings](#4-findings): where the code and its documents disagree
5. [Proofs](#5-proofs): what holds for every value of the constants, and why
6. [Not modelled](#6-not-modelled)
7. [What is left](#7-what-is-left)

## 1. Inventory

What the system consists of, where its behaviour is hard, and what makes each
part correct. `PROJECT.json` has the status of each component.

| Component | State | Operations | Where it is hard, and what must hold | Modules |
|---|---|---|---|---|
| Task state machine (`state-machine.ts`) | none | `transition` | a handler that meets an illegal transition throws half-way | `TaskStates` |
| Task graph engine (`task-graph.ts`) | Redis: graph record, task records, `deps`/`rdeps`, `completed`, dispatch locks, orchestrator lease; memory: retry timers | declare, add, complete, fail, yield, cascade, dispatch, resume, approve, retry, cancel, reap | five ways into `ready`; retries reopen what a cascade closed. Dependencies come first, `completed` agrees with the records, a dead graph stays quiet, every graph ends | `TaskGraph`, `DependencyScheduler` |
| Changes of a running graph (`tools/add-task.ts`, `reject-task.ts`, `merge-graphs.ts`) | the same records | add, reject, merge two graphs | multi-step calls between which workers report. A task that was accepted is not forgotten | `GraphEdits` |
| Declaration (`template-engine.ts`, `resolve-graph-input.ts`, `graph-validate.ts`) | none | expand, resolve, check, declare | what is judged and what is kept are two different walks of the input. What was accepted can be judged | `Declaration` |
| Merge gate and promotion (`task-graph.ts` 308-605, 1330-1667) | `pending_merges`, coordinator tasks, completion lock, integration branch | merge, conflict, resolution, gate, promotion | completion handlers interleave at each `await`. A dependent starts from integrated work; one Job per task; one promotion that holds everything | `MergeGate` |
| Working clone (`spawn/remote-merge.ts`) | one clone per destination | fetch, merge, push, verify | calls share `HEAD` and `FETCH_HEAD` without a mutex | `MergeClone` |
| Validation gate, bounded rework (`task-graph.ts` 1603-3178, `rework/*`) | rounds, fix and validation child graphs, SET-NX keys, SHA pins | validate, enter a round, resume it, promote, refuse | drives in several processes, crashes between two writes. Nothing unjudged is promoted; rounds are paid for | `Rework`, `FixIntegrity` |
| Criterion engine (`criterion-engine.ts`) | the graph's criteria results | evaluate, retry, fix | children end while the engine evaluates | `InlineCriteria` |
| Worker lifecycle (`graph-dispatch.ts`, `spawn/k8s-*.ts`, `process-monitor.ts`, `health-sweep.ts`, `interrogator.ts`) | the task's session, Job, Secret, exit polls and tracked sessions per engine, sweep flags | plan, spawn, stamp, poll, grace, report, sweep, hint, kill | polls, sweep and tools of several engines report one end; engines crash. The end is noticed, counted once, and holds | `WorkerLifecycle`, `Dispatch`, `Reports`, `Interrogation` |
| Yields (`workspace/yield*.ts`) | yield marker, runtime dependencies, timers | mark, exit, resume, auto-resolve | marker, exit and awaited completion come in any order | in `TaskGraph` |
| Leader election (`engine/leader.ts`) | a lease | acquire, renew, release | late answers; two engines must not both lead | `LeaderLease` |
| File locks (`file-locks.ts`) | a key per path with a TTL | acquire all or none, release | release reads, then deletes | `FileLocks` |
| Test service broker (`spawn/test-service-manager.ts`) | leases in Redis, pods | start, extend, stop, sweep | a lease and its pod outlive each other | `TestServices` |
| Messages, events, handoffs (`messaging.ts`, `directives.ts`, `tools/await-graph-event.ts`, `handoff*.ts`) | streams, cursors, consumer groups | push, read, acknowledge | a reader is cut off between reading and acknowledging | `Mailbox`, `EventStream`, `Reports` |
| Workspace awareness (`workspace/*.ts`) | intents, discoveries, registry of graphs | declare, post, note in results, register | calls of one agent overlap; a registry follows records without a lock | `Workspace`, `PeerGraphs` |
| Worker sessions (`runtime/http-transport.ts`, `registry.ts`) | transport sessions, peer records | connect, use tools, close, re-point | a reconnecting worker and its old session | `Sessions` |
| MCP gateway (`mcp-gateway/*`) | client, list cache, breaker | list, permit, call | two lists at two moments | `Gateway` |
| Telemetry, self-improvement | spans, gauges, sums; anomalies, reviews | begin, end, record; detect, review, file | handlers that look first and record then | `Accounting`, `TaskTelemetry`, `Retrospective` |
| Redis connection layer, manifests and registries, templates and CLI | | | data, text or I/O | partly in `Declaration`, `Dispatch` |

**How they interact.** A tool of the MCP server calls the task graph engine, which
calls back the dispatch handler for each task it starts. The handler plans the
worker, stores its token in a Secret, creates a Job and hangs an exit poll on it.
The worker connects to the engine's gateway and tools over HTTP; what the engine
wants to tell it is added to the results of its tool calls. The poll's exit goes,
after a grace of three seconds, through the process monitor to `onTaskCompleted`,
`onTaskFailed` or `onTaskYielded` of the engine; the health sweep of the leader and
`await_graph_event` call the same three for ends they find in Redis and Kubernetes.
`onTaskCompleted` merges, dispatches the dependents and, when all tasks have ended,
has the graph validated by child graphs and promotes it. All shared state is in
Redis, read and written one command at a time; within one process handlers
interleave at every `await`.

## 2. Modules

`EXTENDS` (`<-`) and `INSTANCE`:

    TaskStates <- TaskGraph <- MCTaskGraph, TaskGraph_proofs
                  TaskGraph -- INSTANCE --> DependencyScheduler
    MergeGate  <- MCMergeGate, MergeGate_proofs
    Rework     <- MCRework, Rework_proofs
    WorkerLifecycle <- WorkerLifecycle_proofs
    MergeClone <- MCMergeClone
    Accounting, TaskTelemetry <- Telemetry
    LeaderLease, FileLocks, TestServices,
    GraphEdits, MergeClone                              <- Coordination_proofs
    Mailbox, EventStream, Workspace, PeerGraphs         <- Messaging_proofs
    InlineCriteria, FixIntegrity, Retrospective,
    Declaration                                         <- Judging_proofs
    Dispatch, Gateway, Sessions, Telemetry,
    Reports, Interrogation                              <- Workers_proofs
    all components but the first four lines             <- MCServices

The models cut one system at different grains. `TaskGraph` has every operation of
the engine and takes each handler as one step; `MergeGate` has only completions and
takes each handler apart at its awaits; `Rework` begins where the tasks have ended;
`WorkerLifecycle` has one task and takes apart what happens between its dispatch
and its end. The other modules take one service each, at the grain of its Redis and
Kubernetes commands, with the rest of the system as an environment that may do
anything it does in the code.

Two conventions. *History* variables (marked so at their declaration) are not in
the code; they record what a property has to speak of. *Excuses* are histories that
name a way in which the code does not keep what a property states (a release that
overtook another, a summary written by an outdated handler); the property is stated
without them, and section 6 says what happens in them.

### TaskStates
The statuses, the transition table and the terminal statuses of
`state-machine.ts`.

### TaskGraph
One graph. The variables are its Redis records (`graph`, `status`, `retries`,
`deps`, `completed`, `locks`, the yield markers `marked` and `awaited`) and the
engine's memory (`backoff`, the tasks with a retry timer; `escalating`, those whose
`setTimeout(0)` check has not run). The actions:

| Action | Code |
|---|---|
| `DeclareGraph`, `AddTask` | `declareGraph`, `addTask` |
| `OnTaskCompleted`, `OnTaskFailed`, `OnTaskYielded` | the three outcomes of a worker, with readying of dependents, resolution of yields, cascade, pick-up of throttled tasks, dispatch and completion check |
| `YieldTo`, `AutoResolve`, `KeepWaiting` | the `yield_to` tool, the escalation's immediate check |
| `RetryTimerFires`, `LockExpires` | the backoff timer, the 60 s of a dispatch lock |
| `ResumeGraph`, `ApproveTask`, `RetryTask`, `CancelGraph` | the operator's tools |
| `ReapStaleGraph` | the sweep's reaper |

What a handler leaves open is a choice over sets: `Dispatched` gives the sets of
ready tasks one `dispatchReadyTasks` may start (which ones, when the list is cut to
the free slots, depends on an order that is not modelled; low memory and a foreign
lease may stop it); `ResetOutcomes` gives those `resetTaskForRetry` may reset,
over the orders its breadth-first walk may take, `CascadeOutcomes` those
`cascadeCancel` has canceled when it returns or throws.

Abstractions: handlers run one after the other; a running task has one worker that
ends once; a task has one retry timer, where the code may have more; graphs have no
children, gate or branches; `resume_graph` on a task whose worker is dead is an
`OnTaskFailed` step followed by a `ResumeGraph` step.

### DependencyScheduler
The abstract specification: tasks are `done` or `active`; a task becomes done only
from active and for good; whatever starts has all it `Needs` done and leaves no
more than `Slots` active. `TaskGraph` implements it with `done <- completed`,
`active <- Running(status)`, `Needs <- StaticDeps`, `Slots <- MaxConcurrency`.

### GraphEdits
`add_task`, `reject_task` and `merge_graphs` in the steps of their Redis commands
(`edit[e]` is where editor `e` is), with workers' reports in between. A worker
reports by the graph and id it was started for; `merge_graphs` copies tasks to the
target, remaps what the target already has, bridges, marks the source and
dispatches. A report is one step and a success; branches, lease and validation are
left out. Graphs are declared with a task at least, and with dependencies within
(`EditsAssumption`): the code does not refuse a graph without tasks, and it would be
active for ever. Excuses: `late` (a call acted on what was no longer so, or wrote over
an id that another call had taken since), `readdressed` (a running task got another
id, so that its report is lost).

### Declaration
An input on its way to a graph: `ExpandTemplate`, `ResolveGraphInput` (recipe and
defaults fill in commands), `CheckInput`, `DeclareGraph`, and `CompleteGraph`,
where the gate is made of what was kept. A command is *where it comes from*: the
task, the recipe or the workspace's configuration. The directories commands run
in, dry runs, the depth guard and the normalisation of `autoRework` are left out.

### MergeGate
Pod-mode completion. The handler of a completion is a process with a program
counter `pc[id]`, and moves one await at a time: record the completion, announce
the merge, merge, clear, create a coordinator, scan the dependents (`todo`,
`newlyReady`), take the snapshot of the tasks (`cached`), dispatch, check for
completion, promote. A coordinator `merge-<t>` is a task of its own whose
completion runs the same handler with `resolve` in place of `merge`. `limit`, the
number of completions handled at once, is chosen at the start, so that one run
checks what holds for sequential handlers and what holds for any.

Abstractions: tasks do not fail or yield; the coordinator is created and dispatched
in one step; the gate reads `completed`, `pending_merges` and the coordinator of
one dependency together; dispatch locks do not expire; the lease is owned and
memory is plenty.

### MergeClone
The git commands of `RemoteMerge` on one clone and one origin. A commit is the set
of the works it contains: an ancestor is a subset, a merge a union. `call[c]` is a
caller's program counter with what it remembers (the fetched head, the verified
one); `clone` has `HEAD`, the local heads, the tracking branches, `FETCH_HEAD` and
a merge in conflict, which the callers share. With one caller the run `services`
checks it; with two, `clone_race` shows what sharing does.

### Rework
From "all tasks have ended" to promoted or refused. A *drive* `d` is one call of
`checkGraphCompletion` or `resumeReworkRound`; `at[d]` and `my[d]` are its program
counter and what it has read. The SET-NX keys (`locks`, oldest first) exclude
drives from each other; `round` is `currentRound`, `budget` the length of the
rework list, `children` the child graphs with their clone and verdict, `head` the
integration branch, whose pins (`startHead`, `revalidationHead`, `dispatchHead`)
the drives compare. Drives and the gate's own engine may crash between any two
awaits, a person may push, cancel or reap.

Two assumptions on time are built in: drives are short and keys live long (300 s),
so that keys expire in the order they were set and when no drive is under way; and
a child has no verdict while the drive that dispatches the gate is at it (a pod has
to start, clone and run tests first). An agent criterion behaves as an exec one
whose failure is never fixable. Deferred (`pr-only`) promotion is left out.

### FixIntegrity
The guard over what fix agents commit: `trees` are the commits of the branch, with
the *fate* of each test file in them (runs, muted, deleted, ...); the baseline is
taken before the first round, each verdict is pinned to the commit judged, and the
guard compares. What its comments say it cannot see (`Gap`) and failed git commands
(`blind`) are excused.

### InlineCriteria
`evaluateAll` over a list of criteria, one attempt a step, with the fix children it
dispatches and does not wait for, while the graph is `validating` and its other
children end and drive the completion. Rework has the exec criteria; here those are
one child with either outcome.

### WorkerLifecycle
One pod-mode task, several engines. Attempts are sessions, numbered, each with a
`stage` in its engine (`create`, `recreate` after a 409, `stamp`, `watch`, `grace`,
`over`) and an exit `poll`; the Job is named after the task and shared by the
attempts. `sweep[e]` is what the sweep of engine `e` has read and not yet judged,
so that it may judge a reading that is no longer true. `Tracked` is the set
`ProcessMonitor` would find. Crashes, failovers and operators' calls may come at
any step, `MaxDisturbances` of them.

Abstractions: delays are left out (anything may happen late), except that the stamp
precedes the first poll and that a Job outlives a poll or grace under way; the
report follows the untracking in the same step; killing (clear the poll, delete the
Job, report) is one step, with a read of the poll possibly in flight; local
processes and the peer records of non-pod workers are left out; the graph is live
throughout.

### Dispatch
From the order to run a task to a pod that has its token. The dry run's plan and
the handler's are the same function of what each reads; the Secret and the Job are
named after the task, so attempts share them, and kills are not awaited
(`deletions` are on their way and may meet a later attempt's objects: `crossed`).

### Reports
How an exit becomes what dependents read: exit handler, grace period, the call of
`set_handoff` that may be under way, synthesized handoffs, the retry policy, a
sweep of another engine, and the dispatch that reads the handoffs. Time passes in
ticks; a call takes at most `Latency` and the grace is longer (three seconds
against one Redis command).

### Interrogation
The sweep's judgement of workers that run for long: a hint when the tail of the
transcript looks stuck, a kill when it still does after the debounce, a kill past
the timeout. Flags are keys of the *task* that expire; sweeps see the tracked
entries one by one. A killed session's exit is not seen, so its entry stays.

### LeaderLease, FileLocks, TestServices
The lease: clocks that count down what is left of the key, of an engine's interval
and of a call. Locks: a script acquires all or none; a release reads each owner and
deletes in a second command. Services: every Redis and Kubernetes call of start,
extension, stop and sweep is a step, any of which may fail or be the last.

### EventStream, Mailbox
The events: all watchers of a project are consumers of one group; an entry read and
not acknowledged stays pending. The mailbox: directives come from a list that is
read and then deleted, messages from streams whose cursors the engine keeps in
memory; a result that is no text drops what was to be slipped in.

### Workspace, PeerGraphs
What agents of a graph, and graphs on a destination, are told of each other. The
calls of an agent overlap, reading intents one by one (`agentCall`); the handlers
that change a graph's record change its summary afterwards, in two commands.

### Sessions, Gateway
A worker's transport sessions, its peer record and its tool calls, each of which
reads the record and writes it back; `merge_graphs` re-points it meanwhile. The
gateway's client, cache and breaker, and the two lists a worker's tools come from:
what it is *offered* and what it is *permitted*.

### Accounting, TaskTelemetry, Telemetry
What attempts cost and where that is kept; the spans and gauges of tasks.
`Telemetry` puts the two together: they have no state in common.

### Retrospective
The anomaly detector's window, the review a completed graph may get, and the
findings' way to issues, the deferred store and the report.

### MC modules
`MCTaskGraph`, `MCMergeGate`, `MCRework` and `MCMergeClone` give values to
constants that a configuration cannot write, and define constraints. `MCServices`
extends every remaining component. The components have no variable in common, so
its `Next` lets the one named by `service`, chosen at the start, take steps while
the others stand still: one run checks them all, at the cost of the sum of their
state spaces. Its constraint `MCClaimed` does not continue behaviours of which
nothing is claimed any more (after an excuse) and those that repeat smaller ones;
it is a bound like the others and is listed below.

## 3. Runs

| Run | Configuration | Question | Distinct states |
|---|---|---|---|
| `task_graph` | `MCTaskGraph.cfg` | Is the engine safe under everything, and does it implement `DependencyScheduler`? Three declared tasks in a join, one added, concurrency 2, retries, one yield, two operator calls, low memory, a foreign lease, an approval | 0.93 M |
| `task_graph_settles` | `TaskGraphLive.cfg` | Does a graph of five tasks that nobody touches always end, with every task run if it says completed? | 2.7 k |
| `merge_gate` | `MCMergeGate.cfg` | Two tasks and one that joins them, one conflict, failing merges and coordinators, one or two handlers at once, maxConcurrency unset, 1 or 2 | 86 k |
| `rework` | `Rework.cfg` | Two drives over the gate, its children, rounds and promotion: with one exec criterion, with two, with none, with crashes, cancelations and expiring keys | 0.22 M |
| `worker_lifecycle` | `WorkerLifecycle.cfg` | One task, two engines, a retry, a crash, failover or operator's call at any step; with a timeout or a watcher | 0.56 M |
| `services` | `Services.cfg` | Does each of the nineteen services keep its promise? | 1.24 M |
| `gate_race`, `conflict_lost`, `ended_graph_regated`, `clone_race`, `timeout_unnoticed`, `exec_verdict_ignored` | `MergeGateRace.cfg`, `MergeGateLost.cfg`, `ReworkRegated.cfg`, `MergeCloneRace.cfg`, `WorkerTimeout.cfg`, `WorkerExecGone.cfg` | six violations, see section 4 | small |

### What the passing runs establish

`task_graph`: `NoEarlyStart` (dependencies first, by every way into a started
status), `CompletedAgrees` (the set and the records, although written apart),
`WithinConcurrency`, `DeadGraphIsQuiet` (nothing starts in a failed or canceled
graph unless `retry_task` reactivates it), `SchedulerSpec` (the refinement).
`task_graph_settles`: `FailuresAreCarriedThrough` (the cascade reaches what a failure
makes impossible, completed means that all ran, and a live graph with a task left has a
worker, a timer or an approval to come), `GraphSettles`. The last part of the first is
stated where nothing holds a dispatch back: `onTaskFailed` (653-751), unlike
`onTaskCompleted` (593-600), does not pick up ready tasks that found no slot, so that a
graph with a `maxConcurrency` can be left with them when its last running task fails for
good, until an operator resumes it.

`merge_gate`: for any interleaving of handlers, `GateMissesOnlyWindows` (what the gate and
the promotion can miss is in one of the windows that `InWindow` and `MissesOnlyWindows`
name: between `completed` and `pending_merges`, between `pending_merges` and the
coordinator, between the coordinator's end and its resolution, or, for the promotion,
with a coordinator that failed or was added since the tasks were read; leave one out and
TLC has a counterexample), `EachThingOnce` (one promotion, one Job per task, and nothing
forgotten: when nobody is at work the graph has ended or waits for an operator) and
`GraphDelivers`; `PromotesEverythingAlone` for one handler at a time (`gate_race` and
`conflict_lost` show that its conditions are needed). That nothing is forgotten is
claimed without a `maxConcurrency` or for one handler at a time: with both, a handler
whose ready task another one has started and seen end throws out of its dispatch loop
(1463-1474), and the ready tasks it had left wait for the next completion.

`rework`: `RoundsArePaidAndHadOnce` (each round has its unit of the budget and one
fix), `PromotedAsJudged` (the promoted head is the one its criteria passed on, and
is promoted once), `RefusalIsFinal` (a verdict is not overwritten; the gate
dispatched again for a graph past it is excused, `ended_graph_regated`),
`GatesComeToAnEnd` (validation ends, and what was validated is promoted).

`worker_lifecycle`: `ExecFailsClosedUnwatched` (an exec task passes only by a Job
that succeeded), `FailureCountsOnceAlone`, `EndIsNoticedUntimed`, `RetryHappens`,
`EndHolds`; the conditions in the names are what the violations, and the code's own
retries and tools, show to be needed.

`services`, one property per component:

| Property | States |
|---|---|
| `OneLeader` | two engines never both believe they lead |
| `LocksAreKept` | a lock that a session counts on is its own, unless a late release deleted it |
| `ServicesAreKept` | no sweep removes a service before its lease is over; what runs has its record, unless a failure abandoned it |
| `EventsReachAlone` | a watcher alone in its project gets every event of its graph that its own calls did not discard |
| `MessagesAreShown` | what the cursor has passed was shown, is in a result, or went with a lost one |
| `NothingLostAlone` | calls on the clone one at a time lose no work and report nothing merged that is not |
| `DispatchKeepsItsWord` | what the dry run says is what the dispatch does; a pod runs with its own attempt's token |
| `DependentsAreToldAlone` | dependents read the handoff of the last run |
| `StuckAreWarnedThenStopped` | no stop without a hint first; who stays stuck is stopped in time |
| `NoTestIsLost` | what is promoted still runs the tests that ran before, but for documented gaps |
| `NothingForgottenAlone` | added, rejected and merged tasks are run in the graph that holds them |
| `AcceptedIsJudged` | an accepted input has no task that waits in a circle or for one that is not there, and its gate can run what its levels ask for |
| `TelemetryIsTrue` | costs are counted once and kept; spans and gauges agree with the tasks' stages |
| `WhatConcernsThemIsTold` | of two agents on one file one is told; no discovery is passed over |
| `PeersAreKnown` | of two live graphs on a destination one is told; the registry is true when nobody is writing |
| `WorkersAreKnownByTheirRecords` | a connected worker has a record, with the phase it last said and the graph that holds its task |
| `CriteriaDecideAlone` | promoted only when the criteria passed, refused only for a reason |
| `ReviewsAreBounded` | one review at most, as asked; each finding filed once; each anomaly earned |
| `GatewayIsShared` | offered and permitted is what the allowlist has, by one connection |

### Bounds, and why they are enough

`TaskGraph`: three tasks with a join are the smallest graph in which a task waits
for two others that may end in any order, and an added task makes the fourth; the
liveness run puts a chain behind the join so that the cascade has to go more than
one level. One retry makes the two kinds of failure, one yield the marker races, two
operator calls a cancel and a retry after it. `MergeGate`: two handlers are enough
for any race of two, one conflict for a coordinator. `Rework`: two drives for every
race of two, up to two attempts, one disturbance of each kind; `GatedOnce` does not
continue what `ended_graph_regated` shows. `WorkerLifecycle`: two engines are one
that dispatched and one that leads; one disturbance at any step; `MaxSessions`
leaves room for one attempt more than the budget.

`services`: what makes a race of two is always there twice (engines, sessions,
removers, overlapping tool calls, editors, handlers, completion drives, connections)
and what is counted is allowed one more than the case needs (`MaxEntries` 4 against a
`Batch` of 2, three messages for two calls, `MaxChanges` 4 for two graphs that both
change twice). Durations keep the code's order, not its values: `Lease` 5, `Renew` 2,
`Delay` 1 for 15 s, 5 s and less than 5 s; `Latency` 1 under `Grace` 2; `HintTtl` 4
over `Debounce` 2. `MCClaimed` cuts: a service's last tick without a second removal or
a loss; edits, peers, workspace and telemetry after an excuse; more than one upset
per worker; the detector's clock while the graph ends (the two share nothing but
`anomalies # <<>>`); the third agent call without the first. `Declared` inputs have at
most two tasks, criteria at most two, since the walks look at one task and its
neighbour. For each of the services and for the four safety cores the proofs of section
5 take the bounds away from safety; what rests on the bounds alone is listed at the end
of that section.

Runs that end in a state where nothing happens say `CHECK_DEADLOCK FALSE`: a resolved
graph, an ended task or a service whose bound is reached does stop.

### Fairness

Weak fairness stands for what the process does by itself: promises resume, timers and
polls fire, Redis expires keys, the leader's sweep comes round (only the leader's:
`SweepLooks` asks for the lease). Workers end and their exits are seen in `TaskGraph`
and `MergeGate`, whose subject is not the worker; `WorkerLifecycle`, whose subject it
is, asks nothing of workers, operators, watchers, timeouts or crashes. In `MergeGate`
completions have strong fairness because `limit`, a bound of the model and not of the
code, keeps disabling them. In `Rework` each drive and each child goes on, expiry is
strongly fair because every new drive interrupts it, and
`(∃ d : <>[](at[d] # "idle")) ∨ []<>Quiet` says that drives do not overlap each other
without end: the sweep comes every 30 s and a drive is shorter.

## 4. Findings

Each violation run is a disagreement between the code and what its comments or
documents say; `PROJECT.json` quotes both.

- `gate_race` — a completion is in `completed` before it is in `pending_merges`; another
  one handled in between starts their dependent from a branch without the work.
- `conflict_lost` — when a merge coordinator fails, nothing is pending, and the graph is
  promoted and completed without the conflicted work.
- `ended_graph_regated` — `checkGraphCompletion` tests one reading of the status and decides
  on another; a graph that ended in between is sent to the gate again.
- `clone_race` — two merges in one clone: the verification compares origin with whatever
  `HEAD` has become, and a branch is deleted whose work is nowhere.
- `timeout_unnoticed` — the kill of a timed-out worker clears its own witness; the task
  stays running.
- `exec_verdict_ignored` — `await_graph_event` passes an exec pod whose Job is gone.

## 5. Proofs

Eight modules hold theorems; all are proved down to their leaves by tlapm with SMT
(Z3), Zenon and LS4. The assumptions on constants are the named `ASSUME`s of the
component modules, which TLC evaluates in the runs. Each safety theorem rests on an
inductive invariant that TLC checked first.

| Module | Theorem | Run's property |
|---|---|---|
| `TaskGraph_proofs` | `TypeCorrect` | `TypeOK` |
| `TaskGraph_proofs` | `StartsAreInOrder` | `NoEarlyStart` |
| `TaskGraph_proofs` | `CompletedSetAgrees` | `CompletedAgrees` |
| `TaskGraph_proofs` | `LimitHolds` | `WithinConcurrency` |
| `TaskGraph_proofs` | `ImplementsScheduler` | `SchedulerSpec` |
| `TaskGraph_proofs` | `Invariance` | — |
| `TaskGraph_proofs` | `DeadGraphsStayQuiet` | `DeadGraphIsQuiet` |
| `TaskGraph_proofs` | `FailuresAlwaysCarriedThrough` | `FailuresAreCarriedThrough` |
| `MergeGate_proofs` | `GateAlwaysHoldsAlone` | — |
| `MergeGate_proofs` | `AlwaysPromotesEverythingAlone` | `PromotesEverythingAlone` |
| `MergeGate_proofs` | `GateAlwaysMissesOnlyWindows` | `GateMissesOnlyWindows` |
| `MergeGate_proofs` | `EachThingIsDoneOnce` | `EachThingOnce` |
| `Rework_proofs` | `RoundsAlwaysPaid` | `RoundsArePaidAndHadOnce` |
| `Rework_proofs` | `RefusalIsAlwaysFinal` | `RefusalIsFinal` |
| `Rework_proofs` | `AlwaysPromotedAsJudged` | `PromotedAsJudged` |
| `WorkerLifecycle_proofs` | `LifecycleIsTyped` | — |
| `WorkerLifecycle_proofs` | `ExecAlwaysFailsClosed` | `ExecFailsClosedUnwatched` |
| `WorkerLifecycle_proofs` | `FailureAlwaysCountsOnce` | `FailureCountsOnceAlone` |
| `WorkerLifecycle_proofs` | `EndsAlwaysHold` | `EndHolds` |
| `Coordination_proofs` | `LeaseIsWellTyped` | — |
| `Coordination_proofs` | `AlwaysOneLeader` | `OneLeader` |
| `Coordination_proofs` | `LocksAreAlwaysKept` | `LocksAreKept` |
| `Coordination_proofs` | `ServicesAreAlwaysKept` | `ServicesAreKept` |
| `Coordination_proofs` | `NothingIsForgottenAlone` | `NothingForgottenAlone` |
| `Coordination_proofs` | `NothingIsLostAlone` | `NothingLostAlone` |
| `Messaging_proofs` | `MessagesAlwaysShown` | `MessagesAreShown` |
| `Messaging_proofs` | `EventsAlwaysReachAlone` | `EventsReachAlone` |
| `Messaging_proofs` | `WhatConcernsThemIsAlwaysTold` | `WhatConcernsThemIsTold` |
| `Messaging_proofs` | `PeersAreAlwaysKnown` | `PeersAreKnown` |
| `Judging_proofs` | `CriteriaAlwaysDecideAlone` | `CriteriaDecideAlone` |
| `Judging_proofs` | `TestsAreNeverLost` | `NoTestIsLost` |
| `Judging_proofs` | `ReviewsAreAlwaysBounded` | `ReviewsAreBounded` |
| `Judging_proofs` | `AcceptedAreJudged` | `AcceptedIsJudged` |
| `Workers_proofs` | `GatewayIsAlwaysShared` | `GatewayIsShared` |
| `Workers_proofs` | `WorkersAlwaysKnown` | `WorkersAreKnownByTheirRecords` |
| `Workers_proofs` | `TelemetryIsAlwaysTrue` | `TelemetryIsTrue` |
| `Workers_proofs` | `DependentsAreAlwaysToldAlone` | `DependentsAreToldAlone` |
| `Workers_proofs` | `StuckAreAlwaysWarnedThenStopped` | `StuckAreWarnedThenStopped` |
| `Workers_proofs` | `DispatchAlwaysKeepsItsWord` | `DispatchKeepsItsWord` |

### The arguments

**TaskGraph** — for every finite set of tasks, acyclic dependencies, retry budgets,
concurrency limit and number of yields and operator calls. `IInv` is `TypeOK` with
three strengthenings. `Orderly` says of statuses, completed set and dependency sets
together that started tasks have their declared dependencies completed, that the
completed set is what the statuses say, and that the dependencies a record holds
include the declared ones: readiness is computed from the record, and `NoEarlyStart`
speaks of the declaration. `MarkedStarted`: a task with a yield marker has its
dependencies completed, since a yielded task is readied from its marker with no look
at the dependencies. `NothingBeforeDeclare`: `DeclareGraph` writes every record. Each
is inductive only with the others. Every handler has one shape, `GoodStep`: it moves
tasks to orderly statuses and starts none, then a dispatch moves ready ones to running
within the limit; one lemma per handler shows it, and the safety theorems and the
refinement follow from `GoodStep` alone. `ImplementsScheduler` maps a step to
`Finish(t)` when the completed set grows and to `Shift` otherwise.

`FailuresAlwaysCarriedThrough` needs `CarriedInv` and the hypothesis `Undisturbed`: no
yields, no operator calls, best-effort tasks only among the added ones, added tasks
without dependencies. Each part is needed: a yielded task waits on what it chose, the
operator's `retry_task` reopens a task whose dependents stay canceled, a best-effort
dependency may fail, and a task added after its dependency died waits for it. Its last
part, `NoneIsStranded`, rests on `Offered`: between handlers no task is ready, one that
waits has a timer or a dependency that is not completed, and a locked one has been
opened. Each handler that opens tasks offers them all to a dispatch that takes them all
(`FreeDispatchTakesAll`); then, in a graph with a task left, the tasks that wait for
nothing run, since the dependencies have no circle.

**MergeGate** — for any tasks, dependencies, conflicts and number of handlers. `MInv`
has the types, the places a handler's program counter allows (`Places`), one promotion
and one Job per task (`JobsInv`, `PromotionInv`), and `AloneInv`, which is about `limit
= 1` and says that recorded work is on the integration branch or that something still
says it is not (`Held`): the handler itself, `pending_merges` or a coordinator. A lone
handler sees all of these but itself, and one that ends the graph has seen every task
terminal.

`GateAlwaysMissesOnlyWindows` is for any number of handlers, with `GateInv`: while the
graph is active, work in `completed` is in place or `Held`; of the ways to be held the
gate reads two (`pending_merges` and a coordinator's status), and the others are the
windows. `EachThingIsDoneOnce` needs, for what is never forgotten, an invariant of who is
to do each thing: a dependent that waits has a dependency after which somebody is still
to look at it (`WaitInv`: its handler, its merge, or its coordinator's handler), a ready
task is in the `newlyReady` of a handler with a slot for it (`ReadyInv`; with a
`maxConcurrency` and one handler at a time, `QueueInv` and `ServedInv`: or some task
runs whose handler will pick it up), and an active graph has work to do, a pending merge
or a handler that has yet to read the tasks or has read that all ended (`EndInv`). When
nobody is at work, the waiting tasks would each wait for another of them, which
`DagAssumption`, what `validateDAG` checks, excludes.

**Rework** — for any settings and drives. `RInv` (judging and fixing: who holds which
key, and what the round then says) gives `RoundsAlwaysPaid`. `DInv` (what a drive that
decides has read can still be true of the record, or the keys keep it from writing)
gives `RefusalIsAlwaysFinal`. `JInv` (the children's clones, the work they judged, the
pins, `Covered`: what the pin names was judged in full) gives `AlwaysPromotedAsJudged`.

**WorkerLifecycle** — for any engines, sessions, budgets and disturbances. `WInv`: what a
session does begins with its dispatch, sweeps judge sessions that were stamped
(`Dispatched`); a verdict of success comes only from a Job that succeeded
(`VerdictInv`); without retries and operators there is one session, and once its
failure is charged no unstamped one is left (`ChargeInv`).

**Coordination** — *the lease*, for any engines and any `Lease`, `Renew`, `Delay` with
`Delay < Renew` and `Renew + 2 Delay < Lease`: `EngineInv` says that an engine's belief
ends before the key does (`EndsInTime`), that calls end before the next is due
(`CallFits`), and that what a call will establish outlasts it (`Outlasts`). *Locks*, for
any sessions and paths: what a release has read is the session's own or was deleted
already. *Services*: calls are about persisted services, removal goes pod, service,
hash; the lease on record is at least the one granted, because a lone extension writes
over what it read. *Edits*, for any ids, graphs and editors, as long as no call was late
and no running task renamed: a running task has a worker that will report by its id, a
startable one has a call on its way that starts it, and the source of a merge stays as
it was copied until it is marked. The proof found what the run had not: a task added
under an id that a merge is about to copy is written over. *The clone*, for any tasks
and branches and callers one at a time (`OneAtATime`; `clone_race` shows why): from the
fetch to the push the work goes with the call, in `FETCH_HEAD`, the tracking branch or
the tip, until origin has it, and a branch is deleted only then. The invariant holds of
each task by itself, so that the property was strengthened: what one task has been told
wrong excuses nothing of another's.

**Messaging** — *messages*: what a call will set the cursor to is covered up to there
(shown, in a result under way, dropped), and nothing covered becomes uncovered.
*Events*: a lone watcher's group has delivered a prefix, all of which it has been shown,
has pending, or discarded. *Workspace*: of two agents whose intents meet one was told
or has a call that will yet compare them; what a call has chosen to show stands while
it chooses, as topics only shrink. *Peers*: what a summary lags behind is on some
handler's way (`GraphInv`, `PairInv`, `HandlerInv`); a failure is recorded once.

**Judging** — *criteria*, for any list: the criteria before the one an evaluation is at
are done, those after it untouched; once it is over nothing of it changes, so that what
a later drive decides still fits. *Fix integrity*: unless a git command failed the
baseline is the first commit, as nobody commits before the first fix; the pin is the
head that was judged, and the guard has compared it. *Reviews*: of the events a pattern
matched, `Threshold` per anomaly are used up and what a window has counted is still
there (`EarnedInv`: there is a set of used events of that size, disjoint from the fresh
ones); one drive completes the graph, under the lock (`ReviewInv`); what is still to be
filed has no issue, and what has one was counted (`FilingInv`). *Declaration*, for any
tasks, recipes and defaults. The walks of the input are recursive functions: that they
are defined (`Recursion`), what Kahn's algorithm visits (`VisitedIs`,
`CirclesAreNotVisited`) and what the expansion yields are shown by induction on their
length, which `AllNaturals` gives for sets of numbers: the least number outside a set
that has 0 and each successor does not exist. Then `DeclarationInv` says phase by phase
what the checks have left out and what level and gate have to do with the tasks.

**Workers** — *dispatch*, for any engines, attempts and failures: the last attempt is
equipped before it has a Secret and has the Secret before a Job; what a deletion on its
way may meet belongs to an earlier attempt or has ended; and what the dry run lists as
errors is what the dispatch refuses, since both compute one plan. *The gateway*: one client at most is connected (`ClientInv`), and what a
worker is permitted is what it was offered as long as the breaker and the server's list
have not turned since it came (`EntitledInv`, `ListInv`, `UndisturbedInv`). *Sessions*:
an update that writes over what it read keeps phase and graph, or it is an overlap; a
moved task's re-pointing writes the target. *Costs*: per attempt, span, sum and record
are those of its end (`Counted`, `SpanFollows`), and what waits in the sum has an end to
come. *Tasks*: newest span and gauges follow the stage, but for what the events on
their way will change (`NewsInv`, `SpansInv`, `StageInv`). *Reports*: earlier runs are
over with handlers and calls; past the grace period no call of the last run is on its
way, since what is left of the grace and the call's age make up `Grace > Latency`; the
handoff is the last run's (`RunInv`, `LastInv`). *Silent workers*: a worker has been
stuck for at most `Debounce` less what is left of the flag until it is hinted, and for
at most twice that until it is stopped, because the hint outlasts the debounce
(`StuckInv`, `SweepInv`).

### What is only model-checked

- Liveness under fairness (`GraphSettles`, `GraphDelivers`, `GatesComeToAnEnd`,
  `EndIsNoticedUntimed`, `RetryHappens`): out of the prover's reach.
- What the violation runs show: `StartsOnIntegrated`, `PromotesEverything` and the others
  are false, and the theorems say what is true instead.

The library's induction theorems take an operator as a parameter, which no backend can
instantiate; the proofs that need induction (`Judging_proofs`) go by sets of numbers.

## 6. Not modelled

The Redis connection layer; manifests, images and registries beyond what a plan reads of
them; templates' text; the command line; local (non-pod) workers and the startup
recovery that serves them; `detectDeadlock`, `selectForceProceeder` and
`onValidationCompleted`, which production code does not call; a failover of Redis.
Where the models stop, in order of what a reader may miss most:

- *TaskGraph, MergeGate:* child graphs and validation (they are in `Rework`); the crash of
  an engine inside a handler; recovery from it.
- *Rework:* `pr-only` destinations' deferred promotion; the synchronisation of the graph
  registry; in `GraphEdits`, the count of rejections is read before it is raised.
- *WorkerLifecycle:* the automatic retry after exit codes 137 and 139 (in `TaskGraph`; for
  pods the out-of-memory branch is dead code); the startup health check, which for pods
  reports nothing.
- *Reports:* what `inferDeathOutcome` makes of commits in a shared directory.
- *Interrogation:* after a restart the new engine has no handles, so no timeout is enforced
  by it; hint and debounce are the task's, so a second attempt may be stopped on its first
  confident verdict.
- *Telemetry:* canceled tasks (no event is emitted, so a canceled task stays in the in-flight
  gauge); tasks of two graphs that bear one id.
- *Sessions:* a merged worker that reconnects or is silent for 60 s reports to its old graph,
  since its record is made from its token (`expired`, `remade`); a late DELETE of an old
  session removes the live one's record (`closed`).
- *Gateway:* a client whose connection hangs, or whose server restarts, is not rebuilt; names
  of proxied tools.
- *Mailbox:* a directive pushed between the read and the deletion of the list is lost, although
  `directives.ts:42` says "atomically"; the broadcast cursor that sessions share.
- *Workspace:* intents that child graphs see of their parents; the keys' 24-hour expiry.
- *PeerGraphs:* `retry_task` takes a failed graph back to active without registering it
  (`revived`).
- *GraphEdits:* a task that ran while `merge_graphs` gave it another id is reported to nobody
  (`readdressed`).
- *Retrospective:* anomalies are the session's and expire after a day; a drive that outlives
  its lock.

## 7. What is left

Every safety property of the passing runs has its theorem. In this order:

1. More claims for the components whose invariant already carries them: that an engine
   of `Rework` never touches the round of another key's holder, as an action property;
   that `MergeClone`'s origin only grows; that a task of `GraphEdits` never leaves a
   terminal status but by `reject_task`.
2. Abstract specifications for the components that have none: mutual exclusion with a
   horizon for `LeaderLease`, a log with one reader for `EventStream`, each shown to be
   implemented as `DependencyScheduler` is.
3. What section 6 lists first: validation and children inside `TaskGraph`, a crash inside
   one of its handlers.
