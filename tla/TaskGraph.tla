------------------------------ MODULE TaskGraph ------------------------------
(***************************************************************************)
(* The task graph engine, src/src/task-graph.ts: one graph of tasks, its   *)
(* Redis records, and every handler that moves a task or the graph.        *)
(*                                                                         *)
(* A handler is one action here: the handlers of one graph are taken to    *)
(* run one after the other.  MergeGate splits the completion handler at    *)
(* its awaits and lets several of them overlap.                            *)
(***************************************************************************)
EXTENDS TaskStates, Naturals, FiniteSets

CONSTANTS
    Tasks,            \* every task id the graph may ever hold
    Declared,         \* those declare_task_graph names; the others come by addTask
    StaticDeps,       \* task -> its dependsOn
    RequireApproval,  \* tasks declared with requireApproval
    BestEffort,       \* autoAdded tasks and rework-*: their failure is not fatal
    MaxRetries,       \* task -> its maxRetries
    MaxConcurrency,   \* the graph's maxConcurrency; 0 when it is unset
    MemoryPressure,   \* whether free memory may be below 2 GB at a dispatch
    ForeignOwner,     \* whether another session may hold the orchestrator lease
    MaxYields,        \* bound: calls of yield_to in a behaviour
    MaxInterventions  \* bound: retry_task and cancel_task_graph calls

ASSUME TasksAssumption ==
    /\ IsFiniteSet(Tasks)
    /\ Declared \subseteq Tasks
    /\ RequireApproval \subseteq Tasks
    /\ BestEffort \subseteq Tasks
    /\ MaxRetries \in [Tasks -> Nat]
    /\ MaxConcurrency \in Nat /\ MaxYields \in Nat /\ MaxInterventions \in Nat
    /\ MemoryPressure \in BOOLEAN /\ ForeignOwner \in BOOLEAN

\* validateDAG: dependencies are declared tasks, and every set of tasks has one
\* that depends on none of the others.
ASSUME DepsAssumption ==
    /\ StaticDeps \in [Tasks -> SUBSET Tasks]
    /\ \A t \in Declared : StaticDeps[t] \subseteq Declared
    /\ \A S \in (SUBSET Tasks) \ {{}} : \E t \in S : StaticDeps[t] \cap S = {}

VARIABLES
    graph,         \* graph:<g> .status
    status,        \* graph:<g>:tasks:<t> .status, "absent" when there is no record
    retries,       \* graph:<g>:tasks:<t> .retries
    deps,          \* the sets graph:<g>:deps:<t>; rdeps is their inverse
    completed,     \* the set graph:<g>:completed
    locks,         \* the keys graph:<g>:lock:<t> (NX, 60 s, never released)
    marked,        \* the tasks with a yield marker bureau:yield:<g>:<t>
    awaited,       \* the agents of that marker, {} when there is none
    escalating,    \* tasks whose setTimeout(0) escalation check has not run yet
    backoff,       \* tasks with a retry timer in retryTimers
    yields,        \* yield_to calls so far
    interventions  \* operator calls so far

yieldVars == <<marked, awaited, escalating, yields>>
vars == <<graph, status, retries, deps, completed, locks, yieldVars, backoff,
          interventions>>

GraphStatuses == {"undeclared", "active", "completed", "failed", "canceled"}

-----------------------------------------------------------------------------
(* What the handlers share *)

Present == {t \in Tasks : status[t] # "absent"}
Dependents(d) == {t \in Tasks : d \in deps[t]}
Running(st) == {t \in Tasks : st[t] = "running"}

\* updateTaskStatus on every task of S
With(st, S, s) == [t \in Tasks |-> IF t \in S THEN s ELSE st[t]]

\* Mutant: the slots are not reduced by the tasks that already run.
Dispatched_IgnoresRunning(st, ready, authoritative) ==
    {D \in SUBSET ready : MaxConcurrency = 0 \/ Cardinality(D) <= MaxConcurrency}

\* dispatchReadyTasks: the sets of `ready` that one call may start.  The list is
\* cut to the free slots, whichever tasks come first in it; a foreign lease stops
\* a dispatch that is not authoritative and low memory stops any.
Dispatched(st, ready, authoritative) ==
    {D \in SUBSET ready :
        /\ \/ MaxConcurrency = 0
           \/ D = {}
           \/ Cardinality(Running(st) \cup D) <= MaxConcurrency
        /\ \/ D = ready
           \/ MaxConcurrency # 0 /\ Cardinality(Running(st) \cup D) >= MaxConcurrency
           \/ D = {} /\ (MemoryPressure \/ (ForeignOwner /\ ~authoritative))}

\* Mutant: failures do not fail the graph.
Resolution_IgnoresFailures(st) ==
    IF graph # "active" \/ (\E t \in Tasks : st[t] # "absent" /\ ~IsTerminal(st[t]))
    THEN graph ELSE "completed"

\* checkGraphCompletion of a graph without children, gate or branches to merge:
\* the status it leaves the graph in.
Resolution(st) ==
    IF graph # "active" \/ (\E t \in Tasks : st[t] # "absent" /\ ~IsTerminal(st[t]))
    THEN graph
    ELSE IF \E t \in Tasks \ BestEffort : st[t] = "failed" THEN "failed" ELSE "completed"

\* resolveYield deletes the marker.
Resolve(S) ==
    /\ marked' = marked \ S
    /\ awaited' = [t \in Tasks |-> IF t \in S THEN {} ELSE awaited[t]]

-----------------------------------------------------------------------------
Init ==
    /\ graph = "undeclared"
    /\ status = [t \in Tasks |-> "absent"]
    /\ retries = [t \in Tasks |-> 0]
    /\ deps = [t \in Tasks |-> {}]
    /\ completed = {} /\ locks = {} /\ backoff = {}
    /\ marked = {} /\ escalating = {}
    /\ awaited = [t \in Tasks |-> {}]
    /\ yields = 0 /\ interventions = 0

\* declareGraph: tasks without dependencies are readied and, with the lease just
\* claimed, offered to dispatch.
DeclareGraph ==
    LET roots == {t \in Declared : StaticDeps[t] = {}}
        st == [t \in Tasks |-> IF t \in roots THEN "ready"
                               ELSE IF t \in Declared THEN "pending" ELSE "absent"]
    IN  /\ graph = "undeclared"
        /\ graph' = "active"
        /\ deps' = [t \in Tasks |-> IF t \in Declared THEN StaticDeps[t] ELSE {}]
        /\ \E D \in Dispatched(st, roots, TRUE) : status' = With(st, D, "running")
        /\ UNCHANGED <<retries, completed, locks, yieldVars, backoff, interventions>>

\* addTask: only into an active graph, once its dependencies exist.
AddTask(t) ==
    LET ready == StaticDeps[t] \subseteq completed
        st == [status EXCEPT ![t] = IF ready THEN "ready" ELSE "pending"]
    IN  /\ graph = "active"
        /\ status[t] = "absent"
        /\ StaticDeps[t] \subseteq Present
        /\ deps' = [deps EXCEPT ![t] = StaticDeps[t]]
        /\ \E D \in Dispatched(st, IF ready THEN {t} ELSE {}, FALSE) :
              status' = With(st, D, "running")
        /\ UNCHANGED <<graph, retries, completed, locks, yieldVars, backoff, interventions>>

-----------------------------------------------------------------------------
(* A worker completes its task *)

\* Mutant: one completed dependency is enough.
Opened_AnyDependency(t) ==
    {d \in Dependents(t) : status[d] = "pending" /\ d \notin locks}

\* readyDependentsOf: the pending dependents whose dependencies are all completed
\* and whose dispatch lock is free.
Opened(t) ==
    {d \in Dependents(t) : /\ deps[d] \subseteq completed \cup {t}
                           /\ status[d] = "pending"
                           /\ d \notin locks}

AfterOpening(t) ==
    [d \in Tasks |-> IF d = t THEN "completed"
                     ELSE IF d \notin Opened(t) THEN status[d]
                     ELSE IF d \in RequireApproval THEN "awaiting_approval"
                     ELSE "ready"]

\* The yields that t's completion resolves, and those of them whose task cannot
\* go to ready: the handler throws at the first of these, its marker already gone.
Awakened(t) ==
    {y \in marked : t \in awaited[y] /\ awaited[y] \subseteq completed \cup {t}}
Refused(t) == {y \in Awakened(t) : ~CanTransitionTo(AfterOpening(t)[y], "ready")}

\* The rest of onTaskCompleted when no resolved yield throws.
ResumeAndDispatch(t) ==
    LET st == With(AfterOpening(t), Awakened(t), "ready")
        throttled == IF MaxConcurrency = 0 THEN {}
                     ELSE {d \in Tasks : st[d] = "ready"}
        newlyReady == (Opened(t) \ RequireApproval) \cup Awakened(t) \cup throttled
    IN  /\ Refused(t) = {}
        /\ Resolve(Awakened(t))
        /\ escalating' = escalating \ Awakened(t)
        /\ \E D \in Dispatched(st, newlyReady, TRUE) : status' = With(st, D, "running")
        /\ graph' = Resolution(status')

\* A resolved yield throws: some of the others were resumed before it; nothing is
\* dispatched and the graph is not checked.
AbortInYieldScan(t) ==
    \E y \in Refused(t), before \in SUBSET (Awakened(t) \ Refused(t)) :
        /\ Resolve(before \cup {y})
        /\ escalating' = escalating \ before
        /\ status' = With(AfterOpening(t), before, "ready")
        /\ graph' = graph

\* onTaskCompleted.  From any status but running it returns or throws before it
\* changes anything.
OnTaskCompleted(t) ==
    /\ status[t] = "running"
    /\ completed' = completed \cup {t}
    /\ locks' = locks \cup Opened(t)
    /\ ResumeAndDispatch(t) \/ AbortInYieldScan(t)
    /\ UNCHANGED <<retries, deps, yields, backoff, interventions>>

-----------------------------------------------------------------------------
(* A worker fails its task *)

\* cascadeCancel walks rdeps from t.  It cancels what it meets and walks on from
\* there, except through tasks that are completed or running.
Cancelable(st) == {d \in Tasks : st[d] \notin {"absent", "completed", "running"}}

\* Mutant: the cascade stops at the direct dependents.
ReachedWithin_OneLevel(W, t) == Dependents(t) \cap W

\* The tasks of W that a walk from t inside W meets: those that no set closed under
\* Dependents leaves out.
Closed(S, W, t) == \A e \in S \cup {t} : Dependents(e) \cap W \subseteq S
ReachedWithin(W, t) == {d \in W : \A S \in SUBSET (W \ {d}) : ~Closed(S, W, t)}

\* Of the tasks the walk meets, those that cannot be canceled: it throws at the
\* first one.
Stuck(st, reached) == {d \in reached : ~CanTransitionTo(st[d], "canceled")}

\* cascadeCancel: the sets of tasks it may have canceled when it returns, or when
\* it throws because it has come to a stuck one.
CascadeOutcomes(st, t) ==
    LET reached == ReachedWithin(Cancelable(st), t)
        stuck == Stuck(st, reached)
    IN  IF stuck = {} THEN {reached}
        ELSE {P \in SUBSET (reached \ stuck) :
                /\ ReachedWithin(P, t) = P
                /\ \E b \in stuck : deps[b] \cap (P \cup {t}) # {}}

\* The cascade from t throws.
Throws(st, t) == Stuck(st, ReachedWithin(Cancelable(st), t)) # {}

\* onTaskFailed past its retries: failed, cascade, completion check.
FailForGood(t) ==
    LET st == With(status, {t}, "failed")
    IN  /\ \E P \in CascadeOutcomes(st, t) : status' = With(st, P, "canceled")
        /\ graph' = IF Throws(st, t) THEN graph ELSE Resolution(status')
        /\ UNCHANGED <<retries, backoff>>

\* Killed for memory or a segfault, and never retried yet: back to ready at once.
RetryAfterKill(t) ==
    LET st == With(status, {t}, "ready")
    IN  /\ retries' = [retries EXCEPT ![t] = 1]
        /\ \E D \in Dispatched(st, {t}, TRUE) : status' = With(st, D, "running")
        /\ UNCHANGED <<graph, backoff>>

\* Mutants: the retry count goes down; the backoff timer is not set.
RetryWithBackoff_CountsDown(t) ==
    /\ retries' = [retries EXCEPT ![t] = @ - 1]
    /\ status' = With(status, {t}, "pending")
    /\ backoff' = backoff \cup {t}
    /\ UNCHANGED graph
RetryWithBackoff_NoTimer(t) ==
    /\ retries' = [retries EXCEPT ![t] = @ + 1]
    /\ status' = With(status, {t}, "pending")
    /\ UNCHANGED <<backoff, graph>>

\* resetTaskForRetry, without its dependents, and a backoff timer.
RetryWithBackoff(t) ==
    /\ retries' = [retries EXCEPT ![t] = @ + 1]
    /\ status' = With(status, {t}, "pending")
    /\ backoff' = backoff \cup {t}
    /\ UNCHANGED graph

\* onTaskFailed; `killed` is exit code 137 or 139, `skipRetry` the caller's option.
OnTaskFailed(t, killed, skipRetry) ==
    LET afterKill == ~skipRetry /\ killed /\ retries[t] = 0
        withBackoff == ~skipRetry /\ ~afterKill /\ retries[t] < MaxRetries[t]
    IN
    /\ status[t] = "running"
    /\ \/ afterKill /\ RetryAfterKill(t)
       \/ withBackoff /\ RetryWithBackoff(t)
       \/ ~afterKill /\ ~withBackoff /\ FailForGood(t)
    /\ UNCHANGED <<deps, completed, locks, yieldVars, interventions>>

-----------------------------------------------------------------------------
(* A worker yields its task *)

\* yield_to: the worker writes the marker and will exit; its task still runs.
YieldTo(t, agents) ==
    /\ status[t] = "running"
    /\ yields < MaxYields
    /\ marked' = marked \cup {t}
    /\ awaited' = [awaited EXCEPT ![t] = agents]
    /\ yields' = yields + 1
    /\ UNCHANGED <<graph, status, retries, deps, completed, locks, escalating, backoff,
                   interventions>>

\* onTaskYielded: the worker's exit found its marker.  The agents become runtime
\* dependencies, whether or not they have completed.
OnTaskYielded(t) ==
    /\ status[t] = "running"
    /\ t \in marked
    /\ status' = [status EXCEPT ![t] = "yielded"]
    /\ deps' = [deps EXCEPT ![t] = @ \cup awaited[t]]
    /\ escalating' = escalating \cup {t}
    /\ UNCHANGED <<graph, retries, completed, locks, marked, awaited, yields, backoff,
                   interventions>>

\* runAutoResolveCheck when the files of t and of its agents do not overlap:
\* resumeYieldedTask.
AutoResolve(t) ==
    LET st == With(status, {t}, "ready")
    IN  /\ t \in escalating /\ t \in marked /\ status[t] = "yielded"
        /\ Resolve({t})
        /\ escalating' = escalating \ {t}
        /\ \E D \in Dispatched(st, {t}, FALSE) : status' = With(st, D, "running")
        /\ UNCHANGED <<graph, retries, deps, completed, locks, yields, backoff, interventions>>

\* runAutoResolveCheck when they overlap (the five-minute fallback it arms only
\* reports), or when the task is no longer yielded or its marker is gone.
KeepWaiting(t) ==
    /\ t \in escalating
    /\ (t \in marked /\ status[t] = "yielded") => awaited[t] # {}
    /\ escalating' = escalating \ {t}
    /\ UNCHANGED <<graph, status, retries, deps, completed, locks, marked, awaited, yields,
                   backoff, interventions>>

-----------------------------------------------------------------------------
(* Re-dispatch, approval and the operator's tools *)

\* Mutant: pending tasks are readied without asking for their dependencies.
ResumeDispatch_AnyPending(st, mk, owner) ==
    LET st2 == [t \in Tasks |-> IF st[t] = "pending" THEN "ready" ELSE st[t]]
    IN  /\ Resolve(marked \ mk)
        /\ \E D \in Dispatched(st2, {t \in Tasks : st2[t] = "ready"}, owner) :
              status' = With(st2, D, "running")

\* resumeDispatch, from the statuses st and with the markers in mk: readies pending
\* tasks whose dependencies are completed, and yielded ones whose marker is gone or
\* satisfied, and offers every ready task to dispatch.
ResumeDispatch(st, mk, owner) ==
    LET pending == {t \in Tasks : st[t] = "pending" /\ deps[t] \subseteq completed}
        woken == {t \in Tasks : st[t] = "yielded"
                                /\ (t \in mk => awaited[t] \subseteq completed)}
        st2 == With(st, pending \cup woken, "ready")
        ready == {t \in Tasks : st2[t] = "ready"}
    IN  /\ Resolve((marked \ mk) \cup woken)
        /\ \E D \in Dispatched(st2, ready, owner) : status' = With(st2, D, "running")

\* The backoff timer of t fires.
RetryTimerFires(t) ==
    /\ t \in backoff
    /\ backoff' = backoff \ {t}
    /\ IF graph \in {"canceled", "completed", "failed"}
       THEN UNCHANGED <<status, marked, awaited>>
       ELSE ResumeDispatch(status, marked, FALSE)
    /\ UNCHANGED <<graph, retries, deps, completed, locks, escalating, yields, interventions>>

\* resume_graph, which takes the lease over, for a graph whose workers are all alive.
ResumeGraph ==
    /\ graph # "undeclared"
    /\ ResumeDispatch(status, marked, TRUE)
    /\ UNCHANGED <<graph, retries, deps, completed, locks, escalating, yields, backoff,
                   interventions>>

\* approveTask
ApproveTask(t) ==
    LET st == With(status, {t}, "ready")
    IN  /\ status[t] = "awaiting_approval"
        /\ \E D \in Dispatched(st, {t}, FALSE) : status' = With(st, D, "running")
        /\ UNCHANGED <<graph, retries, deps, completed, locks, yieldVars, backoff,
                       interventions>>

\* The sets of dependents resetTaskForRetry may reset.  Its breadth-first walk
\* visits a dependent once, when it takes the first of its reset parents from the
\* queue, and resets it if it is canceled and each dependency is then completed or
\* pending.  `at` is the order in which tasks enter the queue.
ResetOutcomes(st, t) ==
    LET canceled == {d \in Tasks : st[d] = "canceled"}
        idle == {d \in Tasks : st[d] \in {"completed", "pending"}}
        Order(R) == {at \in [R \cup {t} -> 0 .. Cardinality(R)] :
                        /\ at[t] = 0
                        /\ \A r, s \in R \cup {t} : at[r] = at[s] => r = s}
        FromQueue(d, R, at) == {at[p] : p \in deps[d] \cap (R \cup {t})}
        First(d, R, at) == CHOOSE n \in FromQueue(d, R, at) :
                               \A m \in FromQueue(d, R, at) : n <= m
        Visited(R) == {d \in canceled : deps[d] \cap (R \cup {t}) # {}}
    IN  {R \in SUBSET canceled : \E at \in Order(R) :
           /\ R \subseteq Visited(R)
           /\ \A r \in R : /\ \A x \in deps[r] : x \in idle \/ (x \in R /\ at[x] < at[r])
                           /\ \A s \in R : First(r, R, at) < First(s, R, at) => at[r] < at[s]
           /\ \A d \in Visited(R) \ R : \E x \in deps[d] \ idle :
                  x \in R => First(x, R, at) >= First(d, R, at)}

\* The graph's status after retryTask.
\* Mutant: only a failed graph is reactivated.
Reactivated_FailedOnly == IF graph = "failed" THEN "active" ELSE graph
Reactivated == IF graph \in {"failed", "canceled"} THEN "active" ELSE graph

\* retryTask
RetryTask(t, resetDependents) ==
    LET st == With(status, {t}, "pending")
        wasYielded == IF status[t] = "yielded" THEN {t} ELSE {}
    IN  /\ status[t] \in {"failed", "canceled", "yielded"}
        /\ interventions < MaxInterventions
        /\ interventions' = interventions + 1
        /\ retries' = [retries EXCEPT ![t] = 0]
        /\ escalating' = escalating \ wasYielded
        /\ graph' = Reactivated
        /\ \E R \in (IF resetDependents THEN ResetOutcomes(st, t) ELSE {{}}) :
              ResumeDispatch(With(st, R, "pending"), marked \ wasYielded, FALSE)
        /\ UNCHANGED <<deps, completed, locks, yields, backoff>>

\* The tasks cancelGraph cancels.
\* Mutant: the completed ones too.
ToCancel_Completed == Present
ToCancel == {t \in Present : ~IsTerminal(status[t])}

\* cancelGraph, whatever status the graph is in.
CancelGraph ==
    /\ graph # "undeclared"
    /\ interventions < MaxInterventions
    /\ interventions' = interventions + 1
    /\ graph' = "canceled"
    /\ backoff' = {}
    /\ status' = With(status, ToCancel, "canceled")
    /\ UNCHANGED <<retries, deps, completed, locks, yieldVars>>

\* reapStaleGraph, as the health sweep calls it: 30 minutes without a live task.
ReapStaleGraph ==
    /\ graph = "active"
    /\ \A t \in Present : IsTerminal(status[t])
    /\ graph' = "failed"
    /\ backoff' = {}
    /\ UNCHANGED <<status, retries, deps, completed, locks, yieldVars, interventions>>

\* The 60 seconds of a dispatch lock pass.
LockExpires(t) ==
    /\ t \in locks
    /\ locks' = locks \ {t}
    /\ UNCHANGED <<graph, status, retries, deps, completed, yieldVars, backoff, interventions>>

-----------------------------------------------------------------------------
WorkerEnds(t) ==
    \/ OnTaskCompleted(t)
    \/ \E killed, skipRetry \in BOOLEAN : OnTaskFailed(t, killed, skipRetry)
    \/ OnTaskYielded(t)

EscalationCheck(t) == AutoResolve(t) \/ KeepWaiting(t)

Next ==
    \/ DeclareGraph \/ ResumeGraph \/ CancelGraph \/ ReapStaleGraph
    \/ \E t \in Tasks :
          \/ WorkerEnds(t) \/ AddTask(t) \/ ApproveTask(t)
          \/ EscalationCheck(t) \/ RetryTimerFires(t) \/ LockExpires(t)
          \/ \E agents \in SUBSET (Tasks \ {t}) : YieldTo(t, agents)
          \/ \E resetDependents \in BOOLEAN : RetryTask(t, resetDependents)

Spec == Init /\ [][Next]_vars

\* What goes on by itself: workers come to an end and their exits are seen, timers
\* fire, the health sweep reaps, Redis expires its keys.  Nobody has to yield,
\* approve, add, retry or cancel.
Fairness ==
    /\ WF_vars(DeclareGraph)
    /\ WF_vars(ReapStaleGraph)
    /\ \A t \in Tasks : /\ WF_vars(WorkerEnds(t))
                        /\ WF_vars(EscalationCheck(t))
                        /\ WF_vars(RetryTimerFires(t))
                        /\ WF_vars(LockExpires(t))

FairSpec == Spec /\ Fairness

-----------------------------------------------------------------------------
(* Properties *)

\* The types of the records the engine keeps in Redis and in memory.
TypeOK ==
    /\ graph \in GraphStatuses
    /\ status \in [Tasks -> Statuses \cup {"absent"}]
    /\ retries \in [Tasks -> Nat]
    /\ deps \in [Tasks -> SUBSET Tasks]
    /\ awaited \in [Tasks -> SUBSET Tasks]
    /\ completed \subseteq Tasks /\ locks \subseteq Tasks /\ marked \subseteq Tasks
    /\ escalating \subseteq Tasks /\ backoff \subseteq Tasks
    /\ yields \in Nat /\ interventions \in Nat

\* A task that has been readied, runs, has yielded or is completed has every task
\* of its dependsOn completed, along every way into those statuses: completion,
\* retries, yields, approval, addTask and the operator's tools.
Started == {"ready", "awaiting_approval", "running", "yielded", "completed"}
NoEarlyStart ==
    \A t \in Tasks : status[t] \in Started => StaticDeps[t] \subseteq completed

\* The completed set, which readiness is computed from, and the statuses of the
\* task records say the same, although handlers write them separately and a
\* handler may throw half-way.
CompletedAgrees == completed = {t \in Tasks : status[t] = "completed"}

\* dispatchReadyTasks keeps the graph within its maxConcurrency, with resumed
\* yields and retries taking and giving back slots.
WithinConcurrency == MaxConcurrency # 0 => Cardinality(Running(status)) <= MaxConcurrency

\* A graph that has failed or was canceled has no task that could still start: no
\* timer, yield or late worker exit revives one unless retry_task reactivates it.
DeadGraphIsQuiet ==
    graph \in {"failed", "canceled"} => \A t \in Present : IsTerminal(status[t])

\* A graph only reports completed when each of its tasks, best-effort ones apart,
\* has completed: none was skipped, left waiting or lost by a cascade.
CompletedMeansAllRan ==
    graph = "completed" => Present \ BestEffort \subseteq completed

\* No task of a live graph is left waiting on a task that ended without success:
\* the cascade reaches whatever a failure makes impossible.
NoneWaitsOnTheDead ==
    graph = "active" =>
        \A t \in Tasks : status[t] = "pending" =>
            \A d \in StaticDeps[t] : status[d] \notin {"failed", "canceled"}

\* Where nothing holds a dispatch back, an active graph has somebody to move it on: a
\* worker, a retry's timer or an approval to come, or the sweep which reaps what has ended.
\* No task is left behind whose dependencies completed while it was locked or in backoff.
NoneIsStranded ==
    graph = "active" /\ MaxConcurrency = 0 /\ ~MemoryPressure /\ ~ForeignOwner =>
        \/ \A t \in Present : IsTerminal(status[t])
        \/ \E t \in Tasks : status[t] \in {"running", "awaiting_approval"} \/ t \in backoff

\* What a failure makes impossible is neither counted as done nor waited for, and what it
\* leaves possible goes on.
FailuresAreCarriedThrough == CompletedMeansAllRan /\ NoneWaitsOnTheDead /\ NoneIsStranded

\* A graph does not stay active for ever: whatever fails, is retried or yields, the
\* engine brings every task to an end and resolves the graph.
GraphSettles == (graph = "active") ~> (graph # "active")

\* The engine keeps the promise of DependencyScheduler: the completed set is what
\* is done, the running tasks are what is active.
Scheduler == INSTANCE DependencyScheduler
                 WITH Needs <- StaticDeps, Slots <- MaxConcurrency,
                      done <- completed, active <- Running(status)
SchedulerSpec == Scheduler!Spec
=============================================================================
