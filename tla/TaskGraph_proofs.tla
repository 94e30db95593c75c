--------------------------- MODULE TaskGraph_proofs ---------------------------
(***************************************************************************)
(* Proofs about TaskGraph for every set of tasks, every dependency graph   *)
(* and every value of the bounds.                                          *)
(*                                                                         *)
(* Every step of the engine has one shape (GoodStep): the handler first    *)
(* moves tasks to statuses st that respect the dependencies, starting      *)
(* none, and then dispatch moves some of the ready ones to running, within *)
(* the concurrency limit.  Type correctness, the order of starts, the      *)
(* limit and the refinement of DependencyScheduler all follow from it.     *)
(***************************************************************************)
EXTENDS TaskGraph, FiniteSetTheorems, TLAPS

Status == [Tasks -> Statuses \cup {"absent"}]

\* Statuses st, completed set dn and dependency sets dp that respect dependsOn.
Orderly(st, dn, dp) ==
    /\ st \in Status
    /\ dn = {t \in Tasks : st[t] = "completed"}
    /\ \A t \in Tasks : st[t] \in Started => StaticDeps[t] \subseteq dn
    /\ \A t \in Tasks : st[t] # "absent" => StaticDeps[t] \subseteq dp[t]

\* A marker is only ever written for a task that was started.
MarkedStarted == \A t \in marked : StaticDeps[t] \subseteq completed

\* Before declare_task_graph there is no task record and no timer.
NothingBeforeDeclare ==
    graph = "undeclared" => backoff = {} /\ \A t \in Tasks : status[t] = "absent"

IInv ==
    /\ TypeOK
    /\ Orderly(status, completed, deps)
    /\ MarkedStarted
    /\ NothingBeforeDeclare

GoodStep ==
    \E st \in Status, D \in SUBSET Tasks :
        /\ Orderly(st, completed', deps')
        /\ Running(st) \subseteq Running(status)
        /\ \A t \in D : st[t] = "ready"
        /\ MaxConcurrency = 0 \/ D = {} \/ Cardinality(Running(st) \cup D) <= MaxConcurrency
        /\ status' = With(st, D, "running")

-----------------------------------------------------------------------------
(* What the operators shared by the handlers preserve *)

\* Readying tasks whose dependencies are all completed respects the dependencies.
LEMMA ReadyingIsOrderly ==
    ASSUME NEW st, NEW dn, NEW dp, Orderly(st, dn, dp),
           NEW S \in SUBSET Tasks,
           \A t \in S : /\ st[t] \notin {"completed", "absent"}
                        /\ StaticDeps[t] \subseteq dn
    PROVE  Orderly(With(st, S, "ready"), dn, dp)
  BY DEF Orderly, With, Status, Statuses, Started

\* So does stopping tasks that exist and have not completed.
LEMMA StoppingIsOrderly ==
    ASSUME NEW st, NEW dn, NEW dp, Orderly(st, dn, dp),
           NEW S \in SUBSET Tasks,
           \A t \in S : st[t] \notin {"completed", "absent"},
           NEW s \in {"pending", "failed", "canceled"}
    PROVE  Orderly(With(st, S, s), dn, dp)
  BY DEF Orderly, With, Status, Statuses, Started

\* Dispatch after orderly statuses that start nothing is a good step.
LEMMA DispatchIsGood ==
    ASSUME NEW st \in Status, NEW ready \in SUBSET Tasks, NEW o \in BOOLEAN,
           Orderly(st, completed', deps'),
           Running(st) \subseteq Running(status),
           \A t \in ready : st[t] = "ready",
           NEW D \in Dispatched(st, ready, o),
           status' = With(st, D, "running")
    PROVE  GoodStep
  BY DEF GoodStep, Dispatched

\* A step that only moves to such statuses is one too.
LEMMA RestIsGood ==
    ASSUME Orderly(status', completed', deps'),
           Running(status') \subseteq Running(status)
    PROVE  GoodStep
  <1>1. status' \in Status
    BY DEF Orderly
  <1>2. status' = With(status', {}, "running")
    BY <1>1 DEF With, Status
  <1>. QED
    BY <1>1, <1>2 DEF GoodStep

-----------------------------------------------------------------------------
(* Every handler is a good step *)

LEMMA DeclareIsGood == IInv /\ DeclareGraph => GoodStep
  <1> SUFFICES ASSUME IInv, DeclareGraph PROVE GoodStep
    OBVIOUS
  <1> DEFINE roots == {t \in Declared : StaticDeps[t] = {}}
             st == [t \in Tasks |-> IF t \in roots THEN "ready"
                                    ELSE IF t \in Declared THEN "pending" ELSE "absent"]
  <1>1. PICK D \in Dispatched(st, roots, TRUE) : status' = With(st, D, "running")
    BY DEF DeclareGraph
  <1>2. completed' = {} /\ Declared \subseteq Tasks
    BY TasksAssumption DEF IInv, NothingBeforeDeclare, Orderly, DeclareGraph
  <1>3. deps' = [t \in Tasks |-> IF t \in Declared THEN StaticDeps[t] ELSE {}]
    BY DEF DeclareGraph
  <1>4. Orderly(st, completed', deps')
    BY <1>2, <1>3 DEF Orderly, Status, Statuses, Started
  <1>5. Running(st) \subseteq Running(status)
    BY DEF Running
  <1>6. st \in Status /\ roots \in SUBSET Tasks /\ \A t \in roots : st[t] = "ready"
    BY <1>2, <1>4 DEF Orderly
  <1>. QED
    BY <1>1, <1>4, <1>5, <1>6, DispatchIsGood

LEMMA AddTaskIsGood ==
    ASSUME NEW t \in Tasks, IInv, AddTask(t)
    PROVE  GoodStep
  <1> DEFINE ready == StaticDeps[t] \subseteq completed
             st == [status EXCEPT ![t] = IF ready THEN "ready" ELSE "pending"]
             offered == IF ready THEN {t} ELSE {}
  <1>1. PICK D \in Dispatched(st, offered, FALSE) : status' = With(st, D, "running")
    BY DEF AddTask
  <1>2. /\ status[t] = "absent" /\ completed' = completed
        /\ deps' = [deps EXCEPT ![t] = StaticDeps[t]]
    BY DEF AddTask
  <1>3. Orderly(st, completed', deps')
    BY <1>2 DEF IInv, TypeOK, Orderly, Status, Statuses, Started
  <1>4. Running(st) \subseteq Running(status)
    BY DEF Running, IInv, Orderly, Status
  <1>5. st \in Status /\ offered \in SUBSET Tasks /\ \A u \in offered : st[u] = "ready"
    BY <1>3 DEF Orderly, Status
  <1>. QED
    BY <1>1, <1>3, <1>4, <1>5, DispatchIsGood

\* Opening the dependents of a completed task respects the dependencies.
LEMMA OpeningIsOrderly ==
    ASSUME NEW t \in Tasks, IInv, status[t] = "running"
    PROVE  Orderly(AfterOpening(t), completed \cup {t}, deps)
  <1> DEFINE st == AfterOpening(t)  dn == completed \cup {t}
  <1>1. st \in Status
    BY DEF IInv, Orderly, Status, Statuses, AfterOpening
  <1>2. \A d \in Opened(t) : status[d] = "pending" /\ deps[d] \subseteq dn /\ d \in Tasks
    BY DEF Opened, Dependents
  <1>3. dn = {d \in Tasks : st[d] = "completed"}
    BY <1>2 DEF IInv, Orderly, AfterOpening
  <1>4. \A d \in Tasks : st[d] \in Started => StaticDeps[d] \subseteq dn
    BY <1>2 DEF IInv, Orderly, AfterOpening, Started
  <1>5. \A d \in Tasks : st[d] # "absent" => StaticDeps[d] \subseteq deps[d]
    BY <1>2 DEF IInv, Orderly, AfterOpening
  <1>. QED
    BY <1>1, <1>3, <1>4, <1>5 DEF Orderly

\* A yield that t's completion resolves belongs to a task that was started; unless
\* it is refused, that task is neither completed nor unknown.
LEMMA AwakenedCanBeReadied ==
    ASSUME NEW t \in Tasks, IInv, status[t] = "running",
           NEW S \in SUBSET (Awakened(t) \ Refused(t))
    PROVE  /\ S \subseteq Tasks
           /\ Orderly(With(AfterOpening(t), S, "ready"), completed \cup {t}, deps)
  <1>1. S \subseteq Tasks
    BY DEF Awakened, IInv, TypeOK
  <1>2. \A y \in S : StaticDeps[y] \subseteq completed \cup {t}
    BY DEF Awakened, IInv, MarkedStarted
  <1>3. \A y \in S : CanTransitionTo(AfterOpening(t)[y], "ready")
    BY DEF Refused
  <1>4. \A y \in S : AfterOpening(t)[y] \notin {"completed", "absent"}
    BY <1>3 DEF CanTransitionTo, Transitions
  <1>. QED
    BY <1>1, <1>2, <1>4, OpeningIsOrderly, ReadyingIsOrderly

LEMMA CompletionIsGood ==
    ASSUME NEW t \in Tasks, IInv, OnTaskCompleted(t)
    PROVE  GoodStep
  <1>1. status[t] = "running" /\ completed' = completed \cup {t} /\ deps' = deps
    BY DEF OnTaskCompleted
  <1>2. CASE ResumeAndDispatch(t)
    <2> DEFINE st == With(AfterOpening(t), Awakened(t), "ready")
               throttled == IF MaxConcurrency = 0 THEN {}
                            ELSE {d \in Tasks : st[d] = "ready"}
               newlyReady == (Opened(t) \ RequireApproval) \cup Awakened(t) \cup throttled
    <2>1. PICK D \in Dispatched(st, newlyReady, TRUE) : status' = With(st, D, "running")
      BY <1>2 DEF ResumeAndDispatch
    <2>2. Awakened(t) \subseteq Tasks /\ Orderly(st, completed', deps')
      BY <1>1, <1>2, AwakenedCanBeReadied DEF ResumeAndDispatch
    <2>3. Opened(t) \subseteq Tasks /\ t \notin Opened(t)
      BY <1>1 DEF Opened, Dependents
    <2>4. /\ newlyReady \in SUBSET Tasks
          /\ \A d \in newlyReady : st[d] = "ready"
      BY <2>2, <2>3 DEF With, AfterOpening
    <2>5. Running(st) \subseteq Running(status)
      BY DEF Running, With, AfterOpening
    <2>6. st \in Status
      BY <2>2 DEF Orderly
    <2>. QED
      BY <2>1, <2>2, <2>4, <2>5, <2>6, DispatchIsGood
  <1>3. CASE AbortInYieldScan(t)
    <2>1. PICK before \in SUBSET (Awakened(t) \ Refused(t)) :
              status' = With(AfterOpening(t), before, "ready")
      BY <1>3 DEF AbortInYieldScan
    <2>2. before \subseteq Tasks /\ Orderly(status', completed', deps')
      BY <1>1, <2>1, AwakenedCanBeReadied
    <2>3. Running(status') \subseteq Running(status)
      BY <2>1 DEF Running, With, AfterOpening
    <2>. QED
      BY <2>2, <2>3, RestIsGood
  <1>. QED
    BY <1>2, <1>3 DEF OnTaskCompleted

\* The cascade only touches tasks that exist and have not completed.
LEMMA CascadeIsOrderly ==
    ASSUME NEW t \in Tasks, IInv, status[t] = "running",
           NEW P \in SUBSET ReachedWithin(Cancelable(With(status, {t}, "failed")), t)
    PROVE  /\ Orderly(With(With(status, {t}, "failed"), P, "canceled"), completed, deps)
           /\ Running(With(With(status, {t}, "failed"), P, "canceled")) \subseteq Running(status)
  <1> DEFINE st == With(status, {t}, "failed")
  <1>1. Orderly(st, completed, deps)
    BY StoppingIsOrderly DEF IInv
  <1>2. P \subseteq Tasks /\ \A d \in P : st[d] \notin {"completed", "absent"}
    BY DEF ReachedWithin, Cancelable
  <1>3. Orderly(With(st, P, "canceled"), completed, deps)
    BY <1>1, <1>2, StoppingIsOrderly
  <1>. QED
    BY <1>3 DEF Running, With

LEMMA FailureIsGood ==
    ASSUME NEW t \in Tasks, NEW killed \in BOOLEAN, NEW skipRetry \in BOOLEAN,
           IInv, OnTaskFailed(t, killed, skipRetry)
    PROVE  GoodStep
  <1>1. status[t] = "running" /\ completed' = completed /\ deps' = deps
    BY DEF OnTaskFailed
  <1>2. CASE RetryAfterKill(t)
    <2> DEFINE st == With(status, {t}, "ready")
    <2>1. PICK D \in Dispatched(st, {t}, TRUE) : status' = With(st, D, "running")
      BY <1>2 DEF RetryAfterKill
    <2>2. StaticDeps[t] \subseteq completed
      BY <1>1 DEF IInv, Orderly, Started
    <2>3. Orderly(st, completed', deps')
      BY <1>1, <2>2, ReadyingIsOrderly DEF IInv
    <2>4. Running(st) \subseteq Running(status) /\ st[t] = "ready" /\ st \in Status
      BY <2>3 DEF Running, With, Orderly
    <2>. QED
      BY <2>1, <2>3, <2>4, DispatchIsGood
  <1>3. CASE RetryWithBackoff(t)
    <2>1. status' = With(status, {t}, "pending")
      BY <1>3 DEF RetryWithBackoff
    <2>2. Orderly(status', completed', deps')
      BY <1>1, <2>1, StoppingIsOrderly DEF IInv
    <2>3. Running(status') \subseteq Running(status)
      BY <2>1 DEF Running, With
    <2>. QED
      BY <2>2, <2>3, RestIsGood
  <1>4. CASE FailForGood(t)
    <2> DEFINE st == With(status, {t}, "failed")
               reached == ReachedWithin(Cancelable(st), t)
    <2>1. PICK P \in SUBSET reached : status' = With(st, P, "canceled")
      BY <1>4 DEF FailForGood, CascadeOutcomes
    <2>2. Orderly(status', completed', deps') /\ Running(status') \subseteq Running(status)
      BY <1>1, <2>1, CascadeIsOrderly
    <2>. QED
      BY <2>2, RestIsGood
  <1>. QED
    BY <1>2, <1>3, <1>4 DEF OnTaskFailed

LEMMA YieldedIsGood ==
    ASSUME NEW t \in Tasks, IInv, OnTaskYielded(t)
    PROVE  GoodStep
  <1>1. /\ status[t] = "running" /\ completed' = completed
        /\ status' = [status EXCEPT ![t] = "yielded"]
        /\ deps' = [deps EXCEPT ![t] = @ \cup awaited[t]]
    BY DEF OnTaskYielded
  <1>2. Orderly(status', completed', deps')
    BY <1>1 DEF IInv, TypeOK, Orderly, Status, Statuses, Started
  <1>3. Running(status') \subseteq Running(status)
    BY <1>1 DEF Running, IInv, Orderly, Status
  <1>. QED
    BY <1>2, <1>3, RestIsGood

\* One started task goes to ready and is offered to dispatch: an automatic yield
\* resolution, or an approval.
LEMMA ReadyOneIsGood ==
    ASSUME NEW t \in Tasks, IInv, status[t] \in {"yielded", "awaiting_approval"},
           NEW D \in Dispatched(With(status, {t}, "ready"), {t}, FALSE),
           status' = With(With(status, {t}, "ready"), D, "running"),
           completed' = completed, deps' = deps
    PROVE  GoodStep
  <1> DEFINE st == With(status, {t}, "ready")
  <1>1. StaticDeps[t] \subseteq completed
    BY DEF IInv, Orderly, Started
  <1>2. Orderly(st, completed', deps')
    BY <1>1, ReadyingIsOrderly DEF IInv
  <1>3. Running(st) \subseteq Running(status) /\ st[t] = "ready" /\ st \in Status
    BY <1>2 DEF Running, With, Orderly
  <1>. QED
    BY <1>2, <1>3, DispatchIsGood

LEMMA ResumeIsGood ==
    ASSUME NEW st \in Status, NEW mk \in SUBSET marked, NEW o \in BOOLEAN, TypeOK,
           Orderly(st, completed, deps),
           \A t \in Tasks : st[t] = "yielded" => StaticDeps[t] \subseteq completed,
           Running(st) \subseteq Running(status),
           ResumeDispatch(st, mk, o), completed' = completed, deps' = deps
    PROVE  GoodStep
  <1> DEFINE pending == {t \in Tasks : st[t] = "pending" /\ deps[t] \subseteq completed}
             woken == {t \in Tasks : st[t] = "yielded"
                                     /\ (t \in mk => awaited[t] \subseteq completed)}
             st2 == With(st, pending \cup woken, "ready")
             ready == {t \in Tasks : st2[t] = "ready"}
  <1>1. PICK D \in Dispatched(st2, ready, o) : status' = With(st2, D, "running")
    BY DEF ResumeDispatch
  <1>2. \A t \in pending \cup woken : StaticDeps[t] \subseteq completed
                                      /\ st[t] \notin {"completed", "absent"}
    BY DEF Orderly
  <1>3. pending \cup woken \in SUBSET Tasks
    OBVIOUS
  <1>4. Orderly(st2, completed, deps)
    BY <1>2, <1>3, ReadyingIsOrderly
  <1>5. Running(st2) \subseteq Running(status) /\ st2 \in Status
    BY <1>4 DEF Running, With, Orderly
  <1>. QED
    BY <1>1, <1>4, <1>5, DispatchIsGood

LEMMA RetryTaskIsGood ==
    ASSUME NEW t \in Tasks, NEW resetDependents \in BOOLEAN,
           IInv, RetryTask(t, resetDependents)
    PROVE  GoodStep
  <1> DEFINE st == With(status, {t}, "pending")
             mk == marked \ (IF status[t] = "yielded" THEN {t} ELSE {})
  <1>1. /\ status[t] \in {"failed", "canceled", "yielded"}
        /\ completed' = completed /\ deps' = deps
    BY DEF RetryTask
  <1>2. PICK R \in SUBSET {d \in Tasks : st[d] = "canceled"} :
            ResumeDispatch(With(st, R, "pending"), mk, FALSE)
    BY DEF RetryTask, ResetOutcomes
  <1>3. Orderly(st, completed, deps)
    BY <1>1, StoppingIsOrderly DEF IInv
  <1>4. Orderly(With(st, R, "pending"), completed, deps)
    BY <1>3, StoppingIsOrderly
  <1>5. /\ Running(With(st, R, "pending")) \subseteq Running(status)
        /\ With(st, R, "pending") \in Status
    BY <1>4 DEF Running, With, Orderly
  <1>6. \A u \in Tasks : With(st, R, "pending")[u] = "yielded"
                             => StaticDeps[u] \subseteq completed
    BY <1>4 DEF Orderly, Started
  <1>. QED
    BY <1>1, <1>2, <1>4, <1>5, <1>6, ResumeIsGood DEF IInv

LEMMA CancelIsGood == IInv /\ CancelGraph => GoodStep
  <1> SUFFICES ASSUME IInv, CancelGraph PROVE GoodStep
    OBVIOUS
  <1>1. /\ status' = With(status, ToCancel, "canceled")
        /\ completed' = completed /\ deps' = deps
    BY DEF CancelGraph
  <1>2. ToCancel \in SUBSET Tasks /\ \A t \in ToCancel : status[t] \notin {"completed", "absent"}
    BY DEF ToCancel, Present, IsTerminal
  <1>3. Orderly(status', completed', deps')
    BY <1>1, <1>2, StoppingIsOrderly DEF IInv
  <1>4. Running(status') \subseteq Running(status)
    BY <1>1 DEF Running, With
  <1>. QED
    BY <1>3, <1>4, RestIsGood

\* A step that changes no status.
LEMMA QuietIsGood ==
    ASSUME IInv, status' = status, completed' = completed, deps' = deps
    PROVE  GoodStep
  BY RestIsGood DEF IInv

\* Every step of the engine is a good step.
LEMMA EveryStepIsGood == IInv /\ [Next]_vars => GoodStep
  <1> SUFFICES ASSUME IInv, [Next]_vars PROVE GoodStep
    OBVIOUS
  <1>2a. \A t \in Tasks : status[t] = "yielded" => StaticDeps[t] \subseteq completed
    BY DEF IInv, Orderly, Started
  <1>1. CASE DeclareGraph
    BY <1>1, DeclareIsGood
  <1>2. CASE ResumeGraph
    BY <1>2, <1>2a, ResumeIsGood DEF ResumeGraph, IInv, Orderly
  <1>3. CASE CancelGraph
    BY <1>3, CancelIsGood
  <1>4. CASE ReapStaleGraph
    BY <1>4, QuietIsGood DEF ReapStaleGraph
  <1>5. ASSUME NEW t \in Tasks, WorkerEnds(t) PROVE GoodStep
    BY <1>5, CompletionIsGood, FailureIsGood, YieldedIsGood DEF WorkerEnds
  <1>6. ASSUME NEW t \in Tasks, AddTask(t) PROVE GoodStep
    BY <1>6, AddTaskIsGood
  <1>7. ASSUME NEW t \in Tasks, ApproveTask(t) PROVE GoodStep
    BY <1>7, ReadyOneIsGood DEF ApproveTask
  <1>8. ASSUME NEW t \in Tasks, AutoResolve(t) PROVE GoodStep
    BY <1>8, ReadyOneIsGood DEF AutoResolve
  <1>9. ASSUME NEW t \in Tasks, KeepWaiting(t) PROVE GoodStep
    BY <1>9, QuietIsGood DEF KeepWaiting
  <1>10. ASSUME NEW t \in Tasks, RetryTimerFires(t) PROVE GoodStep
    BY <1>10, <1>2a, QuietIsGood, ResumeIsGood DEF RetryTimerFires, IInv, Orderly
  <1>11. ASSUME NEW t \in Tasks, LockExpires(t) PROVE GoodStep
    BY <1>11, QuietIsGood DEF LockExpires, yieldVars
  <1>12. ASSUME NEW t \in Tasks, NEW agents \in SUBSET (Tasks \ {t}), YieldTo(t, agents)
         PROVE  GoodStep
    BY <1>12, QuietIsGood DEF YieldTo
  <1>13. ASSUME NEW t \in Tasks, NEW r \in BOOLEAN, RetryTask(t, r) PROVE GoodStep
    BY <1>13, RetryTaskIsGood
  <1>14. CASE UNCHANGED vars
    BY <1>14, QuietIsGood DEF vars
  <1>. QED
    BY <1>1, <1>2, <1>3, <1>4, <1>5, <1>6, <1>7, <1>8, <1>9, <1>10, <1>11, <1>12, <1>13,
       <1>14 DEF Next, EscalationCheck

-----------------------------------------------------------------------------
(* The inductive invariant *)

\* Dispatch keeps orderly statuses orderly, so a good step ends in them.
LEMMA GoodStepIsOrderly ==
    ASSUME GoodStep
    PROVE  Orderly(status', completed', deps')
  BY DEF GoodStep, Orderly, With, Status, Statuses, Started

\* The completed set changes only by the completion of a running task.
LEMMA CompletedGrows ==
    ASSUME [Next]_vars
    PROVE  \/ completed' = completed
           \/ \E t \in Tasks : status[t] = "running" /\ completed' = completed \cup {t}
  <1>1. ASSUME NEW t \in Tasks, WorkerEnds(t)
        PROVE  \/ completed' = completed
               \/ status[t] = "running" /\ completed' = completed \cup {t}
    BY <1>1 DEF WorkerEnds, OnTaskCompleted, OnTaskFailed, OnTaskYielded
  <1>2. CASE ~\E t \in Tasks : WorkerEnds(t)
    BY <1>2 DEF Next, vars, DeclareGraph, ResumeGraph, CancelGraph, ReapStaleGraph, AddTask,
       ApproveTask, EscalationCheck, AutoResolve, KeepWaiting, RetryTimerFires,
       LockExpires, YieldTo, RetryTask
  <1>. QED
    BY <1>1, <1>2

\* Markers: only yield_to writes one, for a running task.
LEMMA MarkedOnlyByYield ==
    ASSUME IInv, [Next]_vars
    PROVE  \A t \in marked' \ marked : t \in Tasks /\ status[t] = "running"
  <1>1. ASSUME NEW t \in Tasks, WorkerEnds(t) PROVE marked' \subseteq marked
    BY <1>1 DEF WorkerEnds, OnTaskCompleted, ResumeAndDispatch, AbortInYieldScan, Resolve,
       OnTaskFailed, OnTaskYielded, yieldVars
  <1>2. ASSUME NEW t \in Tasks, NEW agents \in SUBSET (Tasks \ {t}), YieldTo(t, agents)
        PROVE  status[t] = "running" /\ marked' = marked \cup {t}
    BY <1>2 DEF YieldTo
  <1>3. CASE UNCHANGED vars
    BY <1>3 DEF vars, yieldVars
  <1>4. CASE DeclareGraph \/ ResumeGraph \/ CancelGraph \/ ReapStaleGraph
    BY <1>4 DEF DeclareGraph, ResumeGraph, CancelGraph, ReapStaleGraph, ResumeDispatch,
       Resolve, yieldVars
  <1>5. ASSUME NEW t \in Tasks,
               AddTask(t) \/ ApproveTask(t) \/ EscalationCheck(t) \/ LockExpires(t)
        PROVE  marked' \subseteq marked
    BY <1>5 DEF AddTask, ApproveTask, EscalationCheck, AutoResolve, KeepWaiting, Resolve,
       LockExpires, yieldVars
  <1>6. ASSUME NEW t \in Tasks,
               RetryTimerFires(t) \/ \E r \in BOOLEAN : RetryTask(t, r)
        PROVE  marked' \subseteq marked
    BY <1>6 DEF RetryTimerFires, RetryTask, ResumeDispatch, Resolve
  <1>. QED
    BY <1>1, <1>2, <1>3, <1>4, <1>5, <1>6 DEF Next

\* The types of the variables that GoodStep does not speak of.
OtherTypes ==
    /\ graph \in GraphStatuses /\ retries \in [Tasks -> Nat]
    /\ deps \in [Tasks -> SUBSET Tasks] /\ awaited \in [Tasks -> SUBSET Tasks]
    /\ locks \subseteq Tasks /\ marked \subseteq Tasks
    /\ escalating \subseteq Tasks /\ backoff \subseteq Tasks
    /\ yields \in Nat /\ interventions \in Nat

LEMMA ResolutionType ==
    ASSUME graph \in GraphStatuses, NEW st
    PROVE  Resolution(st) \in GraphStatuses
  BY DEF Resolution, GraphStatuses

LEMMA ResolveType ==
    ASSUME NEW S, marked \subseteq Tasks, awaited \in [Tasks -> SUBSET Tasks], Resolve(S)
    PROVE  marked' \subseteq Tasks /\ awaited' \in [Tasks -> SUBSET Tasks]
  BY DEF Resolve

LEMMA WorkerTypes ==
    ASSUME NEW t \in Tasks, IInv, WorkerEnds(t)
    PROVE  OtherTypes'
  <1>1. CASE OnTaskCompleted(t)
    <2>1. PICK S : Resolve(S)
      BY <1>1 DEF OnTaskCompleted, ResumeAndDispatch, AbortInYieldScan
    <2>2. marked' \subseteq Tasks /\ awaited' \in [Tasks -> SUBSET Tasks]
      BY <2>1, ResolveType DEF IInv, TypeOK
    <2>3. graph' \in GraphStatuses /\ escalating' \subseteq Tasks
      BY <1>1, ResolutionType
         DEF OnTaskCompleted, ResumeAndDispatch, AbortInYieldScan, IInv, TypeOK
    <2>4. locks' \subseteq Tasks
      BY <1>1 DEF OnTaskCompleted, Opened, Dependents, IInv, TypeOK
    <2>. QED
      BY <1>1, <2>2, <2>3, <2>4 DEF OnTaskCompleted, OtherTypes, IInv, TypeOK
  <1>2. ASSUME NEW killed \in BOOLEAN, NEW skip \in BOOLEAN, OnTaskFailed(t, killed, skip)
        PROVE  OtherTypes'
    <2>1. graph' \in GraphStatuses
      BY <1>2, ResolutionType
         DEF OnTaskFailed, RetryAfterKill, RetryWithBackoff, FailForGood, IInv, TypeOK
    <2>2. retries' \in [Tasks -> Nat] /\ backoff' \subseteq Tasks
      <3>1. retries \in [Tasks -> Nat] /\ backoff \subseteq Tasks
        BY DEF IInv, TypeOK
      <3>2. CASE RetryAfterKill(t)
        BY <3>1, <3>2 DEF RetryAfterKill
      <3>3. CASE RetryWithBackoff(t)
        BY <3>1, <3>3 DEF RetryWithBackoff
      <3>4. CASE FailForGood(t)
        <4>1. UNCHANGED <<retries, backoff>>
          BY <3>4 DEF FailForGood
        <4>. QED
          BY <3>1, <4>1
      <3>. QED
        BY <1>2, <3>2, <3>3, <3>4 DEF OnTaskFailed
    <2>. QED
      BY <1>2, <2>1, <2>2 DEF OnTaskFailed, yieldVars, OtherTypes, IInv, TypeOK
  <1>3. CASE OnTaskYielded(t)
    BY <1>3 DEF OnTaskYielded, OtherTypes, IInv, TypeOK
  <1>. QED
    BY <1>1, <1>2, <1>3 DEF WorkerEnds

LEMMA ResumeTypes ==
    ASSUME NEW st, NEW mk, NEW o, IInv, ResumeDispatch(st, mk, o)
    PROVE  marked' \subseteq Tasks /\ awaited' \in [Tasks -> SUBSET Tasks]
  <1>1. PICK S : Resolve(S)
    BY DEF ResumeDispatch
  <1>. QED
    BY <1>1, ResolveType DEF IInv, TypeOK

LEMMA StepTypes == IInv /\ [Next]_vars => OtherTypes'
  <1> SUFFICES ASSUME IInv, [Next]_vars PROVE OtherTypes'
    OBVIOUS
  <1> USE DEF IInv, TypeOK, OtherTypes
  <1>1. CASE DeclareGraph
    BY <1>1, TasksAssumption, DepsAssumption DEF DeclareGraph, GraphStatuses, yieldVars
  <1>2. CASE ResumeGraph
    BY <1>2, ResumeTypes DEF ResumeGraph
  <1>3. CASE CancelGraph \/ ReapStaleGraph
    BY <1>3 DEF CancelGraph, ReapStaleGraph, GraphStatuses, yieldVars
  <1>4. ASSUME NEW t \in Tasks, AddTask(t) PROVE OtherTypes'
    BY <1>4, DepsAssumption DEF AddTask, yieldVars
  <1>5. ASSUME NEW t \in Tasks, ApproveTask(t) \/ LockExpires(t) \/ KeepWaiting(t)
        PROVE  OtherTypes'
    BY <1>5 DEF ApproveTask, LockExpires, KeepWaiting, yieldVars
  <1>6. ASSUME NEW t \in Tasks, AutoResolve(t) PROVE OtherTypes'
    BY <1>6, ResolveType DEF AutoResolve
  <1>7. ASSUME NEW t \in Tasks, RetryTimerFires(t) PROVE OtherTypes'
    BY <1>7, ResumeTypes DEF RetryTimerFires
  <1>8. ASSUME NEW t \in Tasks, NEW agents \in SUBSET (Tasks \ {t}), YieldTo(t, agents)
        PROVE  OtherTypes'
    BY <1>8 DEF YieldTo
  <1>9. ASSUME NEW t \in Tasks, NEW r \in BOOLEAN, RetryTask(t, r) PROVE OtherTypes'
    <2>1. marked' \subseteq Tasks /\ awaited' \in [Tasks -> SUBSET Tasks]
      BY <1>9, ResumeTypes DEF RetryTask
    <2>2. graph' \in GraphStatuses
      BY <1>9 DEF RetryTask, Reactivated, GraphStatuses
    <2>3. retries' \in [Tasks -> Nat] /\ interventions' \in Nat
      BY <1>9 DEF RetryTask
    <2>4. escalating' \subseteq Tasks
      BY <1>9 DEF RetryTask
    <2>5. UNCHANGED <<deps, locks, yields, backoff>>
      BY <1>9 DEF RetryTask
    <2>. QED
      BY <2>1, <2>2, <2>3, <2>4, <2>5
  <1>10. CASE UNCHANGED vars
    BY <1>10 DEF vars, yieldVars
  <1>. QED
    BY <1>1, <1>2, <1>3, <1>4, <1>5, <1>6, <1>7, <1>8, <1>9, <1>10, WorkerTypes
       DEF Next, EscalationCheck

\* Before the declaration nothing can happen to a task.
LEMMA DeclareComesFirst ==
    ASSUME IInv, [Next]_vars
    PROVE  NothingBeforeDeclare'
  <1> SUFFICES ASSUME graph' = "undeclared"
               PROVE  backoff' = {} /\ \A t \in Tasks : status'[t] = "absent"
    BY DEF NothingBeforeDeclare
  <1>1. CASE graph # "undeclared"
    <2> SUFFICES FALSE
      OBVIOUS
    <2>1. ASSUME NEW t \in Tasks, WorkerEnds(t) PROVE FALSE
      BY <1>1, <2>1 DEF WorkerEnds, OnTaskCompleted, ResumeAndDispatch, AbortInYieldScan,
         OnTaskFailed, RetryAfterKill, RetryWithBackoff, FailForGood, OnTaskYielded,
         Resolution
    <2>2. CASE ~\E t \in Tasks : WorkerEnds(t)
      BY <1>1, <2>2 DEF Next, vars, DeclareGraph, ResumeGraph, CancelGraph, ReapStaleGraph,
         AddTask, ApproveTask, EscalationCheck, AutoResolve, KeepWaiting, RetryTimerFires,
         LockExpires, YieldTo, RetryTask, Reactivated
    <2>. QED
      BY <2>1, <2>2
  <1>2. CASE graph = "undeclared"
    <2>1. backoff = {} /\ \A t \in Tasks : status[t] = "absent"
      BY <1>2 DEF IInv, NothingBeforeDeclare
    <2>2. \A t \in Tasks : ~WorkerEnds(t)
      BY <2>1 DEF WorkerEnds, OnTaskCompleted, OnTaskFailed, OnTaskYielded
    <2>3. UNCHANGED <<status, backoff>>
      BY <1>2, <2>1, <2>2 DEF Next, vars, DeclareGraph, ResumeGraph, CancelGraph,
         ReapStaleGraph, AddTask, ApproveTask, EscalationCheck, AutoResolve, KeepWaiting,
         RetryTimerFires, LockExpires, YieldTo, RetryTask
    <2>. QED
      BY <2>1, <2>3
  <1>. QED
    BY <1>1, <1>2

LEMMA InitInv == Init => IInv
  BY DEF Init, IInv, TypeOK, GraphStatuses, Statuses, Orderly, Status, Started,
     MarkedStarted, NothingBeforeDeclare

LEMMA StepInv == IInv /\ [Next]_vars => IInv'
  <1> SUFFICES ASSUME IInv, [Next]_vars PROVE IInv'
    OBVIOUS
  <1>1. Orderly(status', completed', deps')
    BY EveryStepIsGood, GoodStepIsOrderly
  <1>2. TypeOK'
    BY <1>1, StepTypes DEF TypeOK, OtherTypes, Orderly, Status
  <1>3. MarkedStarted'
    <2> SUFFICES ASSUME NEW t \in marked' PROVE StaticDeps[t] \subseteq completed'
      BY DEF MarkedStarted
    <2>1. StaticDeps[t] \subseteq completed
      BY MarkedOnlyByYield DEF IInv, MarkedStarted, Orderly, Started
    <2>. QED
      BY <2>1, CompletedGrows
  <1>. QED
    BY <1>1, <1>2, <1>3, DeclareComesFirst DEF IInv

\* The inductive invariant holds in every reachable state.
THEOREM Invariance == Spec => []IInv
  BY InitInv, StepInv, PTL DEF Spec

\* Type correctness of the engine's records.
THEOREM TypeCorrect == Spec => []TypeOK
  BY Invariance, PTL DEF IInv

\* For every graph and whatever retries, yields, approvals and tools do, a task has
\* all its dependencies completed once it is readied.
THEOREM StartsAreInOrder == Spec => []NoEarlyStart
  <1>1. IInv => NoEarlyStart
    BY DEF IInv, Orderly, NoEarlyStart
  <1>. QED
    BY <1>1, Invariance, PTL

\* The completed set and the task records never disagree.
THEOREM CompletedSetAgrees == Spec => []CompletedAgrees
  <1>1. IInv => CompletedAgrees
    BY DEF IInv, Orderly, CompletedAgrees
  <1>. QED
    BY <1>1, Invariance, PTL

-----------------------------------------------------------------------------
(* The concurrency limit *)

\* A step leaves fewer tasks running than the limit, or none that did not run.
LEMMA GoodStepKeepsLimit ==
    ASSUME GoodStep, IInv, WithinConcurrency
    PROVE  WithinConcurrency'
  <1> SUFFICES ASSUME MaxConcurrency # 0
               PROVE  Cardinality(Running(status')) <= MaxConcurrency
    BY DEF WithinConcurrency
  <1>1. PICK st \in Status, D \in SUBSET Tasks :
            /\ Running(st) \subseteq Running(status)
            /\ D = {} \/ Cardinality(Running(st) \cup D) <= MaxConcurrency
            /\ status' = With(st, D, "running")
    BY DEF GoodStep
  <1>2. Running(status') = Running(st) \cup D
    BY <1>1 DEF Running, With, Status
  <1>3. CASE D = {}
    <2>1. IsFiniteSet(Running(status))
      BY TasksAssumption, FS_Subset DEF Running
    <2>2. /\ Cardinality(Running(st)) <= Cardinality(Running(status))
          /\ Cardinality(Running(st)) \in Nat /\ Cardinality(Running(status)) \in Nat
      BY <1>1, <2>1, FS_Subset, FS_CardinalityType
    <2>3. Cardinality(Running(status)) <= MaxConcurrency /\ MaxConcurrency \in Nat
      BY TasksAssumption DEF WithinConcurrency
    <2>. QED
      BY <1>2, <1>3, <2>2, <2>3
  <1>. QED
    BY <1>1, <1>2, <1>3

\* No path to running overruns maxConcurrency while handlers run one at a time.
THEOREM LimitHolds == Spec => []WithinConcurrency
  <1>1. Init => WithinConcurrency
    <2> SUFFICES ASSUME Init, MaxConcurrency # 0
                 PROVE  Cardinality(Running(status)) <= MaxConcurrency
      BY DEF WithinConcurrency
    <2>1. Running(status) = {}
      BY DEF Init, Running
    <2>. QED
      BY <2>1, FS_EmptySet, TasksAssumption
  <1>2. IInv /\ WithinConcurrency /\ [Next]_vars => WithinConcurrency'
    BY EveryStepIsGood, GoodStepKeepsLimit
  <1>. QED
    BY <1>1, <1>2, Invariance, PTL DEF Spec

-----------------------------------------------------------------------------
(* The engine implements DependencyScheduler *)

\* Every step of the engine is a step of the scheduler, or leaves what it sees.
LEMMA StepImplements ==
    ASSUME IInv, [Next]_vars
    PROVE  Scheduler!Next
  <1>1. PICK st \in Status, D \in SUBSET Tasks :
            /\ Orderly(st, completed', deps')
            /\ Running(st) \subseteq Running(status)
            /\ \A t \in D : st[t] = "ready"
            /\ MaxConcurrency = 0 \/ D = {}
                 \/ Cardinality(Running(st) \cup D) <= MaxConcurrency
            /\ status' = With(st, D, "running")
    BY EveryStepIsGood DEF GoodStep
  <1>2. Running(status') = Running(st) \cup D /\ Running(status') \subseteq Tasks
    BY <1>1 DEF Running, With, Status
  <1>3. \A t \in Running(status') \ Running(status) : t \in D
    BY <1>1, <1>2
  <1>4. Scheduler!Reschedule(completed')
    <2>1. \A S : Scheduler!Cardinality(S) = Cardinality(S)
      BY Zenon DEF Scheduler!Cardinality, Cardinality
    <2>2. ASSUME NEW t \in Running(status') \ Running(status)
          PROVE  /\ StaticDeps[t] \subseteq completed' /\ t \notin completed'
                 /\ MaxConcurrency # 0 => Cardinality(Running(status')) <= MaxConcurrency
      BY <1>1, <1>2, <1>3 DEF Orderly, Started
    <2>. QED
      BY <2>1, <2>2 DEF Scheduler!Reschedule
  <1>5. CASE completed' = completed
    BY <1>2, <1>4, <1>5 DEF Scheduler!Next, Scheduler!Shift
  <1>6. ASSUME NEW t \in Tasks, status[t] = "running", completed' = completed \cup {t}
        PROVE  Scheduler!Finish(t)
    <2>1. t \in Running(status) \ completed
      BY <1>6 DEF Running, IInv, Orderly
    <2>2. t \notin Running(status')
      <3>1. Orderly(status', completed', deps')
        BY EveryStepIsGood, GoodStepIsOrderly
      <3>. QED
        BY <1>6, <3>1 DEF Orderly, Running
    <2>. QED
      BY <1>2, <1>4, <1>6, <2>1, <2>2 DEF Scheduler!Finish
  <1>. QED
    BY <1>5, <1>6, CompletedGrows DEF Scheduler!Next

\* Refinement: for every graph the engine is a scheduler that runs tasks in
\* dependency order, completes each of them once, and keeps to the limit.
THEOREM ImplementsScheduler == Spec => SchedulerSpec
  <1>1. Init => Scheduler!Init
    BY DEF Init, Scheduler!Init, Running
  <1>2. IInv /\ [Next]_vars => [Scheduler!Next]_<<completed, Running(status)>>
    BY StepImplements
  <1>. QED
    BY <1>1, <1>2, Invariance, PTL DEF Spec, SchedulerSpec, Scheduler!Spec
-----------------------------------------------------------------------------
(* A graph that has ended badly stays quiet *)

\* checkGraphCompletion ends a graph only when every task of it has ended.
LEMMA ResolutionWaits ==
    ASSUME NEW st \in Status, Resolution(st) # graph
    PROVE  \A t \in Tasks : st[t] = "absent" \/ IsTerminal(st[t])
  BY DEF Resolution

\* In a dead graph there is nothing resumeDispatch could ready or dispatch.
LEMMA NothingToResume ==
    ASSUME IInv, \A t \in Present : IsTerminal(status[t]),
           NEW mk, NEW o, ResumeDispatch(status, mk, o)
    PROVE  status' = status
  <1> DEFINE pending == {t \in Tasks : status[t] = "pending" /\ deps[t] \subseteq completed}
             woken == {t \in Tasks : status[t] = "yielded"
                                     /\ (t \in mk => awaited[t] \subseteq completed)}
             st2 == With(status, pending \cup woken, "ready")
             ready == {t \in Tasks : st2[t] = "ready"}
  <1>1. PICK D \in Dispatched(st2, ready, o) : status' = With(st2, D, "running")
    BY DEF ResumeDispatch
  <1>2. \A t \in Tasks : status[t] \notin {"pending", "yielded", "ready"}
    BY DEF Present, IsTerminal
  <1>3. pending \cup woken = {}
    BY <1>2
  <1>4. status \in Status /\ st2 = status
    BY <1>3 DEF IInv, Orderly, Status, With
  <1>5. ready = {}
    BY <1>2, <1>4
  <1>6. D = {}
    BY <1>1, <1>5 DEF Dispatched
  <1>. QED
    BY <1>1, <1>4, <1>6 DEF With, Status

\* A worker's exit ends the graph through checkGraphCompletion only, and there is no
\* worker in a graph that is dead already.
LEMMA WorkersEndQuietly ==
    ASSUME NEW t \in Tasks, IInv, DeadGraphIsQuiet, WorkerEnds(t)
    PROVE  DeadGraphIsQuiet'
  <1> SUFFICES ASSUME graph' \in {"failed", "canceled"}
               PROVE  \A u \in Tasks : status'[u] = "absent" \/ IsTerminal(status'[u])
    BY DEF DeadGraphIsQuiet, Present
  <1>1. status[t] = "running"
    BY DEF WorkerEnds, OnTaskCompleted, OnTaskFailed, OnTaskYielded
  <1>2. graph \notin {"failed", "canceled"}
    BY <1>1 DEF DeadGraphIsQuiet, Present, IsTerminal
  <1>3. graph' = graph \/ graph' = Resolution(status')
    BY DEF WorkerEnds, OnTaskCompleted, ResumeAndDispatch, AbortInYieldScan, OnTaskFailed,
       RetryAfterKill, RetryWithBackoff, FailForGood, OnTaskYielded
  <1>4. status' \in Status
    <2>1. [Next]_vars
      BY DEF Next
    <2>. QED
      BY <2>1, EveryStepIsGood, GoodStepIsOrderly DEF Orderly
  <1>. QED
    BY <1>2, <1>3, <1>4, ResolutionWaits

LEMMA StepStaysQuiet == IInv /\ DeadGraphIsQuiet /\ [Next]_vars => DeadGraphIsQuiet'
  <1> SUFFICES ASSUME IInv, DeadGraphIsQuiet, [Next]_vars, ~\E t \in Tasks : WorkerEnds(t)
               PROVE  DeadGraphIsQuiet'
    BY WorkersEndQuietly
  <1>1. CASE graph' \notin {"failed", "canceled"}
    BY <1>1 DEF DeadGraphIsQuiet
  <1>2. CASE graph' \in {"failed", "canceled"} /\ graph \in {"failed", "canceled"}
    <2>1. \A t \in Present : IsTerminal(status[t])
      BY <1>2 DEF DeadGraphIsQuiet
    <2>2. CASE status' = status
      BY <2>1, <2>2 DEF DeadGraphIsQuiet, Present
    <2>3. CASE ResumeGraph
      BY <2>1, <2>2, <2>3, NothingToResume DEF ResumeGraph
    <2>4. CASE CancelGraph
      <3>1. status' = With(status, {}, "canceled")
        BY <2>1, <2>4 DEF CancelGraph, ToCancel
      <3>. QED
        BY <2>2, <3>1 DEF With, IInv, Orderly, Status
    <2>5. ASSUME NEW t \in Tasks, ApproveTask(t) \/ AutoResolve(t) PROVE FALSE
      BY <2>1, <2>5 DEF ApproveTask, AutoResolve, Present, IsTerminal
    <2>6. ASSUME NEW t \in Tasks, RetryTimerFires(t) PROVE status' = status
      BY <1>2, <2>6 DEF RetryTimerFires
    <2>7. ASSUME NEW t \in Tasks, NEW r \in BOOLEAN, RetryTask(t, r) PROVE FALSE
      BY <1>2, <2>7 DEF RetryTask, Reactivated
    <2>. QED
      BY <1>2, <2>2, <2>3, <2>4, <2>5, <2>6, <2>7 DEF Next, vars, DeclareGraph, ReapStaleGraph,
         AddTask, EscalationCheck, KeepWaiting, LockExpires, YieldTo
  <1>3. CASE graph' \in {"failed", "canceled"} /\ graph \notin {"failed", "canceled"}
    <2>1. CASE CancelGraph
      BY <2>1 DEF CancelGraph, ToCancel, Present, With, IsTerminal, DeadGraphIsQuiet
    <2>2. CASE ReapStaleGraph
      BY <2>2 DEF ReapStaleGraph, Present, DeadGraphIsQuiet
    <2>3. CASE ~CancelGraph /\ ~ReapStaleGraph
      BY <1>3, <2>3 DEF Next, vars, DeclareGraph, ResumeGraph, AddTask, ApproveTask,
         EscalationCheck, AutoResolve, KeepWaiting, RetryTimerFires, LockExpires, YieldTo,
         RetryTask, Reactivated
    <2>. QED
      BY <2>1, <2>2, <2>3
  <1>. QED
    BY <1>1, <1>2, <1>3

\* Nothing starts in a graph that has failed or was canceled: no timer, yield, late
\* exit or operator's tool but retry_task, which reactivates it.
THEOREM DeadGraphsStayQuiet == Spec => []DeadGraphIsQuiet
  <1>1. Init => DeadGraphIsQuiet
    BY DEF Init, DeadGraphIsQuiet
  <1>. QED
    BY <1>1, StepStaysQuiet, Invariance, PTL DEF Spec

-----------------------------------------------------------------------------
(* What a failure makes impossible is carried through *)

\* A graph nobody disturbs: no yields and no operator, and what addTask adds depends on
\* nothing and is all that is best-effort.
Undisturbed ==
    /\ MaxYields = 0 /\ MaxInterventions = 0
    /\ BestEffort \cap Declared = {}
    /\ \A t \in Tasks \ Declared : StaticDeps[t] = {}

\* Failures and the cascades they started, whatever the other tasks do.
Carried ==
    \A t \in Tasks :
        /\ status[t] # "yielded"
        /\ status[t] = "failed" => StaticDeps[t] \subseteq completed
        /\ status[t] = "canceled" => \E u \in Declared : status[u] = "failed"
        /\ status[t] = "pending" =>
              \A d \in StaticDeps[t] : status[d] \notin {"failed", "canceled"}

CarriedInv ==
    /\ yields = 0 /\ interventions = 0 /\ marked = {} /\ escalating = {}
    /\ \A t \in Tasks : deps[t] \subseteq StaticDeps[t]
    /\ Carried
    /\ graph # "undeclared" => \A t \in Declared : status[t] # "absent"
    /\ graph = "completed" =>
          /\ \A t \in Present : IsTerminal(status[t])
          /\ \A t \in Tasks \ BestEffort : status[t] # "failed"

\* The walk of cascadeCancel is closed under Dependents, and within every closed set.
LEMMA ReachedIsClosed ==
    ASSUME NEW W \in SUBSET Tasks, NEW t \in Tasks
    PROVE  Closed(ReachedWithin(W, t), W, t)
  <1> DEFINE R == ReachedWithin(W, t)
  <1> SUFFICES ASSUME NEW e \in R \cup {t}, NEW d \in Dependents(e) \cap W,
                      NEW S \in SUBSET W, Closed(S, W, t)
               PROVE  d \in S
    BY DEF Closed, ReachedWithin
  <1>1. e \in S \cup {t}
    BY DEF ReachedWithin
  <1>. QED
    BY <1>1 DEF Closed

LEMMA ReachedIsLeast ==
    ASSUME NEW W \in SUBSET Tasks, NEW t \in Tasks, NEW S \in SUBSET W, Closed(S, W, t)
    PROVE  ReachedWithin(W, t) \subseteq S
  BY DEF ReachedWithin

\* A step that fails and cancels nothing, and leaves waiting only what waited or has
\* nothing dead to wait on.
LEMMA CalmStep ==
    ASSUME Carried, completed \subseteq completed',
           \A t \in Tasks :
              /\ status'[t] # "yielded"
              /\ \A s \in {"failed", "canceled"} : status'[t] = s <=> status[t] = s
              /\ status'[t] = "pending" => \/ status[t] = "pending"
                                           \/ StaticDeps[t] \subseteq completed
                                           \/ StaticDeps[t] = {},
           completed = {t \in Tasks : status[t] = "completed"}
    PROVE  Carried'
  <1> SUFFICES ASSUME NEW t \in Tasks
               PROVE  /\ status'[t] # "yielded"
                      /\ status'[t] = "failed" => StaticDeps[t] \subseteq completed'
                      /\ status'[t] = "canceled" => \E u \in Declared : status'[u] = "failed"
                      /\ status'[t] = "pending" =>
                            \A d \in StaticDeps[t] : status'[d] \notin {"failed", "canceled"}
    BY DEF Carried
  <1>0. Declared \subseteq Tasks /\ StaticDeps[t] \subseteq Tasks
    BY TasksAssumption, DepsAssumption
  <1>1. status'[t] = "failed" => StaticDeps[t] \subseteq completed'
    BY DEF Carried
  <1>2. status'[t] = "canceled" => \E u \in Declared : status'[u] = "failed"
    BY <1>0 DEF Carried
  <1>3. ASSUME status'[t] = "pending", NEW d \in StaticDeps[t]
        PROVE  status'[d] \notin {"failed", "canceled"}
    <2>1. status[d] \notin {"failed", "canceled"}
      BY <1>3 DEF Carried
    <2>. QED
      BY <1>0, <2>1
  <1>. QED
    BY <1>1, <1>2, <1>3

\* The cascade of a failure is never stopped half-way and leaves nobody waiting.
LEMMA CascadeCarries ==
    ASSUME Undisturbed, IInv, CarriedInv, NEW t \in Tasks, status[t] = "running",
           FailForGood(t), completed' = completed
    PROVE  /\ Carried'
           /\ graph' = Resolution(status')
           /\ \A u \in Tasks : status'[u] = "absent" => status[u] = "absent"
  <1> DEFINE st == With(status, {t}, "failed")
             W == Cancelable(st)
             reached == ReachedWithin(W, t)
  <1>1. /\ status \in Status /\ StaticDeps[t] \subseteq completed
        /\ completed = {u \in Tasks : status[u] = "completed"}
        /\ \A u \in Tasks : deps[u] \subseteq StaticDeps[u] /\ StaticDeps[u] \subseteq Tasks
        /\ \A u \in Tasks : status[u] # "absent" => StaticDeps[u] \subseteq deps[u]
        /\ Declared \subseteq Tasks
    BY TasksAssumption, DepsAssumption DEF IInv, Orderly, Started, CarriedInv
  <1>2. st \in [Tasks -> Statuses \cup {"absent"}] /\ st[t] = "failed"
        /\ \A u \in Tasks : u # t => st[u] = status[u]
    BY <1>1 DEF With, Status, Statuses
  <1>3. W \in SUBSET Tasks
    BY DEF Cancelable
  <1>4. \A d \in reached : st[d] # "failed"
    <2> DEFINE N == {d \in W : st[d] # "failed"}
    <2>1. ASSUME NEW e \in N \cup {t}, NEW d \in Dependents(e) \cap W, st[d] = "failed"
          PROVE  FALSE
      <3>1. d \in Tasks /\ e \in Tasks /\ e \in StaticDeps[d] /\ e \notin completed
        BY <1>1, <1>2, <2>1 DEF Dependents, Cancelable
      <3>2. StaticDeps[d] \subseteq completed
        BY <1>1, <1>2, <2>1, <3>1 DEF CarriedInv, Carried
      <3>. QED
        BY <3>1, <3>2
    <2>2. Closed(N, W, t)
      BY <2>1 DEF Closed
    <2>. QED
      BY <1>3, <2>2, ReachedIsLeast
  <1>5. Stuck(st, reached) = {}
    <2> SUFFICES ASSUME NEW d \in reached PROVE CanTransitionTo(st[d], "canceled")
      BY DEF Stuck
    <2>1. d \in Tasks /\ st[d] \in Statuses \ {"completed", "running", "failed"}
      BY <1>2, <1>4 DEF ReachedWithin, Cancelable
    <2>2. st[d] \in {"pending", "ready", "awaiting_approval", "validating", "canceled", "yielded"}
      BY <2>1 DEF Statuses
    <2>. QED
      BY <2>2 DEF CanTransitionTo, Transitions
  <1>6. status' = With(st, reached, "canceled") /\ graph' = Resolution(status')
    BY <1>5 DEF FailForGood, CascadeOutcomes, Throws
  <1>7. /\ reached \subseteq W /\ t \notin reached
        /\ \A u \in Tasks : status'[u] = IF u \in reached THEN "canceled" ELSE st[u]
    BY <1>2, <1>4, <1>6 DEF ReachedWithin, With
  <1>8. reached # {} => t \in Declared
    <2>1. SUFFICES ASSUME t \notin Declared PROVE reached = {}
      OBVIOUS
    <2>2. Dependents(t) = {}
      <3> SUFFICES ASSUME NEW d \in Tasks, t \in deps[d] PROVE FALSE
        BY DEF Dependents
      <3>1. t \in StaticDeps[d]
        BY <1>1
      <3>2. d \in Declared
        BY <3>1 DEF Undisturbed
      <3>. QED
        BY <2>1, <3>1, <3>2, DepsAssumption
    <2>3. Closed({}, W, t)
      BY <2>2 DEF Closed
    <2>. QED
      BY <1>3, <2>3, ReachedIsLeast
  <1>9. ASSUME NEW u \in Tasks
        PROVE  /\ status'[u] # "yielded"
               /\ status'[u] = "failed" => StaticDeps[u] \subseteq completed'
               /\ status'[u] = "canceled" => \E v \in Declared : status'[v] = "failed"
               /\ status'[u] = "pending" =>
                     \A d \in StaticDeps[u] : status'[d] \notin {"failed", "canceled"}
    <2>1. status'[u] # "yielded" /\ (status'[u] = "failed" => StaticDeps[u] \subseteq completed')
      BY <1>1, <1>2, <1>7 DEF CarriedInv, Carried
    <2>2. ASSUME status'[u] = "canceled" PROVE \E v \in Declared : status'[v] = "failed"
      <3>1. CASE u \in reached
        BY <1>2, <1>7, <1>8, <3>1
      <3>2. CASE u \notin reached
        <4>1. status[u] = "canceled"
          BY <1>2, <1>7, <2>2, <3>2
        <4>2. PICK v \in Declared : status[v] = "failed"
          BY <4>1 DEF CarriedInv, Carried
        <4>3. v \in Tasks /\ st[v] = "failed" /\ v \notin reached
          BY <1>1, <1>2, <1>4, <4>2
        <4>. QED
          BY <1>7, <4>3
      <3>. QED
        BY <3>1, <3>2
    <2>3. ASSUME status'[u] = "pending", NEW d \in StaticDeps[u],
                 status'[d] \in {"failed", "canceled"}
          PROVE  FALSE
      <3>1. u # t /\ u \notin reached /\ status[u] = "pending" /\ st[u] = "pending" /\ d \in Tasks
        BY <1>1, <1>2, <1>7, <2>3
      <3>2. u \in Dependents(d) \cap W
        BY <1>1, <3>1 DEF Dependents, Cancelable
      <3>3. status[d] \notin {"failed", "canceled"}
        BY <3>1 DEF CarriedInv, Carried
      <3>4. d = t \/ d \in reached
        BY <1>2, <1>7, <2>3, <3>1, <3>3
      <3>5. Closed(reached, W, t)
        BY <1>3, ReachedIsClosed
      <3>. QED
        BY <3>1, <3>2, <3>4, <3>5 DEF Closed
    <2>. QED
      BY <2>1, <2>2, <2>3
  <1>10. \A u \in Tasks : status'[u] = "absent" => status[u] = "absent"
    BY <1>2, <1>7
  <1>. QED
    BY <1>6, <1>9, <1>10 DEF Carried

\* Dispatch moves ready tasks to running and nothing else.
LEMMA DispatchMoves ==
    ASSUME NEW st \in Status, NEW ready \in SUBSET Tasks, NEW o, \A u \in ready : st[u] = "ready",
           NEW D \in Dispatched(st, ready, o), status' = With(st, D, "running")
    PROVE  \A u \in Tasks : status'[u] = st[u] \/ (st[u] = "ready" /\ status'[u] = "running")
  BY DEF Dispatched, With

\* resumeDispatch readies waiting tasks and starts ready ones.
LEMMA ResumeMoves ==
    ASSUME IInv, CarriedInv, NEW mk, NEW o, ResumeDispatch(status, mk, o)
    PROVE  \A u \in Tasks : \/ status'[u] = status[u]
                            \/ /\ status[u] \in {"pending", "ready"}
                               /\ status'[u] \in {"ready", "running"}
  <1> DEFINE pending == {t \in Tasks : status[t] = "pending" /\ deps[t] \subseteq completed}
             woken == {t \in Tasks : status[t] = "yielded"
                                     /\ (t \in mk => awaited[t] \subseteq completed)}
             st2 == With(status, pending \cup woken, "ready")
             ready == {t \in Tasks : st2[t] = "ready"}
  <1>1. PICK D \in Dispatched(st2, ready, o) : status' = With(st2, D, "running")
    BY DEF ResumeDispatch
  <1>2. woken = {} /\ status \in Status
    BY DEF IInv, Orderly, CarriedInv, Carried
  <1>3. st2 \in Status /\ \A u \in Tasks : \/ st2[u] = status[u]
                                           \/ status[u] = "pending" /\ st2[u] = "ready"
    BY <1>2 DEF With, Status, Statuses
  <1>4. \A u \in Tasks : status'[u] = st2[u] \/ (st2[u] = "ready" /\ status'[u] = "running")
    BY <1>1, <1>3, DispatchMoves
  <1>. QED
    BY <1>3, <1>4

\* A worker's end in a graph nobody disturbs.
LEMMA WorkersCarry ==
    ASSUME Undisturbed, IInv, CarriedInv, NEW t \in Tasks, WorkerEnds(t)
    PROVE  /\ Carried'
           /\ graph' = graph \/ graph' = Resolution(status')
           /\ \A u \in Tasks : status'[u] = "absent" => status[u] = "absent"
  <1>1. /\ status \in Status /\ status[t] = "running" /\ StaticDeps[t] \subseteq completed
        /\ completed = {u \in Tasks : status[u] = "completed"}
    BY DEF WorkerEnds, OnTaskCompleted, OnTaskFailed, OnTaskYielded, IInv, Orderly, Started
  <1>2. CASE OnTaskCompleted(t)
    <2> DEFINE st == With(AfterOpening(t), Awakened(t), "ready")
               throttled == IF MaxConcurrency = 0 THEN {}
                            ELSE {d \in Tasks : st[d] = "ready"}
               newlyReady == (Opened(t) \ RequireApproval) \cup Awakened(t) \cup throttled
    <2>1. Awakened(t) = {} /\ Refused(t) = {}
      BY DEF Awakened, Refused, CarriedInv
    <2>2. ResumeAndDispatch(t) /\ completed' = completed \cup {t}
      BY <1>2, <2>1 DEF OnTaskCompleted, AbortInYieldScan
    <2>3. PICK D \in Dispatched(st, newlyReady, TRUE) : status' = With(st, D, "running")
      BY <2>2 DEF ResumeAndDispatch
    <2>4. /\ \A d \in Opened(t) : d \in Tasks /\ status[d] = "pending" /\ d # t
          /\ AfterOpening(t) \in Status
      BY <1>1 DEF Opened, Dependents, AfterOpening, Status, Statuses
    <2>5. st = AfterOpening(t)
      BY <2>1, <2>4 DEF With, Status
    <2>6. newlyReady \in SUBSET Tasks /\ \A d \in newlyReady : st[d] = "ready"
      BY <2>1, <2>4, <2>5 DEF AfterOpening
    <2>7. \A u \in Tasks : status'[u] = st[u] \/ (st[u] = "ready" /\ status'[u] = "running")
      BY <2>3, <2>4, <2>5, <2>6, DispatchMoves
    <2>8. \A u \in Tasks : \/ st[u] = status[u]
                           \/ u = t /\ st[u] = "completed"
                           \/ status[u] = "pending" /\ st[u] \in {"ready", "awaiting_approval"}
      BY <2>4, <2>5 DEF AfterOpening
    <2>9. \A u \in Tasks :
             /\ status'[u] # "yielded"
             /\ \A s \in {"failed", "canceled"} : status'[u] = s <=> status[u] = s
             /\ status'[u] = "pending" => status[u] = "pending"
             /\ status'[u] = "absent" => status[u] = "absent"
      BY <1>1, <2>7, <2>8 DEF CarriedInv, Carried
    <2>10. Carried'
      BY <1>1, <2>2, <2>9, CalmStep DEF CarriedInv
    <2>. QED
      BY <2>2, <2>9, <2>10 DEF ResumeAndDispatch
  <1>3. ASSUME NEW killed \in BOOLEAN, NEW skip \in BOOLEAN, OnTaskFailed(t, killed, skip)
        PROVE  /\ Carried'
               /\ graph' = graph \/ graph' = Resolution(status')
               /\ \A u \in Tasks : status'[u] = "absent" => status[u] = "absent"
    <2>1. completed' = completed
      BY <1>3 DEF OnTaskFailed
    <2>2. CASE RetryAfterKill(t)
      <3> DEFINE st == With(status, {t}, "ready")
      <3>1. PICK D \in Dispatched(st, {t}, TRUE) : status' = With(st, D, "running")
        BY <2>2 DEF RetryAfterKill
      <3>2. st \in Status /\ st[t] = "ready" /\ \A u \in Tasks : u # t => st[u] = status[u]
        BY <1>1 DEF With, Status, Statuses
      <3>3. \A u \in Tasks : status'[u] = st[u] \/ (st[u] = "ready" /\ status'[u] = "running")
        BY <3>1, <3>2, DispatchMoves
      <3>4. \A u \in Tasks :
               /\ status'[u] # "yielded"
               /\ \A s \in {"failed", "canceled"} : status'[u] = s <=> status[u] = s
               /\ status'[u] = "pending" => status[u] = "pending"
               /\ status'[u] = "absent" => status[u] = "absent"
        <4>1. status[t] = "running" /\ status'[t] \in {"ready", "running"}
          BY <1>1, <3>2, <3>3
        <4>2. \A u \in Tasks :
                 \/ u = t
                 \/ status'[u] = status[u]
                 \/ status[u] = "ready" /\ status'[u] = "running"
          BY <3>2, <3>3
        <4>3. \A u \in Tasks : status[u] # "yielded"
          BY DEF CarriedInv, Carried
        <4>. QED
          BY <4>1, <4>2, <4>3
      <3>5. Carried'
        BY <1>1, <2>1, <3>4, CalmStep DEF CarriedInv
      <3>. QED
        BY <2>2, <3>4, <3>5 DEF RetryAfterKill
    <2>3. CASE RetryWithBackoff(t)
      <3>1. status' = With(status, {t}, "pending") /\ graph' = graph
        BY <2>3 DEF RetryWithBackoff
      <3>2. status'[t] = "pending" /\ \A u \in Tasks : u # t => status'[u] = status[u]
        BY <1>1, <3>1 DEF With, Status
      <3>3. \A u \in Tasks :
               /\ status'[u] # "yielded"
               /\ \A s \in {"failed", "canceled"} : status'[u] = s <=> status[u] = s
               /\ status'[u] = "pending" => status[u] = "pending" \/ StaticDeps[u] \subseteq completed
               /\ status'[u] = "absent" => status[u] = "absent"
        BY <1>1, <3>2 DEF CarriedInv, Carried
      <3>4. Carried'
        BY <1>1, <2>1, <3>3, CalmStep DEF CarriedInv
      <3>. QED
        BY <3>1, <3>3, <3>4
    <2>4. CASE FailForGood(t)
      BY <1>1, <2>1, <2>4, CascadeCarries
    <2>. QED
      BY <1>3, <2>2, <2>3, <2>4 DEF OnTaskFailed
  <1>4. CASE OnTaskYielded(t)
    BY <1>4 DEF OnTaskYielded, CarriedInv
  <1>. QED
    BY <1>2, <1>3, <1>4 DEF WorkerEnds

\* What else happens in such a graph: the declaration, additions, approvals, timers.
LEMMA OthersCarry ==
    ASSUME Undisturbed, IInv, CarriedInv, [Next]_vars, ~\E t \in Tasks : WorkerEnds(t)
    PROVE  /\ Carried'
           /\ graph # "undeclared" =>
                \A u \in Tasks : status'[u] = "absent" => status[u] = "absent"
           /\ graph' # graph => \/ graph = "undeclared" /\ graph' = "active"
                                   /\ \A t \in Declared : status'[t] # "absent"
                                \/ graph = "active" /\ graph' = "failed"
  <1> DEFINE Goal == /\ Carried'
                     /\ graph # "undeclared" =>
                          \A u \in Tasks : status'[u] = "absent" => status[u] = "absent"
                     /\ graph' # graph => \/ graph = "undeclared" /\ graph' = "active"
                                             /\ \A t \in Declared : status'[t] # "absent"
                                          \/ graph = "active" /\ graph' = "failed"
  <1>1. /\ status \in Status /\ Declared \subseteq Tasks
        /\ completed = {u \in Tasks : status[u] = "completed"}
        /\ yields = 0 /\ interventions = 0 /\ escalating = {}
        /\ MaxYields = 0 /\ MaxInterventions = 0
    BY TasksAssumption DEF IInv, Orderly, CarriedInv, Undisturbed
  <1>2. CASE status' = status /\ completed' = completed /\ graph' = graph
    <2>1. Carried'
      BY <1>1, <1>2, CalmStep DEF CarriedInv, Carried
    <2>. QED
      BY <1>2, <2>1
  <1>3. CASE DeclareGraph
    <2> DEFINE roots == {t \in Declared : StaticDeps[t] = {}}
               st == [t \in Tasks |-> IF t \in roots THEN "ready"
                                      ELSE IF t \in Declared THEN "pending" ELSE "absent"]
    <2>1. PICK D \in Dispatched(st, roots, TRUE) : status' = With(st, D, "running")
      BY <1>3 DEF DeclareGraph
    <2>2. st \in Status /\ roots \in SUBSET Tasks /\ \A u \in roots : st[u] = "ready"
      BY <1>1 DEF Status, Statuses
    <2>3. \A u \in Tasks : status'[u] = st[u] \/ (st[u] = "ready" /\ status'[u] = "running")
      BY <2>1, <2>2, DispatchMoves
    <2>4. \A u \in Tasks : /\ status'[u] \in {"ready", "pending", "absent", "running"}
                           /\ u \in Declared => status'[u] # "absent"
      BY <2>3
    <2>5. Carried'
      BY <2>4, DepsAssumption DEF Carried
    <2>. QED
      BY <1>1, <1>3, <2>4, <2>5 DEF DeclareGraph
  <1>4. ASSUME \A u \in Tasks : \/ status'[u] = status[u]
                                \/ /\ status[u] \in {"pending", "ready", "awaiting_approval"}
                                   /\ status'[u] \in {"ready", "running"},
               UNCHANGED <<graph, completed>>
        PROVE  Goal
    <2>1. \A u \in Tasks :
             /\ status'[u] # "yielded"
             /\ \A s \in {"failed", "canceled"} : status'[u] = s <=> status[u] = s
             /\ status'[u] = "pending" => status[u] = "pending"
             /\ status'[u] = "absent" => status[u] = "absent"
      BY <1>1, <1>4 DEF CarriedInv, Carried
    <2>2. Carried'
      BY <1>1, <1>4, <2>1, CalmStep DEF CarriedInv
    <2>. QED
      BY <1>4, <2>1, <2>2
  <1>5. CASE ResumeGraph
    BY <1>4, <1>5, ResumeMoves DEF ResumeGraph
  <1>6. ASSUME NEW t \in Tasks, RetryTimerFires(t) PROVE Goal
    BY <1>2, <1>4, <1>6, ResumeMoves DEF RetryTimerFires
  <1>7. ASSUME NEW t \in Tasks, ApproveTask(t) PROVE Goal
    <2> DEFINE st == With(status, {t}, "ready")
    <2>1. PICK D \in Dispatched(st, {t}, FALSE) : status' = With(st, D, "running")
      BY <1>7 DEF ApproveTask
    <2>2. st \in Status /\ st[t] = "ready" /\ \A u \in Tasks : u # t => st[u] = status[u]
      BY <1>1 DEF With, Status, Statuses
    <2>3. \A u \in Tasks : status'[u] = st[u] \/ (st[u] = "ready" /\ status'[u] = "running")
      BY <2>1, <2>2, DispatchMoves
    <2>4. status[t] = "awaiting_approval" /\ UNCHANGED <<graph, completed>>
      BY <1>7 DEF ApproveTask
    <2>5. \A u \in Tasks : \/ status'[u] = status[u]
                           \/ /\ status[u] \in {"pending", "ready", "awaiting_approval"}
                              /\ status'[u] \in {"ready", "running"}
      BY <2>2, <2>3, <2>4
    <2>. QED
      BY <1>4, <2>4, <2>5
  <1>8. ASSUME NEW t \in Tasks, AddTask(t) PROVE Goal
    <2> DEFINE ready == StaticDeps[t] \subseteq completed
               st == [status EXCEPT ![t] = IF ready THEN "ready" ELSE "pending"]
               offered == IF ready THEN {t} ELSE {}
    <2>1. PICK D \in Dispatched(st, offered, FALSE) : status' = With(st, D, "running")
      BY <1>8 DEF AddTask
    <2>2. /\ status[t] = "absent" /\ UNCHANGED <<graph, completed>> /\ graph = "active"
      BY <1>8 DEF AddTask
    <2>3. StaticDeps[t] = {}
      BY <2>2 DEF CarriedInv, Undisturbed
    <2>4. /\ st \in Status /\ offered \in SUBSET Tasks /\ \A u \in offered : st[u] = "ready"
          /\ st[t] = "ready" /\ \A u \in Tasks : u # t => st[u] = status[u]
      BY <1>1, <2>3 DEF Status, Statuses
    <2>5. \A u \in Tasks : status'[u] = st[u] \/ (st[u] = "ready" /\ status'[u] = "running")
      <3> HIDE DEF st, offered
      <3>. QED
        BY <2>1, <2>4, DispatchMoves
    <2>6. \A u \in Tasks :
             /\ status'[u] # "yielded"
             /\ \A s \in {"failed", "canceled"} : status'[u] = s <=> status[u] = s
             /\ status'[u] = "pending" => status[u] = "pending"
             /\ status'[u] = "absent" => status[u] = "absent"
      BY <1>1, <2>2, <2>4, <2>5 DEF CarriedInv, Carried
    <2>7. Carried'
      BY <1>1, <2>2, <2>6, CalmStep DEF CarriedInv
    <2>. QED
      BY <2>2, <2>6, <2>7
  <1>9. CASE ReapStaleGraph
    <2>1. status' = status /\ completed' = completed /\ graph = "active" /\ graph' = "failed"
      BY <1>9 DEF ReapStaleGraph
    <2>2. Carried'
      BY <1>1, <2>1, CalmStep DEF CarriedInv, Carried
    <2>. QED
      BY <2>1, <2>2
  <1>10. ASSUME NEW t \in Tasks, EscalationCheck(t) PROVE FALSE
    BY <1>1, <1>10 DEF EscalationCheck, AutoResolve, KeepWaiting
  <1>11. ~CancelGraph /\ \A t \in Tasks, r \in BOOLEAN : ~RetryTask(t, r)
    BY <1>1 DEF CancelGraph, RetryTask
  <1>12. \A t \in Tasks : \A agents \in SUBSET (Tasks \ {t}) : ~YieldTo(t, agents)
    BY <1>1 DEF YieldTo
  <1>13. ASSUME NEW t \in Tasks, LockExpires(t) PROVE Goal
    BY <1>2, <1>13 DEF LockExpires
  <1>14. CASE UNCHANGED vars
    BY <1>2, <1>14 DEF vars
  <1>. QED
    BY <1>3, <1>5, <1>6, <1>7, <1>8, <1>9, <1>10, <1>11, <1>12, <1>13, <1>14 DEF Next

\* The rest of the invariant: no disturbance, and dependencies as declared.
LEMMA StaysUndisturbed ==
    ASSUME Undisturbed, IInv, CarriedInv, [Next]_vars
    PROVE  /\ yields' = 0 /\ interventions' = 0 /\ marked' = {} /\ escalating' = {}
           /\ \A t \in Tasks : deps'[t] \subseteq StaticDeps[t]
  <1>1. /\ yields = 0 /\ interventions = 0 /\ marked = {} /\ escalating = {}
        /\ MaxYields = 0 /\ MaxInterventions = 0
        /\ deps \in [Tasks -> SUBSET Tasks] /\ \A t \in Tasks : deps[t] \subseteq StaticDeps[t]
    BY DEF IInv, TypeOK, CarriedInv, Undisturbed
  <1>2. ~CancelGraph /\ \A t \in Tasks, r \in BOOLEAN : ~RetryTask(t, r)
    BY <1>1 DEF CancelGraph, RetryTask
  <1>3. \A t \in Tasks : /\ ~OnTaskYielded(t) /\ ~EscalationCheck(t)
                         /\ \A agents \in SUBSET (Tasks \ {t}) : ~YieldTo(t, agents)
    BY <1>1 DEF OnTaskYielded, EscalationCheck, AutoResolve, KeepWaiting, YieldTo
  <1>4. ASSUME NEW t \in Tasks, WorkerEnds(t)
        PROVE  /\ UNCHANGED <<yields, interventions, deps>>
               /\ marked' \subseteq marked /\ escalating' \subseteq escalating
    BY <1>3, <1>4 DEF WorkerEnds, OnTaskCompleted, OnTaskFailed, ResumeAndDispatch,
       AbortInYieldScan, Resolve, yieldVars
  <1>5. ASSUME NEW t \in Tasks, AddTask(t)
        PROVE  /\ UNCHANGED <<yields, interventions, marked, escalating>>
               /\ deps' = [deps EXCEPT ![t] = StaticDeps[t]]
    BY <1>5 DEF AddTask, yieldVars
  <1>6. CASE DeclareGraph
    BY <1>1, <1>6 DEF DeclareGraph, yieldVars
  <1>7. ASSUME NEW t \in Tasks, RetryTimerFires(t) \/ ApproveTask(t) \/ LockExpires(t)
        PROVE  /\ UNCHANGED <<yields, interventions, deps, escalating>>
               /\ marked' \subseteq marked
    BY <1>7 DEF RetryTimerFires, ApproveTask, LockExpires, ResumeDispatch, Resolve, yieldVars
  <1>8. CASE ResumeGraph \/ ReapStaleGraph \/ UNCHANGED vars
    <2>1. UNCHANGED <<yields, interventions, deps, escalating>> /\ marked' \subseteq marked
      BY <1>8 DEF ResumeGraph, ReapStaleGraph, ResumeDispatch, Resolve, vars, yieldVars
    <2>. QED
      BY <1>1, <2>1
  <1>. QED
    BY <1>1, <1>2, <1>3, <1>4, <1>5, <1>6, <1>7, <1>8 DEF Next

\* A graph that reports completed has ended, all of it, and stays as it is.
LEMMA CompletedStays ==
    ASSUME Undisturbed, IInv, CarriedInv, [Next]_vars, graph = "completed"
    PROVE  graph' = graph /\ status' = status
  <1>1. /\ \A t \in Present : IsTerminal(status[t])
        /\ interventions = 0 /\ MaxInterventions = 0 /\ escalating = {}
    BY DEF CarriedInv, Undisturbed
  <1>2. \A t \in Tasks : status[t] \notin {"running", "awaiting_approval"}
    BY <1>1 DEF Present, IsTerminal
  <1>2a. \A t \in Tasks : ~WorkerEnds(t) /\ ~ApproveTask(t)
    BY <1>2 DEF WorkerEnds, OnTaskCompleted, OnTaskFailed, OnTaskYielded, ApproveTask
  <1>2b. \A t \in Tasks : ~EscalationCheck(t) /\ ~AddTask(t)
    BY <1>1 DEF EscalationCheck, AutoResolve, KeepWaiting, AddTask
  <1>2c. \A t \in Tasks, r \in BOOLEAN : ~RetryTask(t, r)
    BY <1>1 DEF RetryTask
  <1>3. ~DeclareGraph /\ ~CancelGraph /\ ~ReapStaleGraph
    BY <1>1 DEF DeclareGraph, CancelGraph, ReapStaleGraph
  <1>4. CASE ResumeGraph
    BY <1>1, <1>4, NothingToResume DEF ResumeGraph
  <1>5. ASSUME NEW t \in Tasks,
               \/ RetryTimerFires(t) \/ LockExpires(t)
               \/ \E agents \in SUBSET (Tasks \ {t}) : YieldTo(t, agents)
        PROVE  graph' = graph /\ status' = status
    BY <1>5 DEF RetryTimerFires, LockExpires, YieldTo
  <1>6. CASE UNCHANGED vars
    BY <1>6 DEF vars
  <1>. QED
    BY <1>2a, <1>2b, <1>2c, <1>3, <1>4, <1>5, <1>6 DEF Next

LEMMA StepCarries ==
    ASSUME Undisturbed, IInv, CarriedInv, [Next]_vars
    PROVE  CarriedInv'
  <1>1. Carried'
    BY WorkersCarry, OthersCarry
  <1>2. graph' # "undeclared" => \A t \in Declared : status'[t] # "absent"
    <2>1. Declared \subseteq Tasks
      BY TasksAssumption
    <2>2. CASE graph = "undeclared"
      <3>1. \A t \in Tasks : ~WorkerEnds(t)
        BY <2>2 DEF WorkerEnds, OnTaskCompleted, OnTaskFailed, OnTaskYielded, IInv,
           NothingBeforeDeclare
      <3>. QED
        BY <2>2, <3>1, OthersCarry
    <2>3. CASE graph # "undeclared"
      BY <2>1, <2>3, WorkersCarry, OthersCarry DEF CarriedInv
    <2>. QED
      BY <2>2, <2>3
  <1>3. graph' = "completed" => /\ \A t \in Present' : IsTerminal(status'[t])
                                /\ \A t \in Tasks \ BestEffort : status'[t] # "failed"
    <2>1. CASE graph = "completed"
      BY <2>1, CompletedStays DEF CarriedInv, Present
    <2>2. ASSUME graph # "completed", graph' = "completed"
          PROVE  /\ \A t \in Present' : IsTerminal(status'[t])
                 /\ \A t \in Tasks \ BestEffort : status'[t] # "failed"
      <3>1. graph' = Resolution(status')
        BY <2>2, WorkersCarry, OthersCarry
      <3>. QED
        BY <2>2, <3>1 DEF Resolution, Present
    <2>. QED
      BY <2>1, <2>2
  <1>. QED
    BY <1>1, <1>2, <1>3, StaysUndisturbed DEF CarriedInv

-----------------------------------------------------------------------------
(* And what it leaves possible goes on *)

\* Dispatch takes whatever it is offered.
FreeDispatch == MaxConcurrency = 0 /\ ~MemoryPressure /\ ~ForeignOwner

\* What is ready has been dispatched, what waits has a timer or waits for something, and what
\* is locked has been opened.
Offered ==
    /\ \A t \in Tasks : status[t] # "validating"
    /\ \A t \in locks : StaticDeps[t] \subseteq completed
    /\ graph = "active" =>
          \A t \in Tasks : /\ status[t] # "ready"
                           /\ status[t] = "pending" =>
                                 t \in backoff \/ ~(StaticDeps[t] \subseteq completed)

LEMMA FreeDispatchTakesAll ==
    ASSUME FreeDispatch, NEW st, NEW ready, NEW o, NEW D \in Dispatched(st, ready, o)
    PROVE  D = ready
  BY DEF FreeDispatch, Dispatched

LEMMA OfferedStep ==
    ASSUME Offered, completed' = completed, locks' \subseteq locks,
           \A u \in Tasks : status'[u] = status[u] \/ status'[u] # "validating",
           graph' = "active" =>
              /\ graph = "active"
              /\ \A u \in Tasks :
                    \/ status'[u] \in {"absent", "running", "awaiting_approval", "completed",
                                       "failed", "canceled"}
                    \/ status'[u] = "pending" /\ (u \in backoff' \/ ~(StaticDeps[u] \subseteq completed))
                    \/ /\ status'[u] = status[u]
                       /\ status[u] = "pending" /\ u \in backoff => u \in backoff'
    PROVE  Offered'
  <1>1. \A u \in Tasks : status'[u] # "validating"  BY DEF Offered
  <1>2. \A u \in locks' : StaticDeps[u] \subseteq completed'  BY DEF Offered
  <1>3. ASSUME graph' = "active", NEW u \in Tasks
        PROVE  /\ status'[u] # "ready"
               /\ status'[u] = "pending" => u \in backoff' \/ ~(StaticDeps[u] \subseteq completed')
    <2>1. /\ status[u] # "ready"
          /\ status[u] = "pending" => u \in backoff \/ ~(StaticDeps[u] \subseteq completed)
      BY <1>3 DEF Offered
    <2>. QED
      BY <1>3, <2>1
  <1>. QED
    BY <1>1, <1>2, <1>3 DEF Offered

\* resumeDispatch leaves only those waiting that have something to wait for.
LEMMA ResumeOffers ==
    ASSUME FreeDispatch, IInv, CarriedInv, NEW mk, NEW o, ResumeDispatch(status, mk, o)
    PROVE  \A u \in Tasks :
              \/ status'[u] = "running"
              \/ /\ status'[u] = status[u] /\ status[u] # "ready"
                 /\ status[u] = "pending" => ~(StaticDeps[u] \subseteq completed)
  <1> DEFINE pending == {t \in Tasks : status[t] = "pending" /\ deps[t] \subseteq completed}
             woken == {t \in Tasks : status[t] = "yielded"
                                     /\ (t \in mk => awaited[t] \subseteq completed)}
             st2 == With(status, pending \cup woken, "ready")
             ready == {t \in Tasks : st2[t] = "ready"}
  <1>1. PICK D \in Dispatched(st2, ready, o) : status' = With(st2, D, "running")
    BY DEF ResumeDispatch
  <1>2. woken = {} /\ status \in Status
    BY DEF IInv, Orderly, CarriedInv, Carried
  <1>3. D = ready
    BY <1>1, FreeDispatchTakesAll
  <1>4. \A u \in Tasks : st2[u] = IF u \in pending THEN "ready" ELSE status[u]
    BY <1>2 DEF With
  <1>5. \A u \in Tasks : status'[u] = IF st2[u] = "ready" THEN "running" ELSE st2[u]
    BY <1>1, <1>3 DEF With
  <1>6. \A u \in Tasks : status[u] = "pending" /\ u \notin pending => ~(StaticDeps[u] \subseteq completed)
    BY DEF CarriedInv
  <1>. QED
    BY <1>4, <1>5, <1>6

LEMMA CompletionOffers ==
    ASSUME FreeDispatch, IInv, CarriedInv, Offered, NEW t \in Tasks, OnTaskCompleted(t)
    PROVE  Offered'
  <1> DEFINE st == With(AfterOpening(t), Awakened(t), "ready")
             throttled == IF MaxConcurrency = 0 THEN {}
                          ELSE {d \in Tasks : st[d] = "ready"}
             newlyReady == (Opened(t) \ RequireApproval) \cup Awakened(t) \cup throttled
  <1>0. /\ status \in Status /\ status[t] = "running" /\ t \notin completed
        /\ \A u \in Tasks : status[u] # "absent" => StaticDeps[u] \subseteq deps[u]
        /\ \A u \in Tasks : deps[u] \subseteq StaticDeps[u]
    BY DEF OnTaskCompleted, IInv, Orderly, CarriedInv
  <1>1. Awakened(t) = {} /\ Refused(t) = {}
    BY DEF Awakened, Refused, CarriedInv
  <1>2. /\ ResumeAndDispatch(t) /\ completed' = completed \cup {t}
        /\ locks' = locks \cup Opened(t) /\ backoff' = backoff
    BY <1>1 DEF OnTaskCompleted, AbortInYieldScan
  <1>3. PICK D \in Dispatched(st, newlyReady, TRUE) : status' = With(st, D, "running")
    BY <1>2 DEF ResumeAndDispatch
  <1>4. D = newlyReady
    <2> HIDE DEF st, newlyReady
    <2>. QED
      BY <1>3, FreeDispatchTakesAll
  <1>5. newlyReady = Opened(t) \ RequireApproval
    BY <1>1 DEF FreeDispatch
  <1>6. /\ \A d \in Opened(t) : /\ d \in Tasks /\ status[d] = "pending" /\ d # t
                                /\ StaticDeps[d] \subseteq completed \cup {t}
        /\ st = AfterOpening(t)
    <2>1. \A d \in Opened(t) : /\ d \in Tasks /\ status[d] = "pending" /\ d # t
                               /\ deps[d] \subseteq completed \cup {t}
      BY <1>0 DEF Opened, Dependents
    <2>2. AfterOpening(t) \in Status
      BY <1>0, <2>1 DEF AfterOpening, Status, Statuses
    <2>3. st = AfterOpening(t)
      BY <1>1, <2>2 DEF With, Status
    <2>4. \A d \in Opened(t) : StaticDeps[d] \subseteq completed \cup {t}
      BY <1>0, <2>1
    <2>. QED
      BY <2>1, <2>3, <2>4
  <1>7. \A u \in Tasks : status'[u] = IF u = t THEN "completed"
                                      ELSE IF u \notin Opened(t) THEN status[u]
                                      ELSE IF u \in RequireApproval THEN "awaiting_approval"
                                      ELSE "running"
    BY <1>3, <1>4, <1>5, <1>6 DEF With, AfterOpening
  <1>8. \A u \in Tasks : status'[u] # "validating"
    BY <1>7 DEF Offered
  <1>9. \A u \in locks' : StaticDeps[u] \subseteq completed'
    BY <1>2, <1>6 DEF Offered
  <1>10. graph' = "active" => graph = "active"
    BY <1>2 DEF ResumeAndDispatch, Resolution
  <1>11. ASSUME graph = "active", NEW u \in Tasks
         PROVE  /\ status'[u] # "ready"
                /\ status'[u] = "pending" => u \in backoff' \/ ~(StaticDeps[u] \subseteq completed')
    <2>1. status'[u] # "ready"
      BY <1>7, <1>11 DEF Offered
    <2>2. ASSUME status'[u] = "pending", u \notin backoff, StaticDeps[u] \subseteq completed \cup {t}
          PROVE  FALSE
      <3>1. status[u] = "pending" /\ u \notin Opened(t)
        BY <1>7, <2>2
      <3>2. t \in StaticDeps[u]
        BY <1>11, <2>2, <3>1 DEF Offered
      <3>3. t \in deps[u] /\ deps[u] \subseteq completed \cup {t}
        BY <1>0, <2>2, <3>1, <3>2
      <3>4. u \in locks
        BY <3>1, <3>3 DEF Opened, Dependents
      <3>5. StaticDeps[u] \subseteq completed
        BY <3>4 DEF Offered
      <3>. QED
        BY <1>0, <3>2, <3>5
    <2>. QED
      BY <1>2, <2>1, <2>2
  <1>. QED
    BY <1>8, <1>9, <1>10, <1>11 DEF Offered

\* What else is offered: declared, added, retried and approved tasks are taken at once.
LEMMA StepOffers ==
    ASSUME FreeDispatch, Undisturbed, IInv, CarriedInv, Offered, [Next]_vars
    PROVE  Offered'
  <1>1. /\ status \in Status /\ Declared \subseteq Tasks
        /\ completed = {u \in Tasks : status[u] = "completed"}
        /\ deps \in [Tasks -> SUBSET Tasks]
        /\ yields = 0 /\ interventions = 0 /\ marked = {} /\ escalating = {}
        /\ MaxYields = 0 /\ MaxInterventions = 0
    BY TasksAssumption DEF IInv, TypeOK, Orderly, CarriedInv, Undisturbed
  <1>2. ~CancelGraph /\ \A t \in Tasks, r \in BOOLEAN : ~RetryTask(t, r)
    BY <1>1 DEF CancelGraph, RetryTask
  <1>3. \A t \in Tasks : /\ ~OnTaskYielded(t) /\ ~EscalationCheck(t)
                         /\ \A agents \in SUBSET (Tasks \ {t}) : ~YieldTo(t, agents)
    BY <1>1 DEF OnTaskYielded, EscalationCheck, AutoResolve, KeepWaiting, YieldTo
  <1>4. CASE DeclareGraph
    <2> DEFINE roots == {t \in Declared : StaticDeps[t] = {}}
               st == [t \in Tasks |-> IF t \in roots THEN "ready"
                                      ELSE IF t \in Declared THEN "pending" ELSE "absent"]
    <2>1. PICK D \in Dispatched(st, roots, TRUE) : status' = With(st, D, "running")
      BY <1>4 DEF DeclareGraph
    <2>2. D = roots
      <3> HIDE DEF st, roots
      <3>. QED
        BY <2>1, FreeDispatchTakesAll
    <2>3. \A u \in Tasks : status'[u] = IF u \in roots THEN "running"
                                        ELSE IF u \in Declared THEN "pending" ELSE "absent"
      BY <2>1, <2>2 DEF With
    <2>4. completed = {} /\ completed' = {} /\ locks' = locks
      BY <1>1, <1>4 DEF DeclareGraph, IInv, NothingBeforeDeclare
    <2>5. \A u \in locks' : StaticDeps[u] \subseteq completed'
      BY <2>4 DEF Offered
    <2>6. \A u \in Tasks : status'[u] = "pending" => StaticDeps[u] # {}
      BY <2>3
    <2>. QED
      BY <2>3, <2>4, <2>5, <2>6 DEF Offered
  <1>5. ASSUME NEW t \in Tasks, AddTask(t) PROVE Offered'
    <2> DEFINE ready == StaticDeps[t] \subseteq completed
               st == [status EXCEPT ![t] = IF ready THEN "ready" ELSE "pending"]
               offered == IF ready THEN {t} ELSE {}
    <2>1. PICK D \in Dispatched(st, offered, FALSE) : status' = With(st, D, "running")
      BY <1>5 DEF AddTask
    <2>2. D = offered
      <3> HIDE DEF st, offered
      <3>. QED
        BY <2>1, FreeDispatchTakesAll
    <2>3. \A u \in Tasks : status'[u] = IF u # t THEN status[u]
                                        ELSE IF ready THEN "running" ELSE "pending"
      BY <1>1, <2>1, <2>2 DEF With, Status
    <2>4. UNCHANGED <<graph, completed, locks, backoff>>
      BY <1>5 DEF AddTask
    <2>. QED
      BY <2>3, <2>4, OfferedStep
  <1>6. ASSUME NEW t \in Tasks, NEW killed \in BOOLEAN, NEW skip \in BOOLEAN,
               OnTaskFailed(t, killed, skip)
        PROVE  Offered'
    <2>1. status[t] = "running" /\ UNCHANGED <<completed, locks>>
      BY <1>6 DEF OnTaskFailed
    <2>2. CASE RetryAfterKill(t)
      <3> DEFINE st == With(status, {t}, "ready")
      <3>1. PICK D \in Dispatched(st, {t}, TRUE) : status' = With(st, D, "running")
        BY <2>2 DEF RetryAfterKill
      <3>2. D = {t}
        BY <3>1, FreeDispatchTakesAll
      <3>3. \A u \in Tasks : status'[u] = IF u = t THEN "running" ELSE status[u]
        BY <3>1, <3>2 DEF With
      <3>4. UNCHANGED <<graph, backoff>>
        BY <2>2 DEF RetryAfterKill
      <3>. QED
        BY <2>1, <3>3, <3>4, OfferedStep
    <2>3. CASE RetryWithBackoff(t)
      <3>1. /\ \A u \in Tasks : status'[u] = IF u = t THEN "pending" ELSE status[u]
            /\ backoff' = backoff \cup {t} /\ graph' = graph
        BY <2>3 DEF RetryWithBackoff, With
      <3>. QED
        BY <2>1, <3>1, OfferedStep
    <2>4. CASE FailForGood(t)
      <3> DEFINE st == With(status, {t}, "failed")
      <3>1. PICK P \in CascadeOutcomes(st, t) : status' = With(st, P, "canceled")
        BY <2>4 DEF FailForGood
      <3>2. \A u \in Tasks : status'[u] = IF u \in P THEN "canceled"
                                          ELSE IF u = t THEN "failed" ELSE status[u]
        BY <3>1 DEF With
      <3>3. backoff' = backoff /\ (graph' = "active" => graph = "active")
        BY <2>4 DEF FailForGood, Resolution
      <3>. QED
        BY <2>1, <3>2, <3>3, OfferedStep
    <2>. QED
      BY <1>6, <2>2, <2>3, <2>4 DEF OnTaskFailed
  <1>7. ASSUME NEW t \in Tasks, ApproveTask(t) PROVE Offered'
    <2> DEFINE st == With(status, {t}, "ready")
    <2>1. PICK D \in Dispatched(st, {t}, FALSE) : status' = With(st, D, "running")
      BY <1>7 DEF ApproveTask
    <2>2. D = {t}
      BY <2>1, FreeDispatchTakesAll
    <2>3. \A u \in Tasks : status'[u] = IF u = t THEN "running" ELSE status[u]
      BY <2>1, <2>2 DEF With
    <2>4. UNCHANGED <<graph, completed, locks, backoff>>
      BY <1>7 DEF ApproveTask
    <2>. QED
      BY <2>3, <2>4, OfferedStep
  <1>8. ASSUME NEW o, ResumeDispatch(status, marked, o), UNCHANGED <<graph, completed, locks>>
        PROVE  Offered'
    <2>1. \A u \in Tasks :
             \/ status'[u] = "running"
             \/ /\ status'[u] = status[u] /\ status[u] # "ready"
                /\ status[u] = "pending" => ~(StaticDeps[u] \subseteq completed)
      BY <1>8, ResumeOffers
    <2>2. \A u \in Tasks : \/ status'[u] \in {"running"}
                           \/ status'[u] = "pending" /\ ~(StaticDeps[u] \subseteq completed)
                           \/ status'[u] = status[u] /\ status[u] # "pending"
      BY <2>1
    <2>3. \A u \in Tasks : status'[u] = status[u] \/ status'[u] # "validating"
      BY <2>1
    <2>. QED
      BY <1>8, <2>2, <2>3, OfferedStep
  <1>9. CASE ResumeGraph
    BY <1>8, <1>9 DEF ResumeGraph
  <1>10. ASSUME NEW t \in Tasks, RetryTimerFires(t) PROVE Offered'
    <2>1. UNCHANGED <<graph, completed, locks>>
      BY <1>10 DEF RetryTimerFires
    <2>2. CASE graph \in {"canceled", "completed", "failed"}
      BY <1>10, <2>1, <2>2, OfferedStep DEF RetryTimerFires
    <2>. QED
      BY <1>8, <1>10, <2>1, <2>2 DEF RetryTimerFires
  <1>11. CASE ReapStaleGraph
    BY <1>11, OfferedStep DEF ReapStaleGraph
  <1>12. ASSUME NEW t \in Tasks, LockExpires(t) PROVE Offered'
    BY <1>12, OfferedStep DEF LockExpires
  <1>13. CASE UNCHANGED vars
    BY <1>13, OfferedStep DEF vars
  <1>. QED
    BY <1>2, <1>3, <1>4, <1>5, <1>6, <1>7, <1>9, <1>10, <1>11, <1>12, <1>13, CompletionOffers
       DEF Next, WorkerEnds

\* Of the tasks that wait, one waits for nothing that waits: with nobody to move the graph
\* on, it would wait for what has ended without success.
LEMMA OfferedIsNotStranded ==
    ASSUME FreeDispatch, IInv, CarriedInv, Offered, Undisturbed
    PROVE  NoneIsStranded
  <1> SUFFICES ASSUME graph = "active",
                      \A t \in Tasks : /\ status[t] \notin {"running", "awaiting_approval"}
                                       /\ t \notin backoff,
                      NEW x \in Present, ~IsTerminal(status[x])
               PROVE  FALSE
    BY DEF NoneIsStranded
  <1> DEFINE C == {t \in Tasks : status[t] = "pending"}
  <1>1. /\ status \in Status /\ Declared \subseteq Tasks
        /\ completed = {u \in Tasks : status[u] = "completed"}
    BY TasksAssumption DEF IInv, Orderly
  <1>2. \A t \in Tasks : status[t] \in {"absent", "pending", "completed", "failed", "canceled"}
    <2>1. \A t \in Tasks : status[t] \notin {"yielded", "validating", "ready"}
      BY DEF Offered, CarriedInv, Carried
    <2>. QED
      BY <1>1, <2>1 DEF Status, Statuses
  <1>3. x \in C
    BY <1>2 DEF Present, IsTerminal
  <1>4. PICK t \in C : StaticDeps[t] \cap C = {}
    BY <1>3, DepsAssumption
  <1>5. PICK d \in StaticDeps[t] : d \notin completed
    BY DEF Offered
  <1>6. t \in Declared /\ d \in Declared
    BY <1>5, DepsAssumption DEF Undisturbed
  <1>7. status[d] # "absent" /\ d \notin C
    BY <1>4, <1>5, <1>6 DEF CarriedInv
  <1>8. status[d] \notin {"failed", "canceled"}
    BY <1>5 DEF CarriedInv, Carried
  <1>. QED
    BY <1>1, <1>2, <1>5, <1>6, <1>7, <1>8

\* In a graph nobody disturbs, for every set of tasks, dependencies and retries: it
\* reports completed only when all but its best-effort tasks have completed, no task is
\* left waiting for one that ended without success, and, where nothing holds a dispatch
\* back, an active graph with a task to end has a worker, a timer or an approval to come.
THEOREM FailuresAlwaysCarriedThrough ==
    ASSUME Undisturbed
    PROVE  Spec => []FailuresAreCarriedThrough
  <1> DEFINE Inv == CarriedInv /\ (FreeDispatch => Offered)
  <1>1. Init => Inv
    BY DEF Init, CarriedInv, Carried, Offered
  <1>2. IInv /\ Inv /\ [Next]_vars => Inv'
    BY StepCarries, StepOffers DEF FreeDispatch
  <1>3. IInv /\ Inv => FailuresAreCarriedThrough
    <2> SUFFICES ASSUME IInv, Inv PROVE FailuresAreCarriedThrough
      OBVIOUS
    <2>1. CompletedMeansAllRan
      <3> SUFFICES ASSUME graph = "completed", NEW t \in Present \ BestEffort
                   PROVE  t \in completed
        BY DEF CompletedMeansAllRan
      <3>1. t \in Tasks /\ IsTerminal(status[t]) /\ status[t] # "failed"
        BY DEF CarriedInv, Present
      <3>2. status[t] # "canceled"
        BY <3>1, TasksAssumption DEF CarriedInv, Carried, Undisturbed
      <3>3. completed = {u \in Tasks : status[u] = "completed"}
        BY DEF IInv, Orderly
      <3>. QED
        BY <3>1, <3>2, <3>3 DEF IsTerminal
    <2>2. NoneWaitsOnTheDead
      BY DEF CarriedInv, Carried, NoneWaitsOnTheDead
    <2>3. NoneIsStranded
      BY OfferedIsNotStranded DEF FreeDispatch, NoneIsStranded
    <2>. QED
      BY <2>1, <2>2, <2>3 DEF FailuresAreCarriedThrough
  <1>. QED
    BY <1>1, <1>2, <1>3, Invariance, PTL DEF Spec
=============================================================================
