--------------------------- MODULE WorkerLifecycle ---------------------------
(***************************************************************************)
(* One pod-mode task from its dispatch to its end, on several engines: the *)
(* dispatch handler (src/src/graph-dispatch.ts) and its Kubernetes Job     *)
(* (spawn/k8s-strategy.ts), the exit poll and the exit's grace period      *)
(* (process-monitor.ts), the health sweep that finds ends nobody reported  *)
(* (health-sweep.ts), await_graph_event, timeouts, kills and crashes.      *)
(*                                                                         *)
(* The task is alone in its graph.  Each attempt is a session; the Job is  *)
(* named after the task, so attempts share it.  Clocks are left out: what  *)
(* may happen after a delay may happen at any time, except that a stamp    *)
(* (two Redis calls) comes before the first poll, four seconds later.      *)
(***************************************************************************)
EXTENDS Naturals, FiniteSets

CONSTANTS
    Engines,          \* the engine replicas
    FirstLeader,      \* the one that holds the leader's lease at first
    RetryBudgets,     \* values of the task's maxRetries
    MaxSessions,      \* bound: attempts in a behaviour
    MaxDisturbances,  \* bound: engine crashes, losses of the leader's lease and calls of
                      \* kill_task, cancel_task_graph and retry_task, together
    Regimes           \* what is explored: a task that has a timeoutMs ("timed"), one that
                      \* is waited for in await_graph_event ("watched")

ASSUME LifecycleAssumption ==
    /\ RetryBudgets \subseteq Nat
    /\ FirstLeader \in Engines
    /\ MaxSessions \in Nat \ {0} /\ MaxDisturbances \in Nat
    /\ Regimes \subseteq {"timed", "watched"}

Sessions == 1 .. MaxSessions

VARIABLES
    maxRetries,    \* the one of RetryBudgets of this behaviour
    exec,          \* execMode: the exit code is a verdict and there is no branch
    regime,        \* the one of Regimes
    status,        \* the task record: .status
    session,       \* .sessionId, 0 when there is none
    retries,       \* .retries
    podMode,       \* .podMode
    job,           \* status of the task's Job; "gone" when there is none
    sessions,      \* how many attempts have been dispatched
    owner,         \* session -> the engine that dispatched it
    stage,         \* session -> where its engine is with it
    poll,          \* session -> its exit poll: on, off, or off with a last read in flight
    code,          \* session -> the exit code the poll has synthesized
    timers,        \* the engines with a retry timer of the task
    leader,        \* the engine that holds the leader's lease
    sweep,         \* engine -> the session its sweep is judging, {0} for a zombie
    claims,        \* the keys deadagent:<session>:claimed (0: the zombie key)
    crashes, failovers, interventions,
    succeeded,     \* history: a Job of the task has succeeded
    charged        \* history: session -> failures of it counted against the task

record == <<status, session, retries, podMode>>
engineVars == <<sessions, owner, stage, poll, code, timers>>
settings == <<maxRetries, exec, regime>>
setup == <<settings, leader, failovers>>
history == <<succeeded, charged>>
vars == <<setup, record, job, engineVars, sweep, claims, crashes, interventions, history>>

Stages == {"none", "create", "recreate", "stamp", "watch", "grace", "over"}
Terminal == {"completed", "failed", "canceled"}
Disturbances == crashes + failovers + interventions
Tracked(s) == stage[s] \in {"stamp", "watch", "grace"}

\* The task was dispatched when its graph was declared.
Init ==
    /\ maxRetries \in RetryBudgets /\ exec \in BOOLEAN /\ regime \in Regimes
    /\ leader = FirstLeader /\ failovers = 0
    /\ status = "running" /\ session = 0 /\ retries = 0 /\ podMode = FALSE
    /\ job = "gone"
    /\ sessions = 1
    /\ owner \in {[s \in Sessions |-> e] : e \in Engines}
    /\ stage = [s \in Sessions |-> IF s = 1 THEN "create" ELSE "none"]
    /\ poll = [s \in Sessions |-> "off"] /\ code = [s \in Sessions |-> 0]
    /\ timers = {} /\ claims = {}
    /\ sweep = [e \in Engines |-> {}]
    /\ crashes = 0 /\ interventions = 0
    /\ succeeded = FALSE /\ charged = [s \in Sessions |-> 0]

Goto(s, next) == stage' = [stage EXCEPT ![s] = next]
Charge(s) == charged' = [r \in Sessions |-> IF r = s THEN charged[r] + 1 ELSE charged[r]]

-----------------------------------------------------------------------------
(* What a report does to the record: task-graph.ts *)

\* Mutant: a late report of success completes a task that has failed.
OnTaskCompleted_NoGuard(s) ==
    /\ IF status # "pending"
       THEN status' = "completed" /\ session' = s
       ELSE UNCHANGED <<status, session>>
    /\ UNCHANGED <<retries, podMode, timers, charged>>

\* onTaskCompleted of session s; a pending task refuses and the handler throws.
OnTaskCompleted(s) ==
    /\ IF status = "running"
       THEN status' = "completed" /\ session' = s
       ELSE UNCHANGED <<status, session>>
    /\ UNCHANGED <<retries, podMode, timers, charged>>

\* Mutant: a failure is charged to a task that has ended, too.
OnTaskFailed_NoGuard(e, s, skipRetry) ==
    LET retry == ~skipRetry /\ retries < maxRetries
    IN  /\ status' = IF retry THEN "pending" ELSE "failed"
        /\ session' = IF retry THEN 0 ELSE s
        /\ retries' = IF retry THEN retries + 1 ELSE retries
        /\ timers' = IF retry THEN timers \cup {e} ELSE timers
        /\ Charge(s)
        /\ UNCHANGED podMode

\* Mutant: the retry is counted, and no timer set.
OnTaskFailed_NoTimer(e, s, skipRetry) ==
    LET retry == ~skipRetry /\ retries < maxRetries
    IN  /\ IF status = "running"
           THEN /\ status' = IF retry THEN "pending" ELSE "failed"
                /\ session' = IF retry THEN 0 ELSE s
                /\ retries' = IF retry THEN retries + 1 ELSE retries
                /\ Charge(s)
           ELSE UNCHANGED <<status, session, retries, charged>>
        /\ UNCHANGED <<podMode, timers>>

\* onTaskFailed of session s on engine e: a retry after a backoff, or failed for
\* good.  A pending task keeps its retries, gets a timer or makes the handler throw.
OnTaskFailed(e, s, skipRetry) ==
    LET retry == ~skipRetry /\ retries < maxRetries
    IN  /\ \/ /\ status = "running" /\ retry
              /\ status' = "pending" /\ session' = 0 /\ retries' = retries + 1
              /\ timers' = timers \cup {e}
              /\ Charge(s)
           \/ /\ status = "running" /\ ~retry
              /\ status' = "failed" /\ session' = s
              /\ Charge(s)
              /\ UNCHANGED <<retries, timers>>
           \/ /\ status = "pending"
              /\ timers' = IF retry THEN timers \cup {e} ELSE timers
              /\ UNCHANGED <<status, session, retries, charged>>
           \/ /\ status \in Terminal
              /\ UNCHANGED <<status, session, retries, timers, charged>>
        /\ UNCHANGED podMode

-----------------------------------------------------------------------------
(* Dispatch *)

\* dispatchReadyTasks: running, and the dispatch handler of a new session begins.
Dispatch(e) ==
    LET s == sessions + 1 IN
    /\ sessions < MaxSessions
    /\ sessions' = s
    /\ owner' = [owner EXCEPT ![s] = e]
    /\ Goto(s, "create")
    /\ status' = "running" /\ session' = 0

\* createJob answers 409: the stale Job is deleted first.
DeleteStaleJob(s) ==
    /\ stage[s] = "create" /\ job # "gone"
    /\ job' = "gone"
    /\ Goto(s, "recreate")
    /\ UNCHANGED <<setup, record, sessions, owner, poll, code, timers, sweep, claims, crashes,
                   interventions, history>>

\* createJob; the session is tracked and its exit poll set.
CreateJob(s) ==
    /\ stage[s] \in {"create", "recreate"} /\ job = "gone"
    /\ job' = "active"
    /\ poll' = [poll EXCEPT ![s] = "on"]
    /\ Goto(s, "stamp")
    /\ UNCHANGED <<setup, record, sessions, owner, code, timers, sweep, claims, crashes,
                   interventions, history>>

\* Any of the errors before and in spawnSession; also a second 409.
SpawnFails(s) ==
    /\ stage[s] \in {"create", "recreate"}
    /\ Goto(s, "over")
    /\ OnTaskFailed(owner[s], s, FALSE)
    /\ UNCHANGED <<setup, job, sessions, owner, poll, code, sweep, claims, crashes,
                   interventions, succeeded>>

\* The record is read again and written with status running, whatever it says.
Stamp(s) ==
    /\ stage[s] = "stamp"
    /\ status' = "running" /\ session' = s /\ podMode' = TRUE
    /\ Goto(s, "watch")
    /\ UNCHANGED <<setup, retries, job, sessions, owner, poll, code, timers, sweep, claims,
                   crashes, interventions, history>>

-----------------------------------------------------------------------------
(* The Job *)

JobEnds ==
    /\ job = "active"
    /\ job' \in {"succeeded", "failed"}
    /\ succeeded' = (succeeded \/ job' = "succeeded")
    /\ UNCHANGED <<setup, record, engineVars, sweep, claims, crashes, interventions, charged>>

\* ttlSecondsAfterFinished, ten minutes: longer than a poll or a grace period lasts.
JobExpires ==
    /\ job \in {"succeeded", "failed"}
    /\ \A s \in Sessions : poll[s] # "on" /\ stage[s] # "grace"
    /\ job' = "gone"
    /\ UNCHANGED <<setup, record, engineVars, sweep, claims, crashes, interventions, history>>

-----------------------------------------------------------------------------
(* The end of a session, seen by its engine *)

\* The poll finds the Job, whichever attempt's it is, ended or gone, and fires the
\* exit, which starts the grace period.
PollFires(s) ==
    /\ stage[s] = "watch" /\ poll[s] # "off" /\ job # "active"
    /\ poll' = [poll EXCEPT ![s] = "off"]
    /\ code' = [code EXCEPT ![s] =
          IF job = "failed" \/ (job = "gone" /\ exec) THEN 1 ELSE 0]
    /\ Goto(s, "grace")
    /\ UNCHANGED <<setup, record, job, sessions, owner, timers, sweep, claims, crashes,
                   interventions, history>>

\* The read that was in flight when the poll was cleared came back before the end.
PollStops(s) ==
    /\ poll[s] = "last"
    /\ poll' = [poll EXCEPT ![s] = "off"]
    /\ UNCHANGED <<setup, record, job, sessions, owner, stage, code, timers, sweep, claims,
                   crashes, interventions, history>>

\* handleExit, after its grace period, untracks the session and reports.  A worker that
\* said it was done is completed whatever its exit code; a storm of failures or a
\* hopeless one is not retried.
Report(s) ==
    /\ stage[s] = "grace"
    /\ Goto(s, "over") /\ code' = [code EXCEPT ![s] = 0]
    /\ \/ (code[s] = 0 \/ ~exec) /\ OnTaskCompleted(s)
       \/ code[s] = 1 /\ \E skipRetry \in BOOLEAN : OnTaskFailed(owner[s], s, skipRetry)
    /\ UNCHANGED <<setup, job, sessions, owner, poll, sweep, claims, crashes,
                   interventions, succeeded>>

\* Mutant: the timer dispatches a task that is already running, too.
RetryTimerFires_Running(e) ==
    /\ e \in timers
    /\ timers' = timers \ {e}
    /\ IF status \in {"pending", "running"} /\ sessions < MaxSessions
       THEN Dispatch(e)
       ELSE UNCHANGED <<sessions, owner, stage, status, session>>
    /\ UNCHANGED <<setup, retries, podMode, job, poll, code, sweep, claims, crashes,
                   interventions, history>>

\* The retry timer of engine e fires: resumeDispatch.
RetryTimerFires(e) ==
    /\ e \in timers
    /\ timers' = timers \ {e}
    /\ IF status = "pending"
       THEN Dispatch(e)
       ELSE UNCHANGED <<sessions, owner, stage, status, session>>
    /\ UNCHANGED <<setup, retries, podMode, job, poll, code, sweep, claims, crashes,
                   interventions, history>>

-----------------------------------------------------------------------------
(* The health sweep, which the leader runs *)

\* Mutant: the sweep leaves alone what this engine has dispatched, tracked or not.
SweepLooks_Own(e) ==
    /\ e = leader /\ sweep[e] = {} /\ status = "running"
    /\ session # 0 => owner[session] # e
    /\ sweep' = [sweep EXCEPT ![e] = {session}]
    /\ UNCHANGED <<setup, record, job, engineVars, claims, crashes, interventions, history>>

\* getAllTasks: a running task this engine does not track, or one without a session
\* for 30 seconds (a spawn may take longer).
SweepLooks(e) ==
    /\ e = leader /\ sweep[e] = {} /\ status = "running"
    /\ session # 0 => ~(owner[session] = e /\ Tracked(session))
    /\ sweep' = [sweep EXCEPT ![e] = {session}]
    /\ UNCHANGED <<setup, record, job, engineVars, claims, crashes, interventions, history>>

\* The sweep leaves the task alone: its Job is active, or another sweep has claimed it.
SweepPasses(e) ==
    /\ sweep[e] # {}
    /\ \/ job = "active" /\ (sweep[e] = {0} => podMode)
       \/ sweep[e] \subseteq claims
    /\ sweep' = [sweep EXCEPT ![e] = {}]
    /\ UNCHANGED <<setup, record, job, engineVars, claims, crashes, interventions, history>>

\* Mutant: a Job that is gone has ended well, whatever its task.
SweepFinalizes_Trusting(e, s) ==
    /\ sweep[e] = {s} /\ s # 0 /\ s \notin claims /\ job # "active"
    /\ claims' = claims \cup {s}
    /\ sweep' = [sweep EXCEPT ![e] = {}]
    /\ IF job = "failed" THEN OnTaskFailed(e, s, FALSE) ELSE OnTaskCompleted(s)
    /\ UNCHANGED <<setup, job, sessions, owner, stage, poll, code, crashes, interventions,
                   succeeded>>

\* It claims the session it has read and reports the end of the Job of that name.
SweepFinalizes(e, s) ==
    LET verdictLost == job = "gone" /\ exec
    IN  /\ sweep[e] = {s} /\ s # 0 /\ s \notin claims /\ job # "active"
        /\ claims' = claims \cup {s}
        /\ sweep' = [sweep EXCEPT ![e] = {}]
        /\ IF job = "failed" \/ verdictLost
           THEN OnTaskFailed(e, s, FALSE) ELSE OnTaskCompleted(s)
        /\ UNCHANGED <<setup, job, sessions, owner, stage, poll, code, crashes, interventions,
                       succeeded>>

\* A running task without a session and, once it has been stamped, without a live
\* Job: failed.
SweepBuriesZombie(e) ==
    /\ sweep[e] = {0} /\ 0 \notin claims
    /\ podMode => job # "active"
    /\ claims' = claims \cup {0}
    /\ sweep' = [sweep EXCEPT ![e] = {}]
    /\ OnTaskFailed(e, 0, FALSE)
    /\ UNCHANGED <<setup, job, sessions, owner, stage, poll, code, crashes, interventions,
                   succeeded>>

ClaimExpires(s) ==
    /\ s \in claims
    /\ claims' = claims \ {s}
    /\ UNCHANGED <<setup, record, job, engineVars, sweep, crashes, interventions, history>>

\* The leader's sweep finds a session it tracks past the task's timeout and kills its worker:
\* the poll is cleared, though a read of it may be in flight, and the Job deleted.
\* The session stays tracked.
TimeoutKills(s) ==
    /\ regime = "timed" /\ podMode /\ owner[s] = leader
    /\ stage[s] = "watch" /\ poll[s] = "on"
    /\ \E inFlight \in {"off", "last"} : poll' = [poll EXCEPT ![s] = inFlight]
    /\ job' = "gone"
    /\ UNCHANGED <<setup, record, sessions, owner, stage, code, timers, sweep, claims, crashes,
                   interventions, history>>

-----------------------------------------------------------------------------
(* The tools *)

\* await_graph_event, when it times out: it asks the Job and reports, claiming nothing.
WatcherReports(e) ==
    /\ regime = "watched"
    /\ status = "running" /\ session # 0 /\ job # "active"
    /\ IF job = "failed" THEN OnTaskFailed(e, session, FALSE) ELSE OnTaskCompleted(session)
    /\ UNCHANGED <<setup, job, sessions, owner, stage, poll, code, sweep, claims, crashes,
                   interventions, succeeded>>

\* killWorker on engine e: by the session's handle if e spawned it, which clears the
\* poll, else by the name of the Job.
KillWorker(e) ==
    /\ job' = "gone"
    /\ \E inFlight \in {"off", "last"} :
          poll' = [s \in Sessions |-> IF s = session /\ owner[s] = e /\ poll[s] = "on"
                                      THEN inFlight ELSE poll[s]]

Intervene ==
    /\ Disturbances < MaxDisturbances
    /\ interventions' = interventions + 1

\* kill_task
KillTask(e) ==
    /\ Intervene
    /\ status = "running" /\ session # 0
    /\ KillWorker(e)
    /\ OnTaskFailed(e, session, FALSE)
    /\ UNCHANGED <<setup, sessions, owner, stage, code, sweep, claims, crashes, succeeded>>

\* cancelGraph: a worker is killed only if its session has been stamped.
CancelGraph(e) ==
    /\ Intervene
    /\ status \notin Terminal
    /\ status' = "canceled"
    /\ timers' = timers \ {e}
    /\ IF status = "running" /\ session # 0 THEN KillWorker(e) ELSE UNCHANGED <<job, poll>>
    /\ UNCHANGED <<setup, session, retries, podMode, sessions, owner, stage, code, sweep,
                   claims, crashes, history>>

\* retryTask; the bound leaves the task the sessions of its retries, and one too many.
RetryTask(e) ==
    /\ Intervene /\ sessions + maxRetries + 1 < MaxSessions
    /\ status \in {"failed", "canceled"}
    /\ retries' = 0
    /\ Dispatch(e)
    /\ UNCHANGED <<setup, podMode, job, poll, code, timers, sweep, claims, crashes, history>>

\* The engine restarts without its sessions, timers and sweep.
Crash(e) ==
    /\ Disturbances < MaxDisturbances
    /\ crashes' = crashes + 1
    /\ LET lost == {s \in Sessions : owner[s] = e /\ stage[s] # "none"}
       IN  /\ stage' = [s \in Sessions |-> IF s \in lost THEN "over" ELSE stage[s]]
           /\ poll' = [s \in Sessions |-> IF s \in lost THEN "off" ELSE poll[s]]
           /\ code' = [s \in Sessions |-> IF s \in lost THEN 0 ELSE code[s]]
    /\ timers' = timers \ {e}
    /\ sweep' = [sweep EXCEPT ![e] = {}]
    /\ UNCHANGED <<setup, record, job, sessions, owner, claims, interventions, history>>

\* The leader's lease runs out and another engine takes it; a sweep under way goes on.
Failover ==
    /\ Disturbances < MaxDisturbances
    /\ failovers' = failovers + 1
    /\ leader' \in Engines \ {leader}
    /\ UNCHANGED <<settings, record, job, engineVars, sweep, claims, crashes, interventions,
                   history>>

-----------------------------------------------------------------------------
SessionStep(s) ==
    \/ DeleteStaleJob(s) \/ CreateJob(s) \/ Stamp(s)
    \/ PollFires(s) \/ PollStops(s) \/ Report(s)

SweepJudges(e) ==
    \/ SweepPasses(e) \/ SweepBuriesZombie(e)
    \/ \E s \in Sessions : SweepFinalizes(e, s)

Operator(e) == KillTask(e) \/ CancelGraph(e) \/ RetryTask(e)

Next ==
    \/ JobEnds \/ JobExpires \/ Failover
    \/ \E s \in Sessions : SessionStep(s) \/ SpawnFails(s) \/ TimeoutKills(s)
    \/ \E s \in Sessions \cup {0} : ClaimExpires(s)
    \/ \E e \in Engines : \/ RetryTimerFires(e) \/ SweepLooks(e) \/ SweepJudges(e)
                          \/ WatcherReports(e) \/ Operator(e) \/ Crash(e)

Spec == Init /\ [][Next]_vars

\* What an engine has begun it goes on with: awaits return, polls and timers fire, the
\* sweep comes round, Redis expires claims.  Workers, operators, watchers, timeouts
\* and crashes owe nothing.
Fairness ==
    /\ \A s \in Sessions : /\ WF_vars(SessionStep(s))
                           /\ WF_vars(stage[s] = "recreate" /\ job # "gone" /\ SpawnFails(s))
    /\ \A s \in Sessions \cup {0} : WF_vars(ClaimExpires(s))
    /\ \A e \in Engines : /\ WF_vars(RetryTimerFires(e))
                          /\ WF_vars(SweepLooks(e)) /\ WF_vars(SweepJudges(e))

FairSpec == Spec /\ Fairness

-----------------------------------------------------------------------------
(* Properties *)

TypeOK ==
    /\ maxRetries \in RetryBudgets /\ exec \in BOOLEAN /\ regime \in Regimes
    /\ leader \in Engines /\ Disturbances <= MaxDisturbances
    /\ status \in {"pending", "running"} \cup Terminal
    /\ session \in 0 .. sessions /\ retries \in 0 .. maxRetries /\ podMode \in BOOLEAN
    /\ job \in {"gone", "active", "succeeded", "failed"}
    /\ sessions \in Sessions
    /\ owner \in [Sessions -> Engines] /\ stage \in [Sessions -> Stages]
    /\ poll \in [Sessions -> {"on", "off", "last"}] /\ code \in [Sessions -> {0, 1}]
    /\ timers \subseteq Engines /\ claims \subseteq Sessions \cup {0}
    /\ sweep \in [Engines -> SUBSET (Sessions \cup {0})]
    /\ {crashes, failovers, interventions} \subseteq Nat
    /\ succeeded \in BOOLEAN /\ charged \in [Sessions -> Nat]

\* The end of a worker does not stay unnoticed: the poll of the engine that spawned it
\* or, through crashes and failovers, the leader's sweep ends the task's run.
EndIsNoticed ==
    (status = "running" /\ job # "active") ~> (status # "running" \/ job = "active")

\* So it is for a task without a timeoutMs.
EndIsNoticedUntimed ==
    (regime # "timed" /\ status = "running" /\ job # "active")
        ~> (status # "running" \/ job = "active")

\* An automatic retry waits for its timer and then runs, unless the engine that holds
\* the timer crashes.
RetryHappens == (status = "pending") ~> (status # "pending" \/ crashes > 0)

\* Issue #318: the task of a validation pod is completed only when a Job of it has
\* succeeded; a verdict nobody saw counts as a failure.
ExecFailsClosed == exec /\ status = "completed" => succeeded

\* It is when nobody waits in await_graph_event.
ExecFailsClosedUnwatched == regime # "watched" => ExecFailsClosed

\* A task that has ended starts again only by retry_task, or by the stamp of a
\* dispatch that was under way when it ended.
EndHolds ==
    [][(status \in Terminal /\ status' # status)
        => (status' = "running" /\ (Intervene \/ \E s \in Sessions : stage[s] = "stamp"))]_vars

\* One failure of a worker counts once, whichever of poll, sweep and watcher see it.
FailureCountsOnce == \A s \in Sessions : charged[s] <= 1

\* It does for a task without retries that no operator touches.
FailureCountsOnceAlone == maxRetries = 0 /\ interventions = 0 => FailureCountsOnce
=============================================================================
