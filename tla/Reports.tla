------------------------------ MODULE Reports ------------------------------
(***************************************************************************)
(* What is made of a worker's end, and what the dependents of its task are *)
(* told: the exit handler and its grace period (process-monitor.ts), the   *)
(* callbacks that synthesize a handoff or judge a failure (mcp-server.ts,  *)
(* handoff-synthesis.ts, retry-policy.ts), set_handoff, and the dispatch   *)
(* that reads the handoffs (handoff.ts, graph-dispatch.ts).                *)
(*                                                                         *)
(* A task depends on the tasks of Feeders, which may be retried.  A sweep  *)
(* of another engine may report an end as well; it synthesizes nothing and *)
(* asks no policy.  Time passes in ticks, the age of a call and the time   *)
(* left of a grace period are counted in them.                             *)
(***************************************************************************)
EXTENDS Integers

CONSTANTS
    Feeders,    \* the tasks
    FeederRetries, \* the retries of each
    Latency,    \* the longest a call of a worker takes
    Grace,      \* how long the exit handler waits for such calls
    MaxMonitorRestarts \* bound: restarts of the engine

ASSUME ReportsAssumption ==
    /\ {FeederRetries, Latency, Grace, MaxMonitorRestarts} \subseteq Nat
    /\ Latency < Grace

Runs == 1 .. FeederRetries + 1
Workers == Feeders \X Runs
NoHandoff == [kind |-> "none", of |-> 0]
NotCalled == -1
Served == Latency + 1

VARIABLES
    state,     \* task -> its status
    retried,   \* task -> .retries
    process,   \* worker -> "none", "running" or how it ended (Ends)
    handoffCall, \* worker -> the age of its call of set_handoff
    handoff,   \* task -> the handoff stored, and the run it is of
    handling,  \* worker -> where the handler of its exit is
    left,      \* worker -> what is left of that handler's grace period
    told,      \* task -> what the dependent was told of it
    asked,     \* the dependent has been dispatched
    monitorRestarts,
    swept      \* history: the tasks of which a sweep has reported an end

tasksVars == <<state, retried>>
workersVars == <<process, handoffCall>>
handlerVars == <<handling, left>>
dependentVars == <<told, asked>>
reportVars ==
    <<tasksVars, workersVars, handoff, handlerVars, dependentVars, monitorRestarts, swept>>

ReportsInit ==
    /\ state = [t \in Feeders |-> "running"]
    /\ retried = [t \in Feeders |-> 0]
    /\ process = [w \in Workers |-> IF w[2] = 1 THEN "running" ELSE "none"]
    /\ handoffCall = [w \in Workers |-> NotCalled]
    /\ handoff = [t \in Feeders |-> NoHandoff]
    /\ handling = [w \in Workers |-> IF w[2] = 1 THEN "tracked" ELSE "none"]
    /\ left = [w \in Workers |-> 0]
    /\ told = [t \in Feeders |-> NoHandoff] /\ asked = FALSE
    /\ monitorRestarts = 0 /\ swept = {}

-----------------------------------------------------------------------------
(* The worker *)

InFlight(w) == handoffCall[w] \in 0 .. Latency
Live(w) == process[w] = "running"

\* The worker calls set_handoff, and may exit before the call is served.
CallHandoff(w) ==
    /\ Live(w) /\ handoffCall[w] = NotCalled
    /\ handoffCall' = [handoffCall EXCEPT ![w] = 0]
    /\ UNCHANGED <<tasksVars, process, handoff, handlerVars, dependentVars, monitorRestarts, swept>>

\* set_handoff overwrites what is there.
SetHandoff(w) ==
    /\ InFlight(w)
    /\ handoffCall' = [handoffCall EXCEPT ![w] = Served]
    /\ handoff' = [handoff EXCEPT ![w[1]] = [kind |-> "real", of |-> w[2]]]
    /\ UNCHANGED <<tasksVars, process, handlerVars, dependentVars, monitorRestarts, swept>>

\* The exit code is 0 or 1; with 1 the peer record may have the phase done, or else the log
\* may show an error that no retry mends.
Ends == {"zero", "done", "one", "fatal"}
End(w) ==
    /\ Live(w)
    /\ \E end \in Ends : process' = [process EXCEPT ![w] = end]
    /\ UNCHANGED <<tasksVars, handoffCall, handoff, handlerVars, dependentVars, monitorRestarts, swept>>

Over(w) == process[w] \in Ends

-----------------------------------------------------------------------------
(* The task graph's part *)

\* onTaskCompleted: ignored when the task has ended; while it waits for a retry the transition
\* throws.
ReportCompleted(t) ==
    /\ state' = [state EXCEPT ![t] = IF @ = "running" THEN "completed" ELSE @]
    /\ UNCHANGED retried

\* onTaskFailed.  A pending task that fails again has a retry counted again.
ReportFailed(t, skipRetry) ==
    IF state[t] \in {"completed", "failed"} THEN UNCHANGED tasksVars
    ELSE IF ~skipRetry /\ retried[t] < FeederRetries
         THEN /\ state' = [state EXCEPT ![t] = "pending"]
              /\ retried' = [retried EXCEPT ![t] = @ + 1]
         ELSE /\ state' = [state EXCEPT ![t] = IF @ = "running" THEN "failed" ELSE @]
              /\ UNCHANGED retried

\* The retry, by its timer or by an operator: a new worker, which this engine tracks.
Retry(w) ==
    /\ state[w[1]] = "pending"
    /\ w[2] > 1 /\ process[w] = "none" /\ process[<<w[1], w[2] - 1>>] # "none"
    /\ state' = [state EXCEPT ![w[1]] = "running"]
    /\ process' = [process EXCEPT ![w] = "running"]
    /\ handling' = [handling EXCEPT ![w] = "tracked"]
    /\ UNCHANGED <<retried, handoffCall, handoff, left, dependentVars, monitorRestarts, swept>>

-----------------------------------------------------------------------------
(* The exit handler *)

HandlerMoves(w, here, next) ==
    /\ handling[w] = here
    /\ handling' = [handling EXCEPT ![w] = next]

\* handleExit: the entry stays until the grace period is over.
HandleExit(w) ==
    /\ Over(w) /\ HandlerMoves(w, "tracked", "grace")
    /\ left' = [left EXCEPT ![w] = Grace]
    /\ UNCHANGED <<tasksVars, workersVars, handoff, dependentVars, monitorRestarts, swept>>

\* A clean exit, or the phase done, is a completion.
InferDeathOutcome(w) == IF process[w] \in {"zero", "done"} THEN "completed" ELSE "failed"

\* Mutant: the exit is judged as soon as it is seen.
AfterGrace_AtOnce(w) ==
    /\ HandlerMoves(w, "grace", InferDeathOutcome(w))
    /\ UNCHANGED <<tasksVars, workersVars, handoff, left, dependentVars, monitorRestarts, swept>>

AfterGrace(w) ==
    /\ left[w] = 0
    /\ HandlerMoves(w, "grace", InferDeathOutcome(w))
    /\ UNCHANGED <<tasksVars, workersVars, handoff, left, dependentVars, monitorRestarts, swept>>

\* One that the agent itself has set is not replaced, be it of an earlier run.
ShouldSynthesizeFallback(existing) == existing.kind # "real"

\* onCompleted reads the handoff ...
LookForHandoff(w) ==
    /\ HandlerMoves(w, "completed",
          IF ShouldSynthesizeFallback(handoff[w[1]]) THEN "synthesize" ELSE "notify")
    /\ UNCHANGED <<tasksVars, workersVars, handoff, left, dependentVars, monitorRestarts, swept>>

\* ... and stores the fallback, which it makes of the log and of some git commands.
SynthesizeHandoff(w) ==
    /\ HandlerMoves(w, "synthesize", "notify")
    /\ handoff' = [handoff EXCEPT ![w[1]] = [kind |-> "synthesized", of |-> w[2]]]
    /\ UNCHANGED <<tasksVars, workersVars, left, dependentVars, monitorRestarts, swept>>

NotifyCompleted(w) ==
    /\ HandlerMoves(w, "notify", "over")
    /\ ReportCompleted(w[1])
    /\ UNCHANGED <<workersVars, handoff, left, dependentVars, monitorRestarts, swept>>

\* RetryPolicy: exit code 1 is retried, unless the log shows an error that no retry mends.  The
\* count of retries that the policy would look at is never set.
ShouldRetry(w) == process[w] # "fatal"

\* onFailed: an error that no retry mends is final, and so is one in a storm of failures, which
\* other tasks of the graph make.
NotifyFailed(w) ==
    /\ HandlerMoves(w, "failed", "over")
    /\ \E storm \in BOOLEAN : ReportFailed(w[1], storm \/ ~ShouldRetry(w))
    /\ UNCHANGED <<workersVars, handoff, left, dependentVars, monitorRestarts, swept>>

-----------------------------------------------------------------------------
(* The sweep, the dependent's dispatch, time and restarts *)

\* The sweep of an engine that does not track the worker takes the Job's word, which does not
\* know the phase.
SweepReports(w) ==
    /\ Over(w) /\ state[w[1]] = "running" /\ retried[w[1]] + 1 = w[2]
    /\ IF process[w] = "zero" THEN ReportCompleted(w[1]) ELSE ReportFailed(w[1], FALSE)
    /\ swept' = swept \cup {w[1]}
    /\ UNCHANGED <<workersVars, handoff, handlerVars, dependentVars, monitorRestarts>>

\* buildPromptContext: the handoffs of the tasks depended on, where there are any.
DispatchDependent ==
    /\ ~asked /\ \A t \in Feeders : state[t] = "completed"
    /\ asked' = TRUE /\ told' = handoff
    /\ UNCHANGED <<tasksVars, workersVars, handoff, handlerVars, monitorRestarts, swept>>

\* No call takes longer than Latency.
ReportsTick ==
    /\ \A w \in Workers : handoffCall[w] # Latency
    /\ handoffCall' = [w \in Workers |-> IF InFlight(w) THEN handoffCall[w] + 1 ELSE handoffCall[w]]
    /\ left' = [w \in Workers |-> IF left[w] > 0 THEN left[w] - 1 ELSE 0]
    /\ UNCHANGED <<tasksVars, process, handoff, handling, dependentVars, monitorRestarts, swept>>

\* The handlers and what they track are in memory.
MonitorRestarts ==
    /\ monitorRestarts < MaxMonitorRestarts /\ monitorRestarts' = monitorRestarts + 1
    /\ handling' = [w \in Workers |-> IF handling[w] = "none" THEN "none" ELSE "over"]
    /\ UNCHANGED <<tasksVars, workersVars, handoff, left, dependentVars, swept>>

ReportsNext ==
    \/ \E w \in Workers :
          \/ CallHandoff(w) \/ SetHandoff(w) \/ End(w) \/ Retry(w)
          \/ HandleExit(w) \/ AfterGrace(w) \/ LookForHandoff(w) \/ SynthesizeHandoff(w)
          \/ NotifyCompleted(w) \/ NotifyFailed(w) \/ SweepReports(w)
    \/ DispatchDependent \/ ReportsTick \/ MonitorRestarts

-----------------------------------------------------------------------------
(* Properties *)

\* The dependent is told something of every task it depends on, and what the worker that
\* completed the task said of it, if it said anything: its call may be on the way when it
\* exits.  A sweep that reports the end instead has nothing synthesized and waits for no call.
DependentsAreToldAlone ==
    asked => \A t \in Feeders \ swept :
        /\ told[t].kind # "none"
        /\ LET last == <<t, retried[t] + 1>>
           IN  handoffCall[last] # NotCalled => told[t] = [kind |-> "real", of |-> last[2]]
=============================================================================
