----------------------------- MODULE TaskTelemetry -----------------------------
(***************************************************************************)
(* What an engine's telemetry shows of the tasks it drives: the registry   *)
(* behind the gauges of queued and running tasks, the tasks' spans         *)
(* (telemetry/domain/task.ts) and the yields (telemetry/domain/yield.ts).  *)
(*                                                                         *)
(* The handler of an event looks at it first (the anomaly detector, the    *)
(* task's record) and records it then, while other handlers and the        *)
(* dispatches go on.  The tasks are of one graph: those of two graphs that *)
(* bear one id share an entry and a span.                                  *)
(***************************************************************************)
EXTENDS Naturals

CONSTANTS
    GaugedTasks,   \* the tasks
    MaxRuns        \* bound: dispatches of each

ASSUME TelemetryAssumption == MaxRuns \in Nat \ {0}

VARIABLES
    taskStage,  \* task -> its status ("pending" also while it waits for a retry)
    run,        \* task -> its dispatches begun
    underway,   \* <<task, run>> of the dispatches that are not over
    news,       \* the events whose handlers are under way
    taskRegistry, \* task -> "none", "ready" or "in_flight"
    activeSpan, \* task -> the run whose span is kept under it, or 0
    openSpans,  \* <<task, run>> of the spans begun and not ended
    activeYields,
    superseded   \* history: tasks that went on before the last was recorded of them

stateVars == <<taskStage, run, underway>>
telemetryVars == <<stateVars, news, taskRegistry, activeSpan, openSpans, activeYields, superseded>>

TelemetryInit ==
    /\ taskStage = [t \in GaugedTasks |-> "pending"] /\ run = [t \in GaugedTasks |-> 0]
    /\ underway = {} /\ news = {}
    /\ taskRegistry = [t \in GaugedTasks |-> "none"]
    /\ activeSpan = [t \in GaugedTasks |-> 0] /\ openSpans = {}
    /\ activeYields = {} /\ superseded = {}

Notice(t, type) == [task |-> t, run |-> run[t], type |-> type]
About(t) == {n \in news : n.task = t}

-----------------------------------------------------------------------------
(* What happens to a task, and the event there is of it *)

StageMoves(t, from, to) == taskStage[t] \in from /\ taskStage' = [taskStage EXCEPT ![t] = to]
Unrecorded == UNCHANGED <<taskRegistry, activeSpan, openSpans, activeYields, superseded>>
Silently == UNCHANGED news
Telling(t, type) == news' = news \cup {Notice(t, type)}

\* Only the first time there is an event of it, unless an approval is asked for.
BecomesReady(t) ==
    /\ StageMoves(t, {"pending"}, "ready")
    /\ Silently \/ (run[t] = 0 /\ Telling(t, "ready"))
    /\ UNCHANGED <<run, underway>> /\ Unrecorded

\* The task is running, by its record, from the beginning of its dispatch, which begins when
\* the event of its readiness has been handled.
StartsDispatch(t) ==
    /\ run[t] < MaxRuns
    /\ \A n \in About(t) : n.type # "ready"
    /\ StageMoves(t, {"ready"}, "running")
    /\ run' = [run EXCEPT ![t] = @ + 1]
    /\ underway' = underway \cup {<<t, run[t] + 1>>}
    /\ Silently /\ Unrecorded

WorkCompletes(t) ==
    /\ StageMoves(t, {"running"}, "completed") /\ Telling(t, "completed")
    /\ UNCHANGED <<run, underway>> /\ Unrecorded

\* A failure that is retried makes no event.
WorkFails(t) ==
    /\ \/ StageMoves(t, {"running"}, "pending") /\ Silently
       \/ StageMoves(t, {"running"}, "failed") /\ Telling(t, "failed")
    /\ UNCHANGED <<run, underway>> /\ Unrecorded

\* A dispatch that fails gives the task up, or has it retried.
DispatchFails(t, r) ==
    /\ <<t, r>> \in underway /\ underway' = underway \ {<<t, r>>}
    /\ IF taskStage[t] # "running" THEN UNCHANGED <<taskStage, news>>
       ELSE \/ StageMoves(t, {"running"}, "pending") /\ Silently
            \/ StageMoves(t, {"running"}, "failed") /\ Telling(t, "failed")
    /\ UNCHANGED run /\ Unrecorded

\* A cancelation, of the graph or in the wake of a failure, makes no event of the task.
TaskCanceled(t) ==
    /\ StageMoves(t, {"pending", "ready", "running", "yielded"}, "canceled") /\ Silently
    /\ UNCHANGED <<run, underway>> /\ Unrecorded

TaskRetried(t) ==
    /\ StageMoves(t, {"failed", "canceled", "yielded"}, "pending") /\ Silently
    /\ UNCHANGED <<run, underway>> /\ Unrecorded

TaskYields(t) ==
    /\ StageMoves(t, {"running"}, "yielded") /\ Telling(t, "yielded")
    /\ UNCHANGED <<run, underway>> /\ Unrecorded

\* The escalation resolves a yield, be it before the worker has gone.
YieldAutoResolved(t) ==
    /\ StageMoves(t, {"yielded", "running"}, "ready") /\ Telling(t, "resolved")
    /\ UNCHANGED <<run, underway>> /\ Unrecorded

\* Those it waits for have completed: no event.
YieldResolved(t) ==
    /\ StageMoves(t, {"yielded"}, "ready") /\ Silently
    /\ UNCHANGED <<run, underway>> /\ Unrecorded

-----------------------------------------------------------------------------
(* What is recorded *)

\* The span begun for an earlier run is forgotten, not ended.
OnTaskStarted(t, r) ==
    /\ activeSpan' = [activeSpan EXCEPT ![t] = r]
    /\ openSpans' = openSpans \cup {<<t, r>>}

CloseSpan(t) ==
    /\ openSpans' = openSpans \ {<<t, activeSpan[t]>>}
    /\ activeSpan' = [activeSpan EXCEPT ![t] = 0]

Enter(t, state) == taskRegistry' = [taskRegistry EXCEPT ![t] = state]
Outrun(t, is) == superseded' = IF is THEN superseded \cup {t} ELSE superseded

\* The dispatch is over: the record says running, whatever it has become.
DispatchOver(t, r) ==
    /\ <<t, r>> \in underway /\ underway' = underway \ {<<t, r>>}
    /\ Outrun(t, taskStage[t] # "running" \/ run[t] # r)
    /\ taskStage' = [taskStage EXCEPT ![t] = "running"]
    /\ OnTaskStarted(t, r) /\ Enter(t, "in_flight")
    /\ UNCHANGED <<run, news, activeYields>>

Handled(n) == news' = news \ {n} /\ Outrun(n.task, n.run # run[n.task])

HandleReady(n) ==
    /\ n.type = "ready" /\ Handled(n) /\ Enter(n.task, "ready")
    /\ UNCHANGED <<stateVars, activeSpan, openSpans, activeYields>>

HandleCompleted(n) ==
    /\ n.type = "completed" /\ Handled(n) /\ CloseSpan(n.task) /\ Enter(n.task, "none")
    /\ UNCHANGED <<stateVars, activeYields>>

\* Mutant: the entry of a failed task is kept.
HandleFailed_Keeps(n) ==
    /\ n.type = "failed" /\ Handled(n) /\ CloseSpan(n.task)
    /\ UNCHANGED <<stateVars, taskRegistry, activeYields>>

HandleFailed(n) ==
    /\ n.type = "failed" /\ Handled(n) /\ CloseSpan(n.task) /\ Enter(n.task, "none")
    /\ UNCHANGED <<stateVars, activeYields>>

OnYieldStarted(t) == activeYields' = activeYields \cup {t}
OnYieldResolved(t) == activeYields' = activeYields \ {t}

\* The span stays open: the run is to be resumed.
HandleYielded(n) ==
    /\ n.type = "yielded" /\ Handled(n) /\ OnYieldStarted(n.task) /\ Enter(n.task, "none")
    /\ UNCHANGED <<stateVars, activeSpan, openSpans>>

HandleResolved(n) ==
    /\ n.type = "resolved" /\ Handled(n) /\ OnYieldResolved(n.task)
    /\ UNCHANGED <<stateVars, taskRegistry, activeSpan, openSpans>>

TelemetryNext ==
    \/ \E t \in GaugedTasks :
          \/ BecomesReady(t) \/ StartsDispatch(t) \/ WorkCompletes(t) \/ WorkFails(t)
          \/ TaskCanceled(t) \/ TaskRetried(t) \/ TaskYields(t)
          \/ YieldAutoResolved(t) \/ YieldResolved(t)
    \/ \E d \in underway : DispatchOver(d[1], d[2]) \/ DispatchFails(d[1], d[2])
    \/ \E n \in news :
          \/ HandleReady(n) \/ HandleCompleted(n) \/ HandleFailed(n)
          \/ HandleYielded(n) \/ HandleResolved(n)

-----------------------------------------------------------------------------
(* Properties *)

\* The gauges count the entries in each state.
ShownAs(state) == {t \in GaugedTasks : taskRegistry[t] = state}

\* Once the events of a task have been recorded, the gauges show it as it is: as running from
\* its start to its end, a wait for a retry included; as nothing once it has completed or
\* failed, when the span of its last run has ended; and a yielded one as yielding.  A canceled
\* task is shown as it was, for nothing is told of it, and nothing is claimed of one that went
\* on (a retry, a kill under its dispatch) before the last was recorded of it.
TasksAreShown ==
    \A t \in GaugedTasks \ superseded : About(t) = {} =>
        /\ t \in ShownAs("in_flight") =>
              taskStage[t] \in {"running", "pending", "ready", "canceled"}
        /\ taskStage[t] = "running" /\ <<t, run[t]>> \notin underway => t \in ShownAs("in_flight")
        /\ taskStage[t] \in {"completed", "failed"} =>
              t \notin ShownAs("ready") \cup ShownAs("in_flight") /\ <<t, run[t]>> \notin openSpans
        /\ taskStage[t] = "yielded" => t \in activeYields
================================================================================
