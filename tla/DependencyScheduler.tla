------------------------- MODULE DependencyScheduler -------------------------
(***************************************************************************)
(* What the task graph engine promises, whatever its handlers, retries,    *)
(* yields and tools do: tasks come to an end of success one at a time and  *)
(* for good, only while they run, and a task starts to run only when all   *)
(* it needs has so ended and a slot is free.                               *)
(***************************************************************************)
EXTENDS Naturals, FiniteSets

CONSTANTS Tasks,  \* the task ids
          Needs,  \* task -> the tasks that must be done before it runs
          Slots   \* how many may run at once; 0 for no limit

VARIABLES done, active

Init == done = {} /\ active = {}

\* Whatever stops may stop; what starts must have all it needs, and a start must
\* leave no more than Slots tasks running.
Reschedule(finished) ==
    \A t \in active' \ active :
        /\ Needs[t] \subseteq finished
        /\ t \notin finished
        /\ Slots # 0 => Cardinality(active') <= Slots

\* Only a running task becomes done, and it stops running.
Finish(t) ==
    /\ t \in active \ done
    /\ done' = done \cup {t}
    /\ active' \in SUBSET (Tasks \ {t})
    /\ Reschedule(done')

Shift ==
    /\ done' = done
    /\ active' \in SUBSET Tasks
    /\ Reschedule(done)

Next == Shift \/ \E t \in Tasks : Finish(t)

Spec == Init /\ [][Next]_<<done, active>>
=============================================================================
