------------------------- MODULE WorkerLifecycle_proofs -------------------------
(***************************************************************************)
(* Proofs about WorkerLifecycle for any number of engines, attempts and    *)
(* retries, and any crashes, failovers and calls of the tools.             *)
(***************************************************************************)
EXTENDS WorkerLifecycle, TLAPS

\* What a session does begins with its dispatch, and sweeps judge sessions that were
\* dispatched.
Dispatched ==
    /\ \A s \in Sessions : stage[s] # "none" => s <= sessions
    /\ \A e \in Engines : sweep[e] \subseteq 0 .. sessions

\* Where a verdict of success comes from: the poll and the sweep take a Job that is gone
\* for a failure when the exit code is the verdict.
VerdictInv ==
    /\ job = "succeeded" => succeeded
    /\ \A s \in Sessions : exec /\ stage[s] = "grace" /\ code[s] = 0 => succeeded
    /\ ExecFailsClosedUnwatched

\* A session that has not been stamped is not in the record and no sweep knows it.
Unstamped(s) == stage[s] \in {"none", "create", "recreate", "stamp"}

\* Without retries and operators there is one session; once its failure has been
\* charged the task has ended, and no stamp is left that could revive it.
ChargeInv ==
    maxRetries = 0 /\ interventions = 0 =>
      /\ sessions = 1 /\ status # "pending"
      /\ \A s \in Sessions :
            /\ s # 1 => stage[s] = "none"
            /\ charged[s] <= 1
            /\ charged[s] = 1 => status # "running" /\ ~Unstamped(s)
            /\ session = s => ~Unstamped(s)
            /\ \A e \in Engines : s \in sweep[e] => ~Unstamped(s)

WInv == TypeOK /\ Dispatched /\ VerdictInv /\ ChargeInv

-----------------------------------------------------------------------------
(* Types *)

LEMMA SessionsAreNumbers ==
    /\ Sessions \subseteq Nat \ {0} /\ 1 \in Sessions
    /\ \A n \in Sessions : n < MaxSessions => n + 1 \in Sessions
    /\ \A n \in Sessions : 0 .. n \subseteq Sessions \cup {0}
  BY LifecycleAssumption DEF Sessions

\* What the reports do to the record keeps its types.
LEMMA CompletedTypes ==
    ASSUME TypeOK, NEW s \in 0 .. sessions, OnTaskCompleted(s)
    PROVE  /\ status' \in {"pending", "running"} \cup Terminal
           /\ session' \in 0 .. sessions
           /\ retries' \in 0 .. maxRetries /\ podMode' \in BOOLEAN
           /\ timers' \subseteq Engines /\ charged' \in [Sessions -> Nat]
  BY DEF OnTaskCompleted, TypeOK, Terminal

LEMMA FailedTypes ==
    ASSUME TypeOK, NEW e \in Engines, NEW s \in 0 .. sessions, NEW skip \in BOOLEAN,
           OnTaskFailed(e, s, skip)
    PROVE  /\ status' \in {"pending", "running"} \cup Terminal
           /\ session' \in 0 .. sessions
           /\ retries' \in 0 .. maxRetries /\ podMode' \in BOOLEAN
           /\ timers' \subseteq Engines /\ charged' \in [Sessions -> Nat]
  <1>1. charged' = charged \/ charged' = [r \in Sessions |->
                                IF r = s THEN charged[r] + 1 ELSE charged[r]]
    BY DEF OnTaskFailed, Charge
  <1>2. charged' \in [Sessions -> Nat]
    BY <1>1 DEF TypeOK
  <1>3. maxRetries \in Nat /\ retries \in 0 .. maxRetries /\ 0 \in 0 .. sessions
    BY LifecycleAssumption, SessionsAreNumbers DEF TypeOK
  <1>4. retries' \in 0 .. maxRetries
    BY <1>3 DEF OnTaskFailed
  <1>. QED
    BY <1>2, <1>3, <1>4 DEF OnTaskFailed, TypeOK, Terminal

LEMMA StepTypes == TypeOK /\ Dispatched /\ [Next]_vars => TypeOK'
  <1> SUFFICES ASSUME TypeOK, Dispatched, [Next]_vars PROVE TypeOK'
    OBVIOUS
  <1> USE SessionsAreNumbers, LifecycleAssumption
      DEF TypeOK, Disturbances, Intervene, Goto, Stages
  <1>1. CASE JobEnds
    BY <1>1 DEF JobEnds, setup, settings, record, engineVars, history
  <1>2. CASE JobExpires
    BY <1>2 DEF JobExpires, setup, settings, record, engineVars, history
  <1>3. CASE Failover
    BY <1>3 DEF Failover, setup, settings, record, engineVars, history
  <1>4. ASSUME NEW s \in Sessions, DeleteStaleJob(s) PROVE TypeOK'
    BY <1>4 DEF DeleteStaleJob, setup, settings, record, engineVars, history
  <1>5. ASSUME NEW s \in Sessions, CreateJob(s) PROVE TypeOK'
    BY <1>5 DEF CreateJob, setup, settings, record, engineVars, history
  <1>6. ASSUME NEW s \in Sessions, Stamp(s) PROVE TypeOK'
    <2>1. s \in 0 .. sessions
      BY <1>6 DEF Stamp, Dispatched
    <2>. QED
      BY <1>6, <2>1 DEF Stamp, setup, settings, record, engineVars, history
  <1>7. ASSUME NEW s \in Sessions, PollFires(s) PROVE TypeOK'
    BY <1>7 DEF PollFires, setup, settings, record, engineVars, history
  <1>8. ASSUME NEW s \in Sessions, PollStops(s) PROVE TypeOK'
    BY <1>8 DEF PollStops, setup, settings, record, engineVars, history
  <1>9. ASSUME NEW s \in Sessions, Report(s) PROVE TypeOK'
    BY <1>9, CompletedTypes, FailedTypes DEF Report, Dispatched, setup, settings, record, engineVars, history
  <1>10. ASSUME NEW s \in Sessions, SpawnFails(s) PROVE TypeOK'
    <2>1. s \in 0 .. sessions /\ owner[s] \in Engines
      BY <1>10 DEF SpawnFails, Dispatched
    <2>3. OnTaskFailed(owner[s], s, FALSE)
      BY <1>10 DEF SpawnFails
    <2>2. /\ status' \in {"pending", "running"} \cup Terminal
          /\ session' \in 0 .. sessions
          /\ retries' \in 0 .. maxRetries /\ podMode' \in BOOLEAN
          /\ timers' \subseteq Engines /\ charged' \in [Sessions -> Nat]
      BY <2>1, <2>3, FailedTypes
    <2>. QED
      BY <1>10, <2>2 DEF SpawnFails, setup, settings, record, engineVars, history
  <1>11. ASSUME NEW s \in Sessions, TimeoutKills(s) PROVE TypeOK'
    BY <1>11 DEF TimeoutKills, setup, settings, record, engineVars, history
  <1>12. ASSUME NEW s \in Sessions \cup {0}, ClaimExpires(s) PROVE TypeOK'
    BY <1>12 DEF ClaimExpires, setup, settings, record, engineVars, history
  <1>13. ASSUME NEW e \in Engines, RetryTimerFires(e) PROVE TypeOK'
    BY <1>13 DEF RetryTimerFires, Dispatch, setup, settings, record, engineVars, history
  <1>14. ASSUME NEW e \in Engines, SweepLooks(e) PROVE TypeOK'
    BY <1>14 DEF SweepLooks, setup, settings, record, engineVars, history
  <1>15. ASSUME NEW e \in Engines, SweepPasses(e) PROVE TypeOK'
    BY <1>15 DEF SweepPasses, setup, settings, record, engineVars, history
  <1>16. ASSUME NEW e \in Engines, SweepBuriesZombie(e) PROVE TypeOK'
    <2>1. 0 \in 0 .. sessions
      OBVIOUS
    <2>3. OnTaskFailed(e, 0, FALSE)
      BY <1>16 DEF SweepBuriesZombie
    <2>2. /\ status' \in {"pending", "running"} \cup Terminal
          /\ session' \in 0 .. sessions
          /\ retries' \in 0 .. maxRetries /\ podMode' \in BOOLEAN
          /\ timers' \subseteq Engines /\ charged' \in [Sessions -> Nat]
      BY <2>1, <2>3, FailedTypes
    <2>. QED
      BY <1>16, <2>2 DEF SweepBuriesZombie, setup, settings, record, engineVars, history
  <1>17. ASSUME NEW e \in Engines, NEW s \in Sessions, SweepFinalizes(e, s) PROVE TypeOK'
    <2>1. s \in 0 .. sessions /\ (OnTaskFailed(e, s, FALSE) \/ OnTaskCompleted(s))
      BY <1>17 DEF SweepFinalizes, Dispatched
    <2>2. /\ status' \in {"pending", "running"} \cup Terminal
          /\ session' \in 0 .. sessions
          /\ retries' \in 0 .. maxRetries /\ podMode' \in BOOLEAN
          /\ timers' \subseteq Engines /\ charged' \in [Sessions -> Nat]
      BY <2>1, FailedTypes, CompletedTypes
    <2>3. claims' \subseteq Sessions \cup {0} /\ sweep' \in [Engines -> SUBSET (Sessions \cup {0})]
      BY <1>17 DEF SweepFinalizes
    <2>. QED
      BY <1>17, <2>2, <2>3 DEF SweepFinalizes, setup, settings, record, engineVars, history
  <1>18. ASSUME NEW e \in Engines, WatcherReports(e) PROVE TypeOK'
    BY <1>18, CompletedTypes, FailedTypes DEF WatcherReports, setup, settings, record, engineVars, history
  <1>19. ASSUME NEW e \in Engines, KillTask(e) PROVE TypeOK'
    <2>1. session \in 0 .. sessions /\ OnTaskFailed(e, session, FALSE)
      BY <1>19 DEF KillTask
    <2>2. /\ status' \in {"pending", "running"} \cup Terminal
          /\ session' \in 0 .. sessions
          /\ retries' \in 0 .. maxRetries /\ podMode' \in BOOLEAN
          /\ timers' \subseteq Engines /\ charged' \in [Sessions -> Nat]
      BY <2>1, FailedTypes
    <2>3. poll' \in [Sessions -> {"on", "off", "last"}] /\ job' = "gone"
      BY <1>19 DEF KillTask, KillWorker
    <2>4. interventions' = interventions + 1 /\ interventions' \in Nat
          /\ Disturbances' <= MaxDisturbances
      BY <1>19 DEF KillTask, setup
    <2>. QED
      BY <1>19, <2>2, <2>3, <2>4 DEF KillTask, setup, settings, record, engineVars, history
  <1>20. ASSUME NEW e \in Engines, CancelGraph(e) PROVE TypeOK'
    <2>1. poll' \in [Sessions -> {"on", "off", "last"}] /\ (job' = job \/ job' = "gone")
      <3>1. CASE KillWorker(e)
        BY <3>1 DEF KillWorker
      <3>2. CASE UNCHANGED <<job, poll>>
        BY <3>2
      <3>. QED
        BY <1>20, <3>1, <3>2 DEF CancelGraph
    <2>2. interventions' = interventions + 1 /\ interventions' \in Nat
          /\ Disturbances' <= MaxDisturbances
      BY <1>20 DEF CancelGraph, setup
    <2>3. status' \in Terminal /\ timers' \subseteq Engines
      BY <1>20 DEF CancelGraph, Terminal
    <2>. QED
      BY <1>20, <2>1, <2>2, <2>3 DEF CancelGraph, setup, settings, record, engineVars, history
  <1>21. ASSUME NEW e \in Engines, RetryTask(e) PROVE TypeOK'
    BY <1>21 DEF RetryTask, Dispatch, setup, settings, record, engineVars, history
  <1>22. ASSUME NEW e \in Engines, Crash(e) PROVE TypeOK'
    BY <1>22 DEF Crash, setup, settings, record, engineVars, history
  <1>23. CASE UNCHANGED vars
    BY <1>23 DEF vars, setup, settings, record, engineVars, history
  <1>. QED
    BY <1>1, <1>2, <1>3, <1>4, <1>5, <1>6, <1>7, <1>8, <1>9, <1>10, <1>11, <1>12, <1>13,
       <1>14, <1>15, <1>16, <1>17, <1>18, <1>19, <1>20, <1>21, <1>22, <1>23
       DEF Next, SessionStep, SweepJudges, Operator

LEMMA StepDispatched == TypeOK /\ Dispatched /\ [Next]_vars => Dispatched'
  <1> SUFFICES ASSUME TypeOK, Dispatched, [Next]_vars PROVE Dispatched'
    OBVIOUS
  <1> USE SessionsAreNumbers DEF TypeOK, Dispatched, Goto
  <1>1. CASE JobEnds
    BY <1>1 DEF JobEnds, setup, settings, record, engineVars, history
  <1>2. CASE JobExpires
    BY <1>2 DEF JobExpires, setup, settings, record, engineVars, history
  <1>3. CASE Failover
    BY <1>3 DEF Failover, setup, settings, record, engineVars, history
  <1>4. ASSUME NEW s \in Sessions, DeleteStaleJob(s) PROVE Dispatched'
    BY <1>4 DEF DeleteStaleJob, setup, settings, record, engineVars, history
  <1>5. ASSUME NEW s \in Sessions, CreateJob(s) PROVE Dispatched'
    BY <1>5 DEF CreateJob, setup, settings, record, engineVars, history
  <1>6. ASSUME NEW s \in Sessions, Stamp(s) PROVE Dispatched'
    BY <1>6 DEF Stamp, setup, settings, record, engineVars, history
  <1>7. ASSUME NEW s \in Sessions, PollFires(s) PROVE Dispatched'
    BY <1>7 DEF PollFires, setup, settings, record, engineVars, history
  <1>8. ASSUME NEW s \in Sessions, PollStops(s) PROVE Dispatched'
    BY <1>8 DEF PollStops, setup, settings, record, engineVars, history
  <1>9. ASSUME NEW s \in Sessions, Report(s) PROVE Dispatched'
    BY <1>9 DEF Report, setup, settings, record, engineVars, history
  <1>10. ASSUME NEW s \in Sessions, SpawnFails(s) PROVE Dispatched'
    BY <1>10 DEF SpawnFails, setup, settings, record, engineVars, history
  <1>11. ASSUME NEW s \in Sessions, TimeoutKills(s) PROVE Dispatched'
    BY <1>11 DEF TimeoutKills, setup, settings, record, engineVars, history
  <1>12. ASSUME NEW s \in Sessions \cup {0}, ClaimExpires(s) PROVE Dispatched'
    BY <1>12 DEF ClaimExpires, setup, settings, record, engineVars, history
  <1>13. ASSUME NEW e \in Engines, RetryTimerFires(e) PROVE Dispatched'
    BY <1>13 DEF RetryTimerFires, Dispatch, setup, settings, record, engineVars, history
  <1>14. ASSUME NEW e \in Engines, SweepLooks(e) PROVE Dispatched'
    BY <1>14 DEF SweepLooks, setup, settings, record, engineVars, history
  <1>15. ASSUME NEW e \in Engines, SweepPasses(e) PROVE Dispatched'
    BY <1>15 DEF SweepPasses, setup, settings, record, engineVars, history
  <1>16. ASSUME NEW e \in Engines, SweepBuriesZombie(e) PROVE Dispatched'
    BY <1>16 DEF SweepBuriesZombie, setup, settings, record, engineVars, history
  <1>17. ASSUME NEW e \in Engines, NEW s \in Sessions, SweepFinalizes(e, s) PROVE Dispatched'
    BY <1>17 DEF SweepFinalizes, setup, settings, record, engineVars, history
  <1>18. ASSUME NEW e \in Engines, WatcherReports(e) PROVE Dispatched'
    BY <1>18 DEF WatcherReports, setup, settings, record, engineVars, history
  <1>19. ASSUME NEW e \in Engines, KillTask(e) PROVE Dispatched'
    BY <1>19 DEF KillTask, setup, settings, record, engineVars, history
  <1>20. ASSUME NEW e \in Engines, CancelGraph(e) PROVE Dispatched'
    BY <1>20 DEF CancelGraph, setup, settings, record, engineVars, history
  <1>21. ASSUME NEW e \in Engines, RetryTask(e) PROVE Dispatched'
    BY <1>21 DEF RetryTask, Dispatch, setup, settings, record, engineVars, history
  <1>22. ASSUME NEW e \in Engines, Crash(e) PROVE Dispatched'
    BY <1>22 DEF Crash, setup, settings, record, engineVars, history
  <1>23. CASE UNCHANGED vars
    BY <1>23 DEF vars, setup, settings, record, engineVars, history
  <1>. QED
    BY <1>1, <1>2, <1>3, <1>4, <1>5, <1>6, <1>7, <1>8, <1>9, <1>10, <1>11, <1>12, <1>13,
       <1>14, <1>15, <1>16, <1>17, <1>18, <1>19, <1>20, <1>21, <1>22, <1>23
       DEF Next, SessionStep, SweepJudges, Operator

-----------------------------------------------------------------------------
(* Verdicts *)

LEMMA StepVerdict == TypeOK /\ VerdictInv /\ [Next]_vars => VerdictInv'
  <1> SUFFICES ASSUME TypeOK, VerdictInv, [Next]_vars PROVE VerdictInv'
    OBVIOUS
  <1> USE DEF TypeOK, VerdictInv, ExecFailsClosedUnwatched, ExecFailsClosed, Goto, Terminal,
      OnTaskFailed, OnTaskCompleted
  <1>1. CASE JobEnds
    BY <1>1 DEF JobEnds, setup, settings, record, engineVars, history
  <1>2. CASE JobExpires
    BY <1>2 DEF JobExpires, setup, settings, record, engineVars, history
  <1>3. CASE Failover
    BY <1>3 DEF Failover, setup, settings, record, engineVars, history
  <1>4. ASSUME NEW s \in Sessions, DeleteStaleJob(s) PROVE VerdictInv'
    BY <1>4 DEF DeleteStaleJob, setup, settings, record, engineVars, history
  <1>5. ASSUME NEW s \in Sessions, CreateJob(s) PROVE VerdictInv'
    BY <1>5 DEF CreateJob, setup, settings, record, engineVars, history
  <1>6. ASSUME NEW s \in Sessions, Stamp(s) PROVE VerdictInv'
    BY <1>6 DEF Stamp, setup, settings, record, engineVars, history
  <1>7. ASSUME NEW s \in Sessions, PollFires(s) PROVE VerdictInv'
    BY <1>7 DEF PollFires, setup, settings, record, engineVars, history
  <1>8. ASSUME NEW s \in Sessions, PollStops(s) PROVE VerdictInv'
    BY <1>8 DEF PollStops, setup, settings, record, engineVars, history
  <1>9. ASSUME NEW s \in Sessions, Report(s) PROVE VerdictInv'
    BY <1>9 DEF Report, setup, settings, record, engineVars, history
  <1>10. ASSUME NEW s \in Sessions, SpawnFails(s) PROVE VerdictInv'
    BY <1>10 DEF SpawnFails, setup, settings, record, engineVars, history
  <1>11. ASSUME NEW s \in Sessions, TimeoutKills(s) PROVE VerdictInv'
    BY <1>11 DEF TimeoutKills, setup, settings, record, engineVars, history
  <1>12. ASSUME NEW s \in Sessions \cup {0}, ClaimExpires(s) PROVE VerdictInv'
    BY <1>12 DEF ClaimExpires, setup, settings, record, engineVars, history
  <1>13. ASSUME NEW e \in Engines, RetryTimerFires(e) PROVE VerdictInv'
    BY <1>13 DEF RetryTimerFires, Dispatch, setup, settings, record, engineVars, history
  <1>14. ASSUME NEW e \in Engines, SweepLooks(e) PROVE VerdictInv'
    BY <1>14 DEF SweepLooks, setup, settings, record, engineVars, history
  <1>15. ASSUME NEW e \in Engines, SweepPasses(e) PROVE VerdictInv'
    BY <1>15 DEF SweepPasses, setup, settings, record, engineVars, history
  <1>16. ASSUME NEW e \in Engines, SweepBuriesZombie(e) PROVE VerdictInv'
    BY <1>16 DEF SweepBuriesZombie, setup, settings, record, engineVars, history
  <1>17. ASSUME NEW e \in Engines, NEW s \in Sessions, SweepFinalizes(e, s) PROVE VerdictInv'
    BY <1>17 DEF SweepFinalizes, setup, settings, record, engineVars, history
  <1>18. ASSUME NEW e \in Engines, WatcherReports(e) PROVE VerdictInv'
    BY <1>18 DEF WatcherReports, setup, settings, record, engineVars, history
  <1>19. ASSUME NEW e \in Engines, KillTask(e) PROVE VerdictInv'
    BY <1>19 DEF KillTask, KillWorker, setup, settings, record, engineVars, history
  <1>20. ASSUME NEW e \in Engines, CancelGraph(e) PROVE VerdictInv'
    BY <1>20 DEF CancelGraph, KillWorker, setup, settings, record, engineVars, history
  <1>21. ASSUME NEW e \in Engines, RetryTask(e) PROVE VerdictInv'
    BY <1>21 DEF RetryTask, Dispatch, setup, settings, record, engineVars, history
  <1>22. ASSUME NEW e \in Engines, Crash(e) PROVE VerdictInv'
    BY <1>22 DEF Crash, setup, settings, record, engineVars, history
  <1>23. CASE UNCHANGED vars
    BY <1>23 DEF vars, setup, settings, record, engineVars, history
  <1>. QED
    BY <1>1, <1>2, <1>3, <1>4, <1>5, <1>6, <1>7, <1>8, <1>9, <1>10, <1>11, <1>12, <1>13,
       <1>14, <1>15, <1>16, <1>17, <1>18, <1>19, <1>20, <1>21, <1>22, <1>23
       DEF Next, SessionStep, SweepJudges, Operator

-----------------------------------------------------------------------------
(* Charges *)

LEMMA StepCharge == TypeOK /\ Dispatched /\ ChargeInv /\ [Next]_vars => ChargeInv'
  <1> SUFFICES ASSUME TypeOK, Dispatched, ChargeInv, [Next]_vars PROVE ChargeInv'
    OBVIOUS
  <1> USE SessionsAreNumbers DEF TypeOK, ChargeInv, Unstamped, Goto, Charge, Terminal,
      OnTaskFailed, OnTaskCompleted, Intervene
  <1>1. CASE JobEnds
    BY <1>1 DEF JobEnds, setup, settings, record, engineVars, history
  <1>2. CASE JobExpires
    BY <1>2 DEF JobExpires, setup, settings, record, engineVars, history
  <1>3. CASE Failover
    BY <1>3 DEF Failover, setup, settings, record, engineVars, history
  <1>4. ASSUME NEW s \in Sessions, DeleteStaleJob(s) PROVE ChargeInv'
    BY <1>4 DEF DeleteStaleJob, setup, settings, record, engineVars, history
  <1>5. ASSUME NEW s \in Sessions, CreateJob(s) PROVE ChargeInv'
    BY <1>5 DEF CreateJob, setup, settings, record, engineVars, history
  <1>6. ASSUME NEW s \in Sessions, Stamp(s) PROVE ChargeInv'
    BY <1>6 DEF Stamp, setup, settings, record, engineVars, history
  <1>7. ASSUME NEW s \in Sessions, PollFires(s) PROVE ChargeInv'
    BY <1>7 DEF PollFires, setup, settings, record, engineVars, history
  <1>8. ASSUME NEW s \in Sessions, PollStops(s) PROVE ChargeInv'
    BY <1>8 DEF PollStops, setup, settings, record, engineVars, history
  <1>9. ASSUME NEW s \in Sessions, Report(s) PROVE ChargeInv'
    BY <1>9 DEF Report, setup, settings, record, engineVars, history
  <1>10. ASSUME NEW s \in Sessions, SpawnFails(s) PROVE ChargeInv'
    BY <1>10 DEF SpawnFails, setup, settings, record, engineVars, history
  <1>11. ASSUME NEW s \in Sessions, TimeoutKills(s) PROVE ChargeInv'
    BY <1>11 DEF TimeoutKills, setup, settings, record, engineVars, history
  <1>12. ASSUME NEW s \in Sessions \cup {0}, ClaimExpires(s) PROVE ChargeInv'
    BY <1>12 DEF ClaimExpires, setup, settings, record, engineVars, history
  <1>13. ASSUME NEW e \in Engines, RetryTimerFires(e) PROVE ChargeInv'
    BY <1>13 DEF RetryTimerFires, Dispatch, setup, settings, record, engineVars, history
  <1>14. ASSUME NEW e \in Engines, SweepLooks(e) PROVE ChargeInv'
    BY <1>14 DEF SweepLooks, setup, settings, record, engineVars, history
  <1>15. ASSUME NEW e \in Engines, SweepPasses(e) PROVE ChargeInv'
    BY <1>15 DEF SweepPasses, setup, settings, record, engineVars, history
  <1>16. ASSUME NEW e \in Engines, SweepBuriesZombie(e) PROVE ChargeInv'
    BY <1>16 DEF SweepBuriesZombie, setup, settings, record, engineVars, history
  <1>17. ASSUME NEW e \in Engines, NEW s \in Sessions, SweepFinalizes(e, s) PROVE ChargeInv'
    BY <1>17 DEF SweepFinalizes, setup, settings, record, engineVars, history
  <1>18. ASSUME NEW e \in Engines, WatcherReports(e) PROVE ChargeInv'
    BY <1>18 DEF WatcherReports, setup, settings, record, engineVars, history
  <1>19. ASSUME NEW e \in Engines, KillTask(e) PROVE ChargeInv'
    BY <1>19 DEF KillTask, KillWorker, setup, settings, record, engineVars, history
  <1>20. ASSUME NEW e \in Engines, CancelGraph(e) PROVE ChargeInv'
    BY <1>20 DEF CancelGraph, KillWorker, setup, settings, record, engineVars, history
  <1>21. ASSUME NEW e \in Engines, RetryTask(e) PROVE ChargeInv'
    BY <1>21 DEF RetryTask, Dispatch, setup, settings, record, engineVars, history
  <1>22. ASSUME NEW e \in Engines, Crash(e) PROVE ChargeInv'
    BY <1>22 DEF Crash, setup, settings, record, engineVars, history
  <1>23. CASE UNCHANGED vars
    BY <1>23 DEF vars, setup, settings, record, engineVars, history
  <1>. QED
    BY <1>1, <1>2, <1>3, <1>4, <1>5, <1>6, <1>7, <1>8, <1>9, <1>10, <1>11, <1>12, <1>13,
       <1>14, <1>15, <1>16, <1>17, <1>18, <1>19, <1>20, <1>21, <1>22, <1>23
       DEF Next, SessionStep, SweepJudges, Operator

-----------------------------------------------------------------------------
LEMMA InitInv == Init => WInv
  <1> SUFFICES ASSUME Init PROVE WInv
    OBVIOUS
  <1>1. sessions = 1 /\ 1 \in Sessions /\ maxRetries \in Nat
    BY SessionsAreNumbers, LifecycleAssumption DEF Init
  <1>2. /\ owner \in [Sessions -> Engines] /\ stage \in [Sessions -> Stages]
        /\ poll \in [Sessions -> {"on", "off", "last"}] /\ code \in [Sessions -> {0, 1}]
        /\ charged \in [Sessions -> Nat]
    BY DEF Init, Stages
  <1>3. TypeOK
    <2>1. sweep \in [Engines -> SUBSET (Sessions \cup {0})]
      BY DEF Init
    <2>2. crashes = 0 /\ failovers = 0 /\ interventions = 0 /\ MaxDisturbances \in Nat
      BY LifecycleAssumption DEF Init
    <2>3. Disturbances <= MaxDisturbances /\ {crashes, failovers, interventions} \subseteq Nat
      BY <2>2 DEF Disturbances
    <2>4. session \in 0 .. sessions /\ retries \in 0 .. maxRetries
      BY <1>1 DEF Init
    <2>. QED
      BY <1>1, <1>2, <2>1, <2>3, <2>4, LifecycleAssumption DEF Init, TypeOK, Terminal
  <1>4. Dispatched
    BY <1>1 DEF Init, Dispatched
  <1>5. VerdictInv
    BY DEF Init, VerdictInv, ExecFailsClosedUnwatched, ExecFailsClosed
  <1>6. ChargeInv
    BY <1>1, SessionsAreNumbers DEF Init, ChargeInv, Unstamped
  <1>. QED
    BY <1>3, <1>4, <1>5, <1>6 DEF WInv

LEMMA StepInv == WInv /\ [Next]_vars => WInv'
  BY StepTypes, StepDispatched, StepVerdict, StepCharge DEF WInv

LEMMA Invariance == Spec => []WInv
  BY InitInv, StepInv, PTL DEF Spec

\* The record, the Job and the engines' memory keep their types, whatever reports,
\* sweeps and tools do to them.
THEOREM LifecycleIsTyped == Spec => []TypeOK
  <1>1. WInv => TypeOK
    BY DEF WInv
  <1>. QED
    BY <1>1, Invariance, PTL

\* Issue #318, for any number of engines, attempts and crashes: unless await_graph_event
\* reports, the task of a validation pod is completed only when a Job of it succeeded.
THEOREM ExecAlwaysFailsClosed == Spec => []ExecFailsClosedUnwatched
  <1>1. WInv => ExecFailsClosedUnwatched
    BY DEF WInv, VerdictInv
  <1>. QED
    BY <1>1, Invariance, PTL

\* A failure is charged once, whichever of poll, sweep and watcher report it, when the
\* task has no retries and no operator touches it.
THEOREM FailureAlwaysCountsOnce == Spec => []FailureCountsOnceAlone
  <1>1. WInv => FailureCountsOnceAlone
    BY DEF WInv, ChargeInv, FailureCountsOnceAlone, FailureCountsOnce
  <1>. QED
    BY <1>1, Invariance, PTL

\* No late report, sweep or timer moves a task that has ended; only retry_task and a
\* stamp that was due do.
THEOREM EndsAlwaysHold == Spec => EndHolds
  <1>1. [Next]_vars =>
          [(status \in Terminal /\ status' # status)
             => (status' = "running" /\ (Intervene \/ \E s \in Sessions : stage[s] = "stamp"))]_vars
    <2> SUFFICES ASSUME [Next]_vars, status \in Terminal, status' # status
                 PROVE  /\ status' = "running"
                        /\ Intervene \/ \E s \in Sessions : stage[s] = "stamp"
      OBVIOUS
    <2> USE DEF Terminal, OnTaskCompleted, OnTaskFailed, setup, settings, record, engineVars, history
    <2>1. \/ \E e \in Engines : RetryTask(e)
          \/ \E s \in Sessions : Stamp(s)
      BY DEF Next, SessionStep, SweepJudges, Operator, vars, JobEnds, JobExpires, Failover,
         DeleteStaleJob, CreateJob, PollFires, PollStops, Report, SpawnFails, TimeoutKills,
         ClaimExpires, RetryTimerFires, Dispatch, SweepLooks, SweepPasses, SweepBuriesZombie,
         SweepFinalizes, WatcherReports, KillTask, CancelGraph, Crash
    <2>. QED
      BY <2>1 DEF RetryTask, Dispatch, Stamp
  <1>. QED
    BY <1>1, PTL DEF Spec, EndHolds
=============================================================================
