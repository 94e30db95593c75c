----------------------------- MODULE Telemetry ------------------------------
(***************************************************************************)
(* What the engines' telemetry says: of the agents' costs (Accounting) and *)
(* of the tasks (TaskTelemetry), which have no state in common: the agent  *)
(* spans are the spawner's and the health sweep's, the task spans and      *)
(* gauges those of the events' handlers.                                   *)
(***************************************************************************)
EXTENDS Accounting, TaskTelemetry

AccountingSpec == AccountingInit /\ [][AccountingNext]_accountingVars
TelemetrySpec == TelemetryInit /\ [][TelemetryNext]_telemetryVars

\* What is recorded of what agents cost and of how tasks stand is true of them.
TelemetryIsTrue == CostIsAccounted /\ TasksAreShown

=============================================================================
