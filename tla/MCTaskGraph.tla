---------------------------- MODULE MCTaskGraph ----------------------------
(***************************************************************************)
(* Small graphs for TLC: c joins a and b, d follows c, and a task x may be *)
(* added while the graph runs.                                             *)
(***************************************************************************)
EXTENDS TaskGraph

CONSTANTS a, b, c, d, x

\* x is added, as reject_task adds its rework tasks, without dependencies.
JoinDeps == [t \in Tasks |-> CASE t = c -> {a, b} [] t = d -> {c} [] OTHER -> {}]

\* Two tasks that depend on nothing.
NoDeps == [t \in Tasks |-> {}]

\* Only a may be retried automatically.
OneRetry == [t \in Tasks |-> IF t = a THEN 1 ELSE 0]
============================================================================
