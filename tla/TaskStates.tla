----------------------------- MODULE TaskStates -----------------------------
(***************************************************************************)
(* The task status table of src/src/state-machine.ts: the statuses a task  *)
(* node may hold, the transitions the engine allows between them and the   *)
(* two predicates the engine asks of it.  Every module that moves a task   *)
(* uses this table and no other.                                           *)
(***************************************************************************)

\* TaskStatus.  No code of the repository ever writes "validating" on a task.
Statuses == {"pending", "ready", "awaiting_approval", "running", "validating",
             "completed", "failed", "canceled", "yielded"}

\* TRANSITIONS, as the set of its <<from, to>> pairs.
Transitions ==
    ({"pending"}           \X {"ready", "awaiting_approval", "canceled"}) \cup
    ({"awaiting_approval"} \X {"ready", "canceled"}) \cup
    ({"ready"}             \X {"running", "failed", "canceled"}) \cup
    ({"running"}           \X {"validating", "completed", "failed", "ready",
                               "canceled", "pending", "yielded"}) \cup
    ({"validating"}        \X {"completed", "failed", "canceled"}) \cup
    ({"yielded"}           \X {"running", "ready", "canceled", "pending"}) \cup
    ({"failed", "canceled"} \X {"pending"})

\* isTerminal
IsTerminal(s) == s \in {"completed", "failed", "canceled"}

\* transition() throws exactly when this is FALSE; from = to is an idempotent no-op.
CanTransitionTo(from, to) == from = to \/ <<from, to>> \in Transitions
=============================================================================
