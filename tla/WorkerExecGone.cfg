CONSTANTS
    Engines = {e1, e2}
    FirstLeader = e1
    RetryBudgets = {0}
    MaxSessions = 3
    MaxDisturbances = 1
    Regimes = {"watched"}
SPECIFICATION Spec
INVARIANTS ExecFailsClosed
\* A task that has ended stays so.
CHECK_DEADLOCK FALSE
