CONSTANTS
    Engines = {e1, e2}
    FirstLeader = e1
    RetryBudgets = {0, 1}
    MaxSessions = 3
    MaxDisturbances = 1
    Regimes = {"timed", "watched"}
SPECIFICATION FairSpec
INVARIANTS  FailureCountsOnceAlone
PROPERTIES EndIsNoticedUntimed RetryHappens EndHolds
\* A task that has ended stays so.
CHECK_DEADLOCK FALSE
