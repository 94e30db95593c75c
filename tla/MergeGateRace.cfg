CONSTANTS
    a = a
    b = b
    j = j
    Tasks = {a, b, j}
    Deps <- JoinDeps
    ConcurrencyLimits = {0}
    HandlerLimits = {2}
    MaxConflicts = 0
    MergesMayError = FALSE
    CoordinatorsMayFail = FALSE
SPECIFICATION FairSpec
INVARIANTS StartsOnIntegrated
CHECK_DEADLOCK FALSE
