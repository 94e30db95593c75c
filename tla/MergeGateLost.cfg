CONSTANTS
    a = a
    b = b
    j = j
    Tasks = {a, b, j}
    Deps <- JoinDeps
    ConcurrencyLimits = {0}
    HandlerLimits = {1}
    MaxConflicts = 1
    MergesMayError = FALSE
    CoordinatorsMayFail = TRUE
SPECIFICATION FairSpec
INVARIANTS PromotesEverything
CHECK_DEADLOCK FALSE
