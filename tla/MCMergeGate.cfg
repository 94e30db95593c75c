CONSTANTS
    a = a
    b = b
    j = j
    Tasks = {a, b, j}
    Deps <- JoinDeps
    ConcurrencyLimits = {0, 1, 2}
    HandlerLimits = {1, 2}
    MaxConflicts = 1
    MergesMayError = TRUE
    CoordinatorsMayFail = TRUE
SPECIFICATION FairSpec
INVARIANTS PromotesEverythingAlone EachThingOnce
PROPERTIES  GraphDelivers
\* A graph that is complete, or held back by a failed merge, stops.
CHECK_DEADLOCK FALSE
