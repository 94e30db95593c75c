CONSTANTS
    a = a
    b = b
    c = c
    d = d
    x = x
    Tasks = {a, b, c, d, x}
    Declared = {a, b, c, d}
    StaticDeps <- JoinDeps
    RequireApproval = {}
    BestEffort = {x}
    MaxRetries <- OneRetry
    MaxConcurrency = 0
    MemoryPressure = FALSE
    ForeignOwner = FALSE
    MaxYields = 0
    MaxInterventions = 0
SPECIFICATION FairSpec
INVARIANT FailuresAreCarriedThrough
PROPERTIES GraphSettles
\* A graph that has ended stops.
CHECK_DEADLOCK FALSE
