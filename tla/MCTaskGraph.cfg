CONSTANTS
    a = a
    b = b
    c = c
    d = d
    x = x
    Tasks = {a, b, c, x}
    Declared = {a, b, c}
    StaticDeps <- JoinDeps
    RequireApproval = {c}
    BestEffort = {x}
    MaxRetries <- OneRetry
    MaxConcurrency = 2
    MemoryPressure = TRUE
    ForeignOwner = TRUE
    MaxYields = 1
    MaxInterventions = 2
SPECIFICATION Spec
INVARIANTS TypeOK NoEarlyStart CompletedAgrees WithinConcurrency DeadGraphIsQuiet
PROPERTIES SchedulerSpec
\* A graph that has ended stops.
CHECK_DEADLOCK FALSE
