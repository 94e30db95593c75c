SPECIFICATION MCSpec
CONSTANTS
    Engines = {e1, e2}
    Lease = 5
    Renew = 2
    Delay = 1
    Nobody = Nobody
    Departed = Departed
    Sessions = {s1, s2}
    Paths = {p1, p2}
    Releases = {r1}
    Free = Free
    Services = {ts1}
    Extenders = {x1}
    Removers = {y1, y2}
    Ttls = {1, 2}
    MaxTime = 3
    MaxLosses = 1
    w1 = w1
    child = child
    parent = parent
    other = other
    Watchers = {w1}
    WatchedBy <- MCWatchedBy
    ChildGraphs = {child}
    Parent = parent
    OtherGraphs = {other}
    MaxEntries = 4
    Batch = 2
    MaxAborts = 1
    c1 = c1
    c2 = c2
    c3 = c3
    a1 = a1
    a2 = a2
    Calls = {c1, c2}
    MaxDirectives = 1
    MaxMessages = 3
    MaxDrops = 1
    Callers = {c1}
    t1 = t1
    t2 = t2
    t3 = t3
    o = o
    g1 = g1
    g2 = g2
    Tasks = {t1, t2, t3}
    GraphOf <- MCGraphOf
    Fixes = {t3}
    Clashes <- MCClashes
    Others = {o}
    Policies = {"promote", "pr-only"}
    MaxRetries = 1
    MaxTroubles = 1
    NoTask = NoTask
    MaxDispatches = 2
    Budget = 1
    MaxUpsets = 2
    f1 = f1
    Feeders = {f1}
    FeederRetries = 1
    Latency = 1
    Grace = 2
    MaxMonitorRestarts = 1
    n1 = n1
    d1 = d1
    TestFiles = {n1, d1}
    LanguageOf <- MCLanguageOf
    FailingTest = d1
    MaxRounds = 2
    MaxCommits = 2
    MaxReadFailures = 1
    ga = ga
    gb = gb
    Target = ga
    Source = gb
    Declared <- MCDeclared
    NewTasks <- MCNewTasks
    Editors = {c1, c2}
    MaxReworks = 1
    MaxEdits = 2
    Inputs <- MCInputs
    Recipes <- MCRecipes
    Defaults <- MCDefaults
    Criteria <- MCCriteria
    ItemCounts = {0, 2}
    MaxAttempts = 2
    Reads = 2
    ToolCalls = {c1, c2, c3}
    AgentOf <- MCAgentOf
    Footprints <- MCFootprints
    Topics = {"p"}
    MaxPosts = 1
    MaxToolCalls = 3
    InterrogateAfter = 1
    Timeout = 7
    Debounce = 2
    HintTtl = 4
    Transcripts <- MCTranscripts
    MaxWorkers = 2
    MaxMishaps = 1
    h1 = h1
    h2 = h2
    PeerIds = {g1, g2}
    Handlers = {h1, h2}
    MaxChanges = 4
    k1 = k1
    u1 = u1
    u2 = u2
    Clients = {k1}
    ToolUses = {u1, u2}
    MaxConnections = 2
    MaxToolUses = 2
    MaxFaults = 1
    CriteriaLists <- MCLists
    MaxChildren = 1
    Groups = {g1, g2}
    MinGraphs = 1
    Threshold = 2
    Duration = 1
    EscalateAfter = 2
    FindingLists <- MCFindings
    MaxIssues = 2
    MaxAutoFix = 1
    CompletionDrives = {h1, h2}
    MaxClock = 2
    MaxEvents = 3
    MaxMisfortunes = 1
    McpWorkers = {k1, u1, u2}
    Admitted = {u1, u2}
    UpstreamTools = {"p", "q"}
    Allowlist = {"p"}
    BreakerThreshold = 2
    Cooldown = 1
    Ttl = 1
    MaxCalls = 2
    MaxFailures = 2
    MaxTicks = 1
    MaxListings = 2
    GaugedTasks = {t1}
    MaxRuns = 2
INVARIANTS
    
    LocksAreKept
    
    EventsReachAlone
    MessagesAreShown
    NothingLostAlone
    DispatchKeepsItsWord
    DependentsAreToldAlone
    
    NothingForgottenAlone
    AcceptedIsJudged
    TelemetryIsTrue
    WhatConcernsThemIsTold
    StuckAreWarnedThenStopped
    
    WorkersAreKnownByTheirRecords
    CriteriaDecideAlone
    
    GatewayIsShared
CONSTRAINT MCClaimed
CHECK_DEADLOCK FALSE
