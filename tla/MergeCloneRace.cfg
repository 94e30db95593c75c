SPECIFICATION CloneSpec
CONSTANTS
    Callers = {c1, c2}
    t1 = t1
    t2 = t2
    t3 = t3
    o = o
    g1 = g1
    g2 = g2
    Tasks = {t1, t2, t3}
    GraphOf <- MCGraphOf
    Fixes = {t3}
    Clashes <- MCClashes
    Others = {o}
    Policies = {"promote", "pr-only"}
    MaxRetries = 1
    MaxTroubles = 0
    NoTask = NoTask
INVARIANTS
    ReportedIsThere
CHECK_DEADLOCK FALSE
