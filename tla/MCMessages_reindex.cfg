\* No crash: every sync is one of the running program.
CHECK_DEADLOCK FALSE
SPECIFICATION PartSpec
CONSTANTS
    k1 = k1
    p1 = p1
    p2 = p2
    p3 = p3
    m1 = m1
    m2 = m2
    Keys = {k1}
    Procs = {p1, p2, p3}
    Old <- MCOld
    MaxEntries = 1
    MaxCrashes = 1
    s1 = s1
    n1 = n1
    n2 = n2
    Runs = {n1, n2}
    Sessions = {s1, s2}
    NumProfiles = 2
    MaxTurns = 1
    MaxAttempts = 2
    MaxClock = 2
    Texts = {t1}
    Replies = {x1}
    GatewayRuns = {y1}
    Buffer = 1
    MaxRedeliveries = 1
    MaxLapses = 1
    u1 = u1
    u2 = u2
    v1 = v1
    v2 = v2
    Messages = {u1, u2}
    FlowRequests = {v1, v2}
    FlowKeys = {k1, k2}
    MaxForgets = 1
    g1 = g1
    g2 = g2
    Clients = {c1}
    GatewayRequests = {g1, g2}
    IdempotencyKeys = {i1}
    MaxConcurrent = 1
    MaxEvents = 2
    MaxExpiries = 1
    Posts = {w1, w2}
    Addresses = {a1}
    MaxPerMinute = 1
    MaxMinutes = 1
    MemoryFiles = {f1, f2}
    Searches = {q1}
    MaxWrites = 2
    MaxRows = 5
    MaxMemoryCrashes = 0
PROPERTY ReadIsIndexed
