\* The configuration enables the webhook server.
CHECK_DEADLOCK FALSE
SPECIFICATION PartSpec
CONSTANTS
    r1 = r1
    s1 = s1
    Requests = {r1}
    Size = 2
    MaxConcurrent = 1
    MaxOps = 1
    MaxIOErrors = 1
    MaxCrashes = 1
    Steps = {s1, s2, s3}
    MaxRetries = 1
    n1 = n1
    i1 = i1
    i2 = i2
    NodeIds = {n1}
    NodeCallers = {c1}
    Invocations = {i1, i2}
    MaxMissed = 1
    DegradedThreshold = 2
    Counts = {0, 1}
    MaxSilences = 1
    t1 = t1
    t2 = t2
    q1 = q1
    q2 = q2
    Routes = {t1, t2}
    Resolves = {q1, q2}
    Priorities = {1, 2}
    Fallbacks <- MCFallbacks
    MaxFallbackDepth = 2
    MaxRouteEdits = 2
    d1 = d1
    d2 = d2
    Processes = {d1, d2}
    WebhookEnabled = TRUE
    DefaultDataDir = TRUE
    MaxStops = 2
PROPERTY DaemonStarts
