\* The bounds stop every component.
CHECK_DEADLOCK FALSE
SPECIFICATION PartSpec
CONSTANTS
    j1 = j1
    Never = Never
    Jobs = {j1}
    Schedules <- MCSchedules
    Backoff <- MCBackoff
    MaxTime = 3
    MaxErrors = 2
    MaxOps = 3
    MaxFaults = 1
    MaxRestarts = 1
    g1 = g1
    g2 = g2
    e1 = e1
    e2 = e2
    f1 = f1
    f2 = f2
    b1 = b1
    k2 = k2
    k1 = k1
    k3 = k3
    Managers = {g1, g2}
    Peers = {e1, e2}
    MaxPending = 1
    MaxCalls = 3
    MaxWriteErrors = 1
    Files = {f1, f2}
    AgentsFile = f1
    SoulFile = f2
    Blank = {3}
    DefaultIn = {0, 1, 2}
    MaxEdits = 4
    MaxChmods = 1
    Profiles = {b1}
    BrowserCalls = {k1, k2, k3}
    MaxContexts = 2
    MaxChromes = 2
    MaxChromeFaults = 1
INVARIANT RunsAreAlone
INVARIANT EnabledHasOneTrigger
INVARIANT StopQuiets
INVARIANT SerialCallsAgree
INVARIANT CacheFollowsDisk
INVARIANT CrashesAreHealed
PROPERTY RemovalsAndBackoffHold
