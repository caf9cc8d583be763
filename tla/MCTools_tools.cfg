\* Every call and every request ends and is not made again, and the program
\* does not start with an allowlist that is cut short.
CHECK_DEADLOCK FALSE
SPECIFICATION PartSpec
CONSTANTS
    t1 = t1
    k1 = k1
    r1 = r1
    r2 = r2
    x1 = x1
    u1 = u1
    u2 = u2
    None = None
    Tools = {t1}
    ToolOf <- SameTool
    KeyOf <- SameKey
    Offered <- Definitions
    Calls = {c1}
    MaxAttempts = 3
    MaxChanges = 3
    Requests = {r1, r2}
    RiskyTools = {x1, x2}
    Users = {u1, u2}
    Nothing = Nothing
    MaxAnswers = 2
    MaxCrashes = 1
INVARIANT ToolsTypeOK
INVARIANT RunsAreGated
INVARIANT RerunsFollowFailures
INVARIANT FirstAnswerDecides
INVARIANT AlwaysIsKept
PROPERTY CancelEndsRetries
PROPERTY CallsAndRequestsEnd
