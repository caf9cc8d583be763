\* As many slots as calls: the global limit is never the reason to wait.
\* Finished calls do not come back: the system stops when all are answered.
CHECK_DEADLOCK FALSE
SPECIFICATION FairSpec
CONSTANTS
    c1 = c1
    c2 = c2
    c3 = c3
    main = main
    cron = cron
    r1 = r1
    NoRequest = NoRequest
    NoCall = NoCall
    Calls <- MCCalls
    Lanes <- MCLanes
    Requests <- MCRequests
    LaneOf <- MCLaneOf
    RequestOf <- NoRequestIDs
    Parent <- Nested
    Concurrency <- MCConcurrency
    Slots = 3
    MaxConc = 2
    MaxOps = 1
PROPERTY EveryCallAnswered
PROPERTY CloseTerminates
