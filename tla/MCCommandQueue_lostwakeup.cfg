\* One slot for two lanes; finished calls do not come back.
CHECK_DEADLOCK FALSE
SPECIFICATION FairSpec
CONSTANTS
    c1 = c1
    c2 = c2
    c3 = c3
    main = main
    cron = cron
    r1 = r1
    NoRequest = NoRequest
    NoCall = NoCall
    Calls <- MCCalls
    Lanes <- MCLanes
    Requests <- MCRequests
    LaneOf <- MCLaneOf
    RequestOf <- MCRequestOf
    Parent <- Unnested
    Concurrency <- MCConcurrency
    Slots = 1
    MaxConc = 2
    MaxOps = 0
PROPERTY EveryCallAnswered
