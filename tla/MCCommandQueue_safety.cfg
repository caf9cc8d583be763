\* A call that finds every slot taken may wait for ever (see the lostwakeup
\* run), and finished calls do not come back: the system may stop.
CHECK_DEADLOCK FALSE
SPECIFICATION Spec
CONSTANTS
    c1 = c1
    c2 = c2
    c3 = c3
    main = main
    cron = cron
    r1 = r1
    NoRequest = NoRequest
    NoCall = NoCall
    Calls <- MCCalls
    Lanes <- MCLanes
    Requests <- MCRequests
    LaneOf <- MCLaneOf
    RequestOf <- MCRequestOf
    Parent <- Unnested
    Concurrency <- MCConcurrency
    Slots = 2
    MaxConc = 2
    MaxOps = 1
INVARIANT AnsweredOnce
INVARIANT HonestReplies
INVARIANT NoLostCaller
INVARIANT CountersAgree
INVARIANT RerunsOverlap
PROPERTY ImplementsService
