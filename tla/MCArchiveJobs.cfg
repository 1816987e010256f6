CONSTANTS
    r1 = r1
    r2 = r2
    c1 = c1
    RunId <- MCRunId
    Retention <- MCWorkerRun
    Caller <- MCCaller
    MaxFaults = 1
SPECIFICATION MCFairSpec
INVARIANTS
    RequestsConsistent
    NoUnaskedDeletion
    WaitersAreServed
PROPERTIES
    ServedUnlessJammed
    AnsweredUnlessJammed
CHECK_DEADLOCK FALSE
