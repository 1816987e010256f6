CONSTANTS
    r1 = r1
    r2 = r2
    c1 = c1
    RunId <- MCRunId
    Retention <- MCNoRetention
    Caller <- MCNobody
    MaxFaults = 1
SPECIFICATION MCFairSpec
PROPERTIES
    RequestsAreServed
CHECK_DEADLOCK FALSE
