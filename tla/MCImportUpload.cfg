CONSTANTS
    t1 = t1
    t2 = t2
    fileA = fileA
    fileB = fileB
    a1 = a1
    a2 = a2
    b1 = b1
    b2 = b2
    Client <- MCClient
    Nobody = Nobody
    File <- MCFile
    Block <- MCBlock
    Content <- MCContent
    Selects <- MCSelects
    Browser <- MCClient
    Homes <- MCHomes
    Cancellers <- MCFirst
    FileSize = 2
    MaxSessions = 1
    MaxId = 2
    MaxFaults = 1
    MaxStarts = 2
    MaxCancels = 1
SPECIFICATION Spec
INVARIANTS
    SessionsConsistent
    NeverSpliced
    AcknowledgedSurvives
    CancelIsFinal
    VerifiedSuccess
PROPERTIES
    SettledResultStays
    UploadsEnd
CHECK_DEADLOCK FALSE
