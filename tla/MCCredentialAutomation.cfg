CONSTANTS
    f1 = f1
    k1 = k1
    k2 = k2
    File <- MCFile
    Cred <- MCOneCred
    MaxTime = 2
    QueueSize = 1
    MaxId = 1
SPECIFICATION FairSpec
INVARIANTS
    ListedConsistently
    DisabledIsOwned
PROPERTIES
    NoCooldownForOthers
    NeverEarly
    CooldownEnds
