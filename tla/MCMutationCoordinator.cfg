CONSTANTS
    c1 = c1
    c2 = c2
    c3 = c3
    f1 = f1
    f2 = f2
    Caller <- MCCaller
    File <- MCFile
SPECIFICATION FairSpec
INVARIANTS
    Exclusive
    NoLostWakeup
    WaitingCountExact
PROPERTIES
    AllIsServed
