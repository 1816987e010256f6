SPECIFICATION Spec
CONSTANTS
    sA = sA
    sB = sB
    r1 = r1
    r2 = r2
    None = None
    Server <- MCServer
    First = sA
    Record <- MCRecord
    MaxClicks = 1
    MaxMounts = 3
    MaxFaults = 0
INVARIANT CopyIsOfInstance
CHECK_DEADLOCK FALSE
