SPECIFICATION Spec
CONSTANTS
    sA = sA
    sB = sB
    r1 = r1
    r2 = r2
    None = None
    Server <- MCServer
    First = sA
    Record <- MCRecord
    MaxClicks = 2
    MaxMounts = 3
    MaxFaults = 1
INVARIANTS ProviderTypeOK ShowsWhatIsSaved
PROPERTIES UpdatesKeepOthers WritesStayHome ControlsComeBack
CHECK_DEADLOCK FALSE
