CONSTANTS
    h1 = h1
    h2 = h2
    w1 = w1
    r1 = r1
    r2 = r2
    Hash <- MCHash
    Canonical <- MCHash
    Writer <- MCWriter
    RunId <- MCRunId
    Cutoffs <- MCCutoffs
    BatchLimit = 2
    MaxRevision = 1
    SegmentLimit = 1
    DeleteLimit = 1
SPECIFICATION Spec
SYMMETRY MCSymmetry
INVARIANTS
    RunsConsistent
    LedgerTracksRaw
    ArchivedOnce
    WholeScope
    CancelNeverBlocked
PROPERTIES
    InvocationsAreSafe
    KeepsHistory
