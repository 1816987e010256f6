CONSTANTS
    h1 = h1
    h2 = h2
    h3 = h3
    w1 = w1
    w2 = w2
    Hash <- MCHash
    Canonical <- MCCanonical
    Writer <- MCWriter
    Candidate <- MCCandidate
    Affected <- MCAffected
    Flagged <- MCFlagged
    BatchLimit = 2
    MigrationBatch = 1
    MaxRevision = 3
SPECIFICATION MCFairSpec
INVARIANTS
    ReadExactlyOnce
    CoverageSound
    CorrectedTotals
    MigrationConsistent
PROPERTIES
    NoResurrection
    EventuallyAggregated
    MigrationCompletes
