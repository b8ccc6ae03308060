SPECIFICATION SessionSpec
CONSTANTS
    SessionRequests = {r1, r2}
    SessionIds = {i1, i2, i3}
    NoId = NoId
    EntryKeys = {k1, k2}
    SessionCapacity = 1
    EntryCapacity = 1
    IdleTimeout = 1
    TimeLimit = 100
    GenerationLimit = 3
    SessionTime = 1
    MaxLost = 1
SYMMETRY Symmetry
INVARIANTS
    SessionsIsolated
    ClearMeansGone
    NoOrphan
PROPERTIES
    NoEviction
