SPECIFICATION ThreadsSpec
CONSTANTS
    OwnerCount = 2
    Capacity = 1
    NoStream = NoStream
    Streams = {s1, s2}
    Slots = {d1}
    Workers = {w1, w2}
    NoWorker = NoWorker
    MaxGeneration = 2
    MaxPeer = 2
INVARIANTS
    LifecycleSafe
PROPERTIES
    TokensSafe
    ContractHolds
    StartReturns
    StopCompletes
    DrainCompletes
