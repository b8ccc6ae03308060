SPECIFICATION FairSpec
CONSTANTS
    Slots = {s1}
    Workers = {w1}
    NoWorker = NoWorker
    MaxGeneration = 1
    MaxPeer = 1
PROPERTIES
    DeadlineIsEnforced
