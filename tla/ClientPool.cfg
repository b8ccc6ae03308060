SPECIFICATION FairSpec
CONSTANTS
    SlotCount = 2
    SessionCount = 1
    Keys = {1, 2}
    MaxRequests = 3
    MaxChunks = 1
    Clients <- MCClients
INVARIANTS
    StopDrains
PROPERTIES
    CancelCompletes
