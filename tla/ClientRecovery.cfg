SPECIFICATION Spec
CONSTANTS
    SlotCount = 1
    SessionCount = 1
    Keys = {1}
    MaxRequests = 1
    MaxChunks = 1
    Clients <- MCDownload
INVARIANTS
    RecoveryDrains
