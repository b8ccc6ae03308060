SPECIFICATION ConnectionsSpec
CONSTANTS
    StreamCap = 2
    DefaultWindow = 2
    MaxWindow = 6
    LocalWindow <- MCWindow
    ConnWindow <- MCWindow
    MaxFrame = 2
    Plan <- MCPlan
    MaxResponse = 2
    MaxRequest = 2
    Ids = {1, 3, 5}
    Scenarios <- MCScenarios
    PoolSlots = 2
    PeerStreams = 2
    PoolEventCap = 2
    PoolPlans <- MCPoolPlans
INVARIANTS
    CreditConserved
    FailsOnlyForgotten
    SlotsMirrorStreams
    NeverStranded
    SessionEvents
PROPERTIES
    AnswersIntact
    SiblingsSpared
CHECK_DEADLOCK FALSE
