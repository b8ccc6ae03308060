SPECIFICATION ServicesSpec
CONSTANTS
    SlotCount = 2
    SessionCount = 2
    Keys = {1, 2}
    MaxRequests = 3
    MaxChunks = 1
    Clients <- MCPools
    RateOwners = {1, 2}
    Identities = {1, 2, 3}
    NoIdentity = 0
    GroupCapacity = 2
    Limiters <- MCLimiters
    Burst = 2
    RefillTokens = 2
    RefillPeriod = 3
    Second = 2
    RateTime = 2
    Producers = {p1, p2}
    CommandCap = 2
    WsPlans <- MCWsPlans
    CreditCap = 2
    WsClients <- MCWsClients
    EventCap = 2
    Owners = {o1, o2}
    SlotCap = 1
    RegistryCap = 2
    BatchCap = 2
    BodyLimit = 9
    ErrorSize = 3
    FrameBytes = 12
    Alignment = 4
    MaxRpcRequests = 2
    Mounts <- MCMounts
    Documents <- MCDocuments
    Callers = {"c1", "c2"}
    WireSlots = 2
    RpcTime = 2
    RpcScripts <- MCScripts
    MaxDepth = 3
    EncodeLimit = 24
    Methods <- MCMethods
    MethodLimit = 5
    Tokens <- MCTokens
    MaxTokens = 5
    NumberChars = {"0", "1", "2", ".", "e", "-"}
    MaxText = 5
    MaxUint = 201
    DigitCap = 3
    SizeMax = 12
    Invocations = {1, 2}
    AppPlans <- MCAppPlans
    ExecutorCap = 1
    Inputs <- MCInputs
    S3Capacity = 2
    MinPart = 2
    FileSizes <- MCSizes
    S3Options <- MCOptions
    MaxCalls = 2
    MaxFaults = 1
INVARIANTS
    CompletedOnce
    CommandsOrdered
    NeverDeaf
    TransfersExact
    WaitsAreOwed
    TasksKeepTheirMethod
    FramesArePrivate
    BatchesAnswered
    CallsSettle
    AnswersMeetTheirCall
    ParamsArrive
    EncodedIsReadable
    NumbersExact
PROPERTIES
    BucketsKept
    ReuseIsClean
    CommitsWhole
    UploadsAccounted
CHECK_DEADLOCK FALSE
