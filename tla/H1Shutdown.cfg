SPECIFICATION FairSpec
CONSTANTS
    MaxRequests = 1
    MaxChunks = 1
    Circumstances = {{}}
PROPERTIES
    ShutdownCloses
