SPECIFICATION FairSpec
CONSTANTS
    MaxRequests = 3
    MaxChunks = 2
    Circumstances = {{}, {"behind"}, {"tight"}}
INVARIANTS
    ResponsesFramed
    NeverWedged
PROPERTIES
    SourcesOwned
    RequestsSettle
