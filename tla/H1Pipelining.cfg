SPECIFICATION Spec
CONSTANTS
    MaxRequests = 2
    MaxChunks = 1
    Circumstances = {{"behind"}}
INVARIANTS
    PipelinedFramed
