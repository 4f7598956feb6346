SPECIFICATION SpecResumed
CONSTANTS
    Requests = {r1}
    Files = {"f1"}
    NBatches = 1
    NRows = 3
    ChunkSize = 2
    MaxWipes = 1
    RetentionEnds = FALSE
CHECK_DEADLOCK FALSE
PROPERTIES
    ProcessingConcludes
