SPECIFICATION SpecScheduled
CONSTANTS
    Requests = {r1, r2}
    Files = {"f1"}
    NBatches = 1
    NRows = 1
    ChunkSize = 1
    MaxWipes = 2
    RetentionEnds = TRUE
CHECK_DEADLOCK FALSE
INVARIANTS
    RowAppliedOnce
    FileStaysReachable
PROPERTIES
    CancelSparesPupils
    RetentionEffective
