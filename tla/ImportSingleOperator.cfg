SPECIFICATION Spec
CONSTANTS
    Requests = {r1}
    Files = {f1, f2}
    NBatches = 2
    NRows = 2
    ChunkSize = 2
    MaxWipes = 2
    RetentionEnds = FALSE
SYMMETRY FileSymmetry
CHECK_DEADLOCK FALSE
INVARIANTS
    AtMostOneActive
    CompletedMeansDone
    CountersMatchRows
    LineAppliedOnce
PROPERTIES
    TerminalIsFinal
    ImplementsImport
