SPECIFICATION Spec
CONSTANTS
    Block <- MCBlock
    HistoryDepth = 3
    TolerateUnknownParent = TRUE
INVARIANTS
    TypeOK
    BufferConsistent
    WalkStopsAtOnce
PROPERTIES
    RemovalsAreReported
