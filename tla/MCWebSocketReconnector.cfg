SPECIFICATION Spec
CONSTANTS
    Connection = {1, 2, 3}
    MaxAttempts = 2
    PatientRestart = TRUE
    LateReads = FALSE
    MaxHead = 3
    MaxReads = 2
INVARIANTS
    TypeOK
    ExactlyOneWayUp
    
    ConnectedIsTrue
    MissedBlocksAreNamed
PROPERTIES
    ReconnectsOrGivesUp
