SPECIFICATION Spec
CONSTANTS
    Connection = {1, 2, 3}
    MaxAttempts = 2
    PatientRestart = TRUE
    LateReads = TRUE
    MaxHead = 3
    MaxReads = 2
INVARIANTS
    MissedBlocksAreNamed
