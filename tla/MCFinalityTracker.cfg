SPECIFICATION Spec
CONSTANTS
    Message <- MCMessage
    Chain <- MCChain
    Required <- MCRequired
    HeadHeight <- MCHead
    Depths <- MCDepths
INVARIANTS
    TypeOK
    IndexMatchesQuarantine
PROPERTIES
    OverdueOnlyByConfig
    LeavesWithCause
    ChainsAreIsolated
