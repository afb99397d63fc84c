SPECIFICATION Spec
CONSTANTS
    Block <- MCBlock
    MessageId = {"m1", "m2", "m3", "m4"}
    LogsIn <- MCLogsIn
    Start <- MCStart
    RequiredConfirmations = 4
    HistoryDepth = 2
    MaxReorgDepth = 2
    HeadLead = 1
INVARIANTS
    TypeOK
    HistoryIsOneChain
    NeverRefused
    QuarantineFollowsChain
PROPERTIES
    ImplementsFinalRelay
    FinalMessagesAreRelayed
CHECK_DEADLOCK FALSE
