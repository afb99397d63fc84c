SPECIFICATION OutageSpec
CONSTANTS
    Block <- MCBlock
    MessageId = {"m1"}
    LogsIn <- MCLogsIn
    Start <- MCStart
    RequiredConfirmations = 3
    HistoryDepth = 4
    MaxReorgDepth = 2
    HeadLead = 0
INVARIANTS
    ReorgReportsWholeFork
