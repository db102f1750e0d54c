\* Eight messages, every pattern of losses, chunks of two, two crashes and restarts at
\* any step; fewer failed connects than descriptors, answers never torn.
CONSTANTS
    MaxPacketCount = 2
    FdLimit = 2
    MaxConnectFailures = 1
    Statuses = {"S", "E", "Y"}
    TornResponse = FALSE
    MaxSeq = 8
    MaxRestarts = 2
SPECIFICATION LoopFairSpec
INVARIANTS
    LastSeqNoExact
    RequestsPublished
    LoopInv
PROPERTIES
    FeedImplemented
    GapClosed
