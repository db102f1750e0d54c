\* Gaps of up to 6 numbers cut into chunks of 2 (3 in the first): no full
\* chunk, exact multiples, a remainder of one and of two.  Both descriptors can
\* be lost to failed connects; the server may answer anything, also in part.
CONSTANTS
    MaxPacketCount = 2
    FdLimit = 2
    MaxConnectFailures = 2
    Statuses = {"S", "E", "Y"}
    TornResponse = TRUE
    MaxSeq = 6
SPECIFICATION Spec
INVARIANTS
    TypeOK
    InOrder
    RequestsInsideGap
    ResumePoint
    DescriptorsAccounted
    RecInv
PROPERTY RecoversWholeGap
