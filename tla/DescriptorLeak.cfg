\* As many failed connects as the process has descriptors.
CONSTANTS
    MaxPacketCount = 2
    FdLimit = 2
    MaxConnectFailures = 2
    Statuses = {"S", "E"}
    TornResponse = FALSE
    MaxSeq = 3
SPECIFICATION FairSpec
PROPERTY GapEventuallyFilled
