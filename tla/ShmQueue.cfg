\* A queue of two, four records, two starts of each process.
CONSTANTS
    Size = 2
    MaxRecords = 4
    MaxStarts = 2
SPECIFICATION FairSpec
INVARIANTS
    QueueInv
    PlacesApart
    ReceivedInOrder
PROPERTIES
    FifoImplemented
    StoredReceived
\* The processes have used up their starts.
CHECK_DEADLOCK FALSE
