\* A queue of one, two restarts.
CONSTANTS
    Scrips <- Contract
    Trades <- StreamTrades
    MaxStore = 0
    Records = {}
    Capacity = 1
    Streams <- AllStreams
    MaxRestarts = 2
SPECIFICATION SysFairSpec
INVARIANTS
    ProducedExactly
    AgainOnlyAfterRestart
PROPERTY RecordsReported
\* The stream has been read, or the process crashed.
CHECK_DEADLOCK FALSE
