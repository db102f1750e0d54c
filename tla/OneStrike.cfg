\* Violated: a record with options of two strikes.
SPECIFICATION Spec
CONSTANTS
    Scrips <- ManyContracts
    Trades <- ContractTrades
    MaxStore = 5
INVARIANT OneStrike
\* A crash ends the program.
CHECK_DEADLOCK FALSE
