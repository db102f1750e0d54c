\* Two strikes and two expiries, both sides, trades that are not collected and a
\* token that is not known.
SPECIFICATION Spec
CONSTANTS
    Scrips <- ManyContracts
    Trades <- ContractTrades
    MaxStore = 5
INVARIANTS
    TypeOK
    NeverCrashes
    RecordsInOrder
    ThreeLegsOneExpiry
\* A crash ends the program.
CHECK_DEADLOCK FALSE
