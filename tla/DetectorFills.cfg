\* Legs filled in several trades of one or two lots, up to two orders in a run.
SPECIFICATION Spec
CONSTANTS
    Scrips <- OneContract
    Trades <- FillTrades
    MaxStore = 6
INVARIANTS
    WholeOrdersReported
