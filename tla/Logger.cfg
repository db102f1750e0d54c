\* Two writers and a ring of two, exit at any moment.
CONSTANTS
    Writers = {w1, w2}
    Size = 2
    MaxMsgs = 5
SPECIFICATION FairSpec
INVARIANTS
    TypeOK
    SlotExclusive
    WrittenInOrder
    FilledBeforeTaken
    LogInv
PROPERTIES
    LogReturns
    EveryMessageWritten
\* The reader is done, or waits for a message behind the last.
CHECK_DEADLOCK FALSE
