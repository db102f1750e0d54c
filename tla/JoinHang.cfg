\* Violated: the program cannot end.
CONSTANTS
    Writers = {w1}
    Size = 2
    MaxMsgs = 2
SPECIFICATION ProgramSpec
PROPERTY JoinReturns
CHECK_DEADLOCK FALSE
