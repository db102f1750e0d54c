\* Every file of up to three lines, any of them cut.
SPECIFICATION Spec
CONSTANTS
    Lines <- CutLines
    MaxLines = 3
INVARIANTS
    FirstLineWins
    StoreFitsDetector
\* The file has been read.
CHECK_DEADLOCK FALSE
