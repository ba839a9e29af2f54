\* A job that outlives the shell.
SPECIFICATION FairSpec
CONSTANTS
    MaxBytes = 1
    Sizes = {1}
    Jobs = TRUE
    Faults <- NoFaults
    Keys <- JustQuit
PROPERTIES
    DropReturns
\* The program ends.
CHECK_DEADLOCK FALSE
