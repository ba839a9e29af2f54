\* Errors and panics on the way, a reader that dies, jobs that outlive the shell.
SPECIFICATION FairSpec
CONSTANTS
    MaxBytes = 2
    Sizes = {1, 2}
    Jobs = TRUE
    Faults <- SomeFaults
    Keys <- AllKeys
INVARIANTS
    ObservedInOrder
    LeavesCleanly
PROPERTIES
    PaneIsLive
    LeavingEnds
\* The program ends.
CHECK_DEADLOCK FALSE
