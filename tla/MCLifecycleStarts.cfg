\* Two start commands for one port and a stop command, two crashes or failures.
CONSTANTS
    i0 = i0
    s1 = s1
    s2 = s2
    c1 = c1
    c2 = c2
    Instances <- MCInstances
    Sockets <- OneSocket
    Starters <- TwoStarts
    Stoppers <- OneStop
    MaxU64 = 5
    MaxMishaps = 2
    InitialDisks <- NoFile
    NoInstance = NoInstance
    NoRecord = NoRecord
    Nobody = Nobody
    Stranger = Stranger

SPECIFICATION Spec

CHECK_DEADLOCK FALSE
INVARIANTS
    FailedStartLeavesNothing
