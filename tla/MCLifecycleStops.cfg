\* One start command against two stop commands, one crash or failure.
CONSTANTS
    i0 = i0
    s1 = s1
    s2 = s2
    c1 = c1
    c2 = c2
    Instances <- MCInstances
    Sockets <- OneSocket
    Starters <- OneStart
    Stoppers <- TwoStops
    MaxU64 = 7
    MaxMishaps = 1
    InitialDisks <- FirstFiles
    NoInstance = NoInstance
    NoRecord = NoRecord
    Nobody = Nobody
    Stranger = Stranger

SPECIFICATION FairSpec

CHECK_DEADLOCK FALSE
INVARIANTS
    ServingStaysManaged
    StartLeavesInOrder
    OneStopSucceeds
PROPERTIES
    CommandsReturn
