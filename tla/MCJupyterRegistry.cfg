\* Two processes, two instance ids, two sockets on one port, every first file.
CONSTANTS
    i1 = i1
    i2 = i2
    p1 = p1
    p2 = p2
    Instances <- MCInstances
    Sockets <- MCSockets
    Procs <- MCProcs
    MaxU64 = 6
    LockPatience = 1
    InitialDisks <- FirstFiles
    NoInstance = NoInstance
    NoRecord = NoRecord
    NoProc = NoProc

SPECIFICATION FairSpec

INVARIANTS
    RecordsStayTrue
PROPERTIES
    RevisionTellsFilesApart
    AtomicFile
    WaitEnds
