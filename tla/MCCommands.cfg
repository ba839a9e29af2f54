\* Each part at the smallest size at which its cases happen; see the README.
SPECIFICATION Spec
CONSTANTS
    Paths <- OnPath
    Real <- RealFiles
    SearchPaths <- ThreeDeep
    Explicits = {"none", "w1", "r1", "alias", "py", "gone", "odd"}
    None = "none"
    Rust = {"r1", "r2"}
    Python = "py"
    Wrappers = {"w1", "w2", "odd"}
    Unjoinable = {"odd"}
    Roster <- ThreePhases
    RailWidth = 2
    Limit = 9
    ScrollRange = 4
    Areas <- SmallAreas
    MaxVersion = 3
    MaxSignals = 2
    MaxEdits = 1
    Repos <- TwoRepos
    Known <- TwoProfiles
    Default = "d"
    DefaultProfiles <- Backup
    DefaultStrategies = {"Halt", "Skip", "Stash", "Branch", "Overwrite"}
    Commands = {c1, c2}
    Kinds = {"todos", "ideas", "done", "daily", "status", "meeting", "log", "prompt"}
    Bodies <- SomeBodies
    Absent = Absent
    MaxNotes = 1
    Sessions = {"s1", "s2", "s3"}
    Uses <- OneMount
    Exposures = {"cli", "agent"}
    Installed <- TwoInstalled
    Handwritten <- SomeManifests
    Torn = Torn
    NoVenv = NoVenv
    Unnamed = Unnamed
    OwnServers <- OwnServer
    Modulex <- ModulexServer
    MaxBytes = 6
    Banner = 2
    Magic = 1
    Blanks <- BlankInside
    MaxPolls = 2
INVARIANTS
    ContractIsTrue
    CursorIsOnAnAgent
    FrameIsTiled
    ReposAreTended
    HopsSearchPast
    MountedIsOptedIn
    NotesAreKept
    NothingMissed
PROPERTIES
    CommentsFollowActivity
\* A command ends.
CHECK_DEADLOCK FALSE
