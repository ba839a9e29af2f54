\* Two first commands, five bytes of log cut anywhere, three kills, three records and two workers,
\* notebooks of three cells.
SPECIFICATION Spec
CONSTANTS
    Bytes = {"n", "r", "%", "A"}
    Newline = "n"
    Return = "r"
    Percent = "%"
    Lower <- DigitCase
    Patterns <- Secrets
    Attempts = 2
    ChunkSize = 2
    PollBytes = 3
    PollLines = 1
    PartialCap = 2
    VisibleCap = 1
    OverlapCap = 3
    MaxBytes = 5
    KillAttempts = 3
    N = 3
    Workers = {w1, w2}
    Legacy = {1}
    Broken = {}
    Notebooks <- UpToThree
    Extras <- UpToThreeWords
    RouteFlag = "--ServerApp.default_url"
    Joined <- JoinedArgs
    Routes <- SlashDropped
    Switches = {"--fixture-invalid-only"}
    Valued = {"--fixture-break-registry"}
    Founds = {{}, {"environment.yml", ".venv/bin/jupyter"}}
    Callers = {{"PATH", "LD_PRELOAD", "JUPYTER_TOKEN_FILE"}}
    Allowed = {"PATH", "HOME"}
    Cmds = {c1, c2}
    Homes = {"absolute", "relative", "empty"}
INVARIANTS
    ChildIsControlled
    LogIsTrue
    StateIsPrivate
    NothingLeftUnreported
    ListIsTrue
    ReportNamesTheFailure
PROPERTIES
    CommandsEnd
\* A command ends.
CHECK_DEADLOCK FALSE
