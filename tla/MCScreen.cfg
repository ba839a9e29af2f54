\* The cockpit's keys under every configuration of three of them, nested splits
\* and closes on a terminal that grows and shrinks, every way to name a key.
SPECIFICATION ScreenSpec
CONSTANTS
    Frontend = "cockpit"
    PlainKeys <- Plain
    ArrowKeys <- Arrows
    OtherKeys <- Unbound
    Wordless <- NoCombo
    DefaultPrefix = "C-b"
    QuitKey = "C-q"
    SwapKey = "C-o"
    ConfigKeys <- Rebound
    RepeatTimeout = 2
    Terminals <- TwoTerminals
    MaxPanes = 4
    NoPane = NoPane
    Lower = {"b", "c", "m", "s"}
    Upper <- OtherCase
    Punctuation = {"[", " "}
    NoByte = {"-", "1"}
    Named = {"Left", "Enter", "Tab", "BSpace", "Escape"}
    Function = {"F5"}
    Misnamed = {"F13", "bb"}
    Extra = {"BackTab", "Delete"}
INVARIANTS
    LiteralPrefixReachable
    LiteralIsTheKey
    PanesTile
    WaysBack
PROPERTIES
    PostPrefixKeyIsHeld
    NoMoveAfterTheWindow
    FilledStaysFilled
\* A key is named once.
CHECK_DEADLOCK FALSE
