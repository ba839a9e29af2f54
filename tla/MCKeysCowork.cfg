\* The cowork loop: a key with no combination after the prefix.
SPECIFICATION Spec
CONSTANTS
    Frontend = "cowork"
    PlainKeys <- Plain
    ArrowKeys <- Arrows
    OtherKeys <- Unbound
    Wordless <- NoCombo
    DefaultPrefix = "C-b"
    QuitKey = "C-q"
    SwapKey = "C-o"
    ConfigKeys <- NoConfig
    RepeatTimeout = 2
PROPERTIES
    PostPrefixKeyIsHeld
