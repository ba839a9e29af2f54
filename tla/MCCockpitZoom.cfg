\* A pane is split while it is zoomed.
SPECIFICATION Spec
CONSTANTS
    MaxTokens = 3
    Areas <- OneArea
    Chatters <- OneTalks
    NoZoom = NoZoom
INVARIANTS
    ZoomedPaneHasFocus
