\* Three tokens over tabs in any arrangement, two terminal sizes, shells that
\* print in front and behind and may leave a job.
SPECIFICATION FairSpec
CONSTANTS
    MaxTokens = 3
    Areas <- TwoAreas
    Chatters <- OneTalks
    NoZoom = NoZoom
INVARIANTS
    PiecesAgree
    DrawnAtItsSize
PROPERTIES
    ReapIsClean
    DeadPanesGo
