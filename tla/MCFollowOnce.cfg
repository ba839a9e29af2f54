\* No banner: what is read twice.
SPECIFICATION FollowSpec
CONSTANTS
    MaxBytes = 4
    Banner = 0
    Magic = 0
    Blanks <- NoBlanks
    MaxPolls = 2
INVARIANTS
    ObservedOnce
