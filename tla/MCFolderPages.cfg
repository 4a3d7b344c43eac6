\* Three messages over two seconds, pages of two rows.
CONSTANTS
    Messages = {1, 2, 3}
    Readers = {1, 2}
    MaxTime = 2
    Second = 2
    Limit = 2
SPECIFICATION FairSpec
CHECK_DEADLOCK FALSE
INVARIANTS
    TypeOK
    PagesDisjoint
    SkippedAtSeam
PROPERTIES
    CursorDescends
    WalkEnds
