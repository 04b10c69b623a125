\* Three threads; files with and without a rest, an empty last slice, and one too short.
CONSTANTS
    THREAD_NUM = 3
    Lengths = {1, 4, 5}
    Racing = 2
SPECIFICATION FairSpec
INVARIANTS TypeOK SlicesDealtOut FileIsRight
PROPERTIES ThreadsEnd
CHECK_DEADLOCK FALSE
