\* Eight programs: each policy, one or two threads and workers, kept files, a failing open.
CONSTANTS
    l1 = l1
    l2 = l2
    w1 = w1
    w2 = w2
    Loggers = {l1, l2}
    Workers = {w1, w2}
    Main = main
    Configurations <- Programs
    MaxCalls = 3
    FirstMonth <- June2023
    LastMonth <- May2024
SPECIFICATION FairSpec
INVARIANTS TypeOK EveryMessageAccounted FlushIsABarrier MessagesInTheirFiles TheRightFilesKept
    WritesToAnOpenFile
PROPERTIES ImplementsBoundedQueue ShutdownReturns
CHECK_DEADLOCK FALSE
