\* Three workers; main and the running tasks enqueue; the destructor races with both.
CONSTANTS
    Workers = {w1, w2, w3}
    Owner = main
    Nobody = nobody
    MaxTasks = 3
    MaxSpurious = 1
SPECIFICATION FairSpec
INVARIANTS TypeOK EachTaskOnce DestroyedIsQuiet
PROPERTIES DestructorReturns EveryTaskRuns
CHECK_DEADLOCK FALSE
