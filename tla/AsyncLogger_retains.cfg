\* Two files are to be kept: February, March and April are logged.
CONSTANTS
    l1 = l1
    l2 = l2
    w1 = w1
    w2 = w2
    Loggers = {l1, l2}
    Workers = {w1, w2}
    Main = main
    Configurations <- JustTwoFiles
    MaxCalls = 3
    FirstMonth <- June2023
    LastMonth <- May2024
SPECIFICATION Spec
INVARIANTS RetainsTheLast
CHECK_DEADLOCK FALSE
