\* Round two of b_forth.cpp: the queue is filled, then three readers take from it.
CONSTANTS
    Waiters = {reader1, reader2, reader3}
    Signalers = {}
    Timeouts = {"positive"}
    MaxElements = 2
    Prefilled = 2
SPECIFICATION Spec
INVARIANTS DequeueSucceeds
CHECK_DEADLOCK FALSE
