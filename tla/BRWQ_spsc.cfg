\* One consumer and one producer, every kind of wait.
CONSTANTS
    Waiters = {c1}
    Signalers = {p1}
    Timeouts = {"try", "negative", "zero", "positive"}
    MaxElements = 5
    Prefilled = 0
SPECIFICATION FairSpec
INVARIANTS TypeOK AssertionsHold TokensMatchWaiters SizeNeverOverstated
PROPERTIES CallsEnd
CHECK_DEADLOCK FALSE
