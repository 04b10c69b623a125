\* Two clients: with the timer, leaving at any time, and without it, waiting for their replies.
CONSTANTS
    c1 = c1
    c2 = c2
    Clients = {c1, c2}
    Configurations <- TimedAndUntimed
    None = None
SPECIFICATION LiveSpec
INVARIANTS TypeOK OneTimerThread DeliveredWasActivated NothingLeftOpen
PROPERTIES DeniedStaysDenied JoinReturns EverySessionEnds
CHECK_DEADLOCK FALSE
