\* Clients one after another; the timer closes descriptor 0.
CONSTANTS
    c1 = c1
    c2 = c2
    Clients = {c1, c2, c3}
    Configurations <- OnlyJustActivation
    None = None
SPECIFICATION Spec
INVARIANTS SocketReady
CHECK_DEADLOCK FALSE
