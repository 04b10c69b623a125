\* One client that activates and then says nothing.
CONSTANTS
    c1 = c1
    c2 = c2
    Clients = {c1}
    Configurations <- OnlyJustActivation
    None = None
SPECIFICATION FairSpec
PROPERTIES TimeoutDisconnects
CHECK_DEADLOCK FALSE
