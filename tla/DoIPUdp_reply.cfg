\* A request arrives while announcements are sent.
CONSTANTS
    Testers = {t1, t2}
    Datagrams <- OnlyRequests
    MaxDatagrams = 1
    A_DoIP_Announce_Num = 3
    Quiet = FALSE
    None = None
SPECIFICATION Spec
INVARIANTS ReplyGoesToSender
CHECK_DEADLOCK FALSE
