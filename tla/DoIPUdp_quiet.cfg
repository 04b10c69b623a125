\* Two testers, every kind of datagram, all after the announcements.
CONSTANTS
    Testers = {t1, t2}
    Datagrams <- EveryKind
    MaxDatagrams = 3
    A_DoIP_Announce_Num = 3
    Quiet = TRUE
    None = None
SPECIFICATION FairSpec
INVARIANTS TypeOK EachToItsAddress NackNamesFirstFault ClientsUnderstand
PROPERTIES EveryRequestIsAnswered
CHECK_DEADLOCK FALSE
