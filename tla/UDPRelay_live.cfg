SPECIFICATION FairSpec
CONSTANTS
    Clients = {c1, c2}
    Sessions = {s1}
    NoClient = NoClient
    NoSession = NoSession
    ReapPeriod = 1
PROPERTIES IdleReaped RepliersEnd CancelStops RetiredCloses
CHECK_DEADLOCK FALSE
