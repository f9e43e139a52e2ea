SPECIFICATION Spec
CONSTANTS
    Clients = {c1}
    Sessions = {s1}
    NoClient = NoClient
    NoSession = NoSession
    ReapPeriod = 1
INVARIANTS ReaderUntilClosed
CHECK_DEADLOCK FALSE
