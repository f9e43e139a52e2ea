SPECIFICATION Spec
CONSTANTS
    Clients = {c1, c2}
    Sessions = {s1, s2}
    NoClient = NoClient
    NoSession = NoSession
    ReapPeriod = 1
SYMMETRY Symmetry
INVARIANTS TypeOK MappedIsOpen NoLeak
PROPERTIES ReapOnlyQuiet ImplementsTable
CHECK_DEADLOCK FALSE
