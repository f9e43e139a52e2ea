SPECIFICATION FairSpec
CONSTANTS
    Kinds = {"tcp", "tls", "dtls", "socks", "socksViaHTTP", "connect"}
    MaxChunks = 2
INVARIANTS EOFOnlyAtEnd NilMeansComplete
PROPERTIES EndPropagates HandlerEnds
CHECK_DEADLOCK FALSE
