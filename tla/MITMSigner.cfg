SPECIFICATION FairSpec
CONSTANTS
    Conns = {c1, c2, c3}
    n1 = n1
    n2 = n2
    Names = {n1, n2}
    Setups <- MCSetups
    Leaves = {l1, l2, l3}
    Startup = Startup
    NoName = NoName
    NoLeaf = NoLeaf
INVARIANTS OneLeafPerSigner RightName
PROPERTIES HandshakeAnswered
CHECK_DEADLOCK FALSE
