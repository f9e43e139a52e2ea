SPECIFICATION FairSpec
CONSTANTS
    g1 = g1
    g2 = g2
    Groups = {g1, g2}
    Plans <- RelayAndProxy
INVARIANTS CancelIsClean NilMeansStopped
PROPERTIES CancelExits FailureReturns SendersFinish
CHECK_DEADLOCK FALSE
