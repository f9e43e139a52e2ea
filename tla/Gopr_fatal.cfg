SPECIFICATION Spec
CONSTANTS
    g1 = g1
    g2 = g2
    Groups = {g1}
    Plans <- OneRelay
INVARIANTS FatalVisible
CHECK_DEADLOCK FALSE
