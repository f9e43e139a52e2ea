SPECIFICATION Spec
CONSTANTS
    Options <- TargetOptions
    Positionals <- TargetPositionals
    Trailing <- None
    Embedded <- WithKey
    Unusable <- None
    MaxArgs = 4
    MaxShort = 2
    MaxRest = 2
    MaxGroups = 1
INVARIANTS TargetSecured
CHECK_DEADLOCK FALSE
