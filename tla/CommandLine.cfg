SPECIFICATION Spec
CONSTANTS
    Options <- MCOptions
    Positionals <- MCPositionals
    Trailing <- MCTrailing
    Embedded <- WithKey
    Unusable <- BadFile
    MaxArgs = 6
    MaxShort = 2
    MaxRest = 2
    MaxGroups = 2
INVARIANTS TypeOK ScanAgrees ListenerReady ChecksAsTyped AllOrNothing CredentialsAsTyped
CHECK_DEADLOCK FALSE
