SPECIFICATION Spec
CONSTANTS
    Routes = {"auth"}
    EnvProxies = {FALSE}
    Challenges <- Lists
    MaxBody = 0
    MaxLen = 0
INVARIANTS CredentialsScope
CHECK_DEADLOCK FALSE
