SPECIFICATION FairSpec
CONSTANTS
    Routes <- AllRoutes
    EnvProxies = {TRUE, FALSE}
    Challenges <- Lists
    MaxBody = 2
    MaxLen = 2
INVARIANTS TypeOK NoBodyLeak BodyReplayed ChallengeAnswered DigestVerifies LengthKept
PROPERTIES GoneEnds
CHECK_DEADLOCK FALSE
