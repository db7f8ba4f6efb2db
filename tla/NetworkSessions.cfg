CONSTANTS
    Callers = {c1, c2}
    Sessions = {s1, s2, s3}
    EarlyEnd = TRUE
    NoSession = NoSession
SPECIFICATION FairSpec
INVARIANTS
    RegistryIsSound
    ListIsSound
PROPERTIES
    EveryConnectSettles
    LostSessionsEnd
    ListedIsHeard
CHECK_DEADLOCK FALSE
