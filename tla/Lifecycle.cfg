SPECIFICATION FairSpec
CONSTANTS
    Client = {c1, c2}
    None = None
    MaxKeepAlive = 1
    Backlog = 2
INVARIANTS
    TypeOK
    NoStaleHello
    StopsForAReason
    DrainIsBounded
    ControlThreadIsAccountedFor
    HealthIsHonest
PROPERTIES
    ShutdownCompletes
    EveryClientGetsItsTurn
    StartupIsDecided
    EarlyPostIsAnswered
CHECK_DEADLOCK FALSE
