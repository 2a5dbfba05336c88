SPECIFICATION Spec
CONSTANTS
    PanMin = 0
    PanMax = 2
    TiltMin = 0
    TiltMax = 1
    HomePan = 1
    HomeTilt = 0
    PtzStep = 1
    PtzSpeed = 1
    AxisUnit = 1
    IntMax = 3
    LongMax = 7
    OutOfRange = 0
    AxisValues <- BothWays
    SoapOutcomes <- AnyOutcome
    TimerOutcomes <- AnyOutcome
    MayRestart = TRUE
    MaxGeneration = 3
INVARIANTS
    TypeOK
    HealthyMotionIsWatched
    AcknowledgedMeansDone
    RelativeBaseIsCurrent
PROPERTIES
    TimerStopsOnlyItsOwnMotion
    ImplementsPtzMotion
