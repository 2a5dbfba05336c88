SPECIFICATION DryFairSpec
CONSTANTS
    PanMin = 0
    PanMax = 2
    TiltMin = 0
    TiltMax = 1
    HomePan = 1
    HomeTilt = 0
    PtzStep = 1
    PtzSpeed = 1
    AxisUnit = 1
    IntMax = 3
    LongMax = 7
    OutOfRange = 0
    AxisValues <- OneWay
    SoapOutcomes <- OnlyOk
    TimerOutcomes <- OnlyOk
    MayRestart = FALSE
    MaxGeneration = 4
    Secured = TRUE
    NoVector = NoVector
    NoCall = NoCall
    Calls <- SomeCalls
INVARIANTS
    DryTypeOK
    StatusWasTrue
    AcknowledgedMeansStored
    TimeoutIsHonest
PROPERTIES
    DryRunImplementsMotion
    MotionEnds
    CallsAreAnswered
CHECK_DEADLOCK FALSE
