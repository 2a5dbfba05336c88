SPECIFICATION FairSpec
CONSTANTS
    PanMin = 0
    PanMax = 2
    TiltMin = 0
    TiltMax = 1
    HomePan = 1
    HomeTilt = 0
    PtzStep = 1
    PtzSpeed = 1
    AxisUnit = 1
    IntMax = 3
    LongMax = 7
    OutOfRange = 0
    AxisValues <- OneWay
    SoapOutcomes <- MayFail
    TimerOutcomes <- OnlyOk
    MayRestart = FALSE
    MaxGeneration = 2
PROPERTY
    MotionEnds
