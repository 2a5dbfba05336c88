SPECIFICATION FairSpec
CONSTANTS
    VideoFields <- BitrateOnly
    ImagingFields <- BrightnessAndContrast
    OsdFields <- EnabledAndText
    EncoderField = "encoder"
    Value <- ThreeValues
    SupportedVideo <- BothOne
    Presets <- BothOne
    PresetEncoder = 1
    StartConfig <- StartConfigs
    Defaults <- AllOnes
    OfferedVideo <- LowBitrates
    EnabledField = "osd_enabled"
    TextField = "osd_text"
    Enabled = 1
    Disabled = 2
    RefusedText <- LongText
    Calls <- AllSettings
    OtherRequests <- OtherSettings
    MayRestart = TRUE
    MayTruncate = TRUE
    MayTrickle = TRUE
    SixDigits <- PrintedValue
    AsFloat <- FloatValue
    Backlog = 2
    Nothing = Nothing
INVARIANTS
    TypeOK
    AcknowledgedIsFinal
PROPERTIES
    OnlyNamedSettingsChange
    OsdCallsFitTheOsd
    CallsAreAnswered
