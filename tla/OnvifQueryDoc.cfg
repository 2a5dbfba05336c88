SPECIFICATION Spec
CONSTANTS
    VideoFields <- HeightAndBitrate
    ImagingFields <- NoFields
    OsdFields <- EnabledAndText
    EncoderField = "encoder"
    Value <- TwoValues
    SupportedVideo <- AnyVideo
    Presets <- AnyVideo
    PresetEncoder = 1
    StartConfig <- DefaultConfig
    Defaults <- AllOnes
    OfferedVideo <- AnyVideo
    EnabledField = "osd_enabled"
    TextField = "osd_text"
    Enabled = 1
    Disabled = 2
    RefusedText <- NoText
    Calls <- AnyHeight
    OtherRequests <- NoRequests
    MayRestart = FALSE
    MayTruncate = FALSE
    MayTrickle = FALSE
    SixDigits <- SameValue
    AsFloat <- SameValue
    Backlog = 3
    Nothing = Nothing
PROPERTIES
    QueriesTellTheTruth
