SPECIFICATION Spec
CONSTANTS
    VideoFields <- WidthAndHeight
    ImagingFields <- BrightnessAndContrast
    OsdFields <- OsdText
    EncoderField = "encoder"
    Value <- TwoValues
    SupportedVideo <- Resolutions
    Presets <- Resolutions
    PresetEncoder = 1
    Client = {}
    Factory = {f1, f2}
    None = None
    StartConfig <- AllConfigs
    Requests <- AllRequests
SYMMETRY Symmetry
INVARIANTS
    TypeOK
    FactoryIsCurrent
PROPERTIES
    ImplementsRegister
