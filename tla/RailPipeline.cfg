SPECIFICATION Spec
CONSTANTS
    VideoFields <- HeightOnly
    ImagingFields <- NoFields
    OsdFields <- NoFields
    EncoderField = "encoder"
    Value <- OneValue
    SupportedVideo <- Resolutions
    Presets <- Resolutions
    PresetEncoder = 1
    Client = {c1, c2}
    Factory = {f1, f2}
    None = None
    StartConfig <- FirstPreset
    Requests <- PresetRequests
SYMMETRY Symmetry
INVARIANTS
    NoClientOnOldPipeline
    ClientsCounted
    StatusesAgree
    ReadyHasAPipeline
