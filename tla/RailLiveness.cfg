SPECIFICATION FairSpec
CONSTANTS
    VideoFields <- HeightOnly
    ImagingFields <- NoFields
    OsdFields <- NoFields
    EncoderField = "encoder"
    Value <- OneValue
    SupportedVideo <- Resolutions
    Presets <- Resolutions
    PresetEncoder = 1
    Client = {c1}
    Factory = {f1, f2}
    None = None
    StartConfig <- FirstPreset
    Requests <- OnlyPresets
INVARIANTS
    NotificationIsToCome
PROPERTIES
    RequestsReturn
    StatusSettles
