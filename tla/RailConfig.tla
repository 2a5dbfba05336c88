----------------------------- MODULE RailConfig -----------------------------
(***************************************************************************)
(* The configuration of rail-media (media-server/src/config.h) and what a  *)
(* control request makes of it.  A configuration is a function from fields *)
(* to values.  A request that passed the JSON checks of control_server.cpp *)
(* carries a non-empty set of fields of one group with their new values;   *)
(* what it leaves out keeps the value it has.                              *)
(***************************************************************************)
EXTENDS Integers

CONSTANTS
    VideoFields,      \* width, height, fps, bitrate_kbps
    ImagingFields,    \* brightness, contrast, color_saturation
    OsdFields,        \* osd_enabled, osd_text
    EncoderField,     \* encoder: no request names it
    Value,            \* values of a field
    SupportedVideo,   \* what supported_dynamic_video_config accepts
    Presets,          \* the video part of the entries of kProfiles
    PresetEncoder     \* the encoder all of them name

Field == VideoFields \union ImagingFields \union OsdFields \union {EncoderField}
Config == [Field -> Value]

ASSUME RailConfigAssumption ==
    /\ SupportedVideo \subseteq [VideoFields -> Value]
    /\ Presets \subseteq SupportedVideo
    /\ PresetEncoder \in Value
    /\ EncoderField \notin VideoFields \union ImagingFields \union OsdFields
    /\ VideoFields \intersect (ImagingFields \union OsdFields) = {}
    /\ ImagingFields \intersect OsdFields = {}

(* New values for some fields. *)
Change(fields) == UNION {[some -> Value] : some \in (SUBSET fields) \ {{}}}

(* Mutant of Overlay: the rest is not carried over; 0 is no setting. *)
OverlayAlone(config, change) ==
    [f \in Field |-> IF f \in DOMAIN change THEN change[f] ELSE 0]

(* config with the fields of change replaced. *)
Overlay(config, change) ==
    [f \in Field |-> IF f \in DOMAIN change THEN change[f] ELSE config[f]]

Restriction(config, fields) == [f \in fields |-> config[f]]

(* apply_profile: the video part and the encoder. *)
PresetChange(preset) ==
    [f \in VideoFields \union {EncoderField} |->
        IF f = EncoderField THEN PresetEncoder ELSE preset[f]]

(* POST /config, /imaging, /osd, /preset/<name> and its alias              *)
(* /profile/<name>.                                                        *)
Request ==
    [op : {"config"}, change : Change(VideoFields)]
        \union [op : {"imaging"}, change : Change(ImagingFields)]
        \union [op : {"osd"}, change : Change(OsdFields)]
        \union [op : {"preset"}, change : {PresetChange(p) : p \in Presets}]
        \union [op : {"unknown preset"}, change : {PresetChange(p) : p \in Presets}]

(* What the *_now functions reject: a video configuration that is not      *)
(* supported as a whole, and a preset that does not exist.                 *)
Accepted(config, r) ==
    /\ r.op = "config" => Restriction(Overlay(config, r.change), VideoFields) \in SupportedVideo
    /\ r.op # "unknown preset"

(* What the control thread hands to the main loop: a whole configuration   *)
(* for /config, all the fields of the group for /imaging and /osd, and for *)
(* a preset its name.                                                      *)
HandedOver(config, r) ==
    CASE r.op = "config"  -> Overlay(config, r.change)
      [] r.op = "imaging" -> Restriction(Overlay(config, r.change), ImagingFields)
      [] r.op = "osd"     -> Restriction(Overlay(config, r.change), OsdFields)
      [] OTHER            -> r.change

(* The answer to a request that was, or was not, carried out. *)
Code(r, ok) == IF ok THEN 200 ELSE IF r.op \in {"preset", "unknown preset"} THEN 404 ELSE 500

=============================================================================
