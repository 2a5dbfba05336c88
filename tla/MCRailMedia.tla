---------------------------- MODULE MCRailMedia ----------------------------
(***************************************************************************)
(* Values for the small instances of RailMedia.  Changes of settings are   *)
(* explored with two values of every field and no RTSP client, clients and *)
(* media with one value and the presets: what a change does to the RTSP    *)
(* side does not depend on which values it brings.  Two clients and two    *)
(* factories: one of each may belong to the configuration before.  The     *)
(* liveness run asks for presets that exist only: a request refused at     *)
(* once posts a job like any other.                                        *)
(***************************************************************************)
EXTENDS RailMedia, TLC

(* Width and height, which must be changed together; two imaging fields    *)
(* that can be changed alone; one field of the OSD.                        *)
WidthAndHeight == {"width", "height"}
HeightOnly == {"height"}
BrightnessAndContrast == {"brightness", "contrast"}
OsdText == {"osd_text"}
NoFields == {}

OneValue == {1}
TwoValues == {1, 2}
Resolutions == {v \in [VideoFields -> Value] : \A f, g \in VideoFields : v[f] = v[g]}

FirstPreset == {Overlay([f \in Field |-> 1], PresetChange(p)) : p \in {CHOOSE p \in Presets : TRUE}}
AllConfigs == Config
AllRequests == Request
PresetRequests == {r \in Request : r.op \in {"preset", "unknown preset"}}
OnlyPresets == {r \in Request : r.op = "preset"}

Symmetry == Permutations(Client) \union Permutations(Factory)

=============================================================================
