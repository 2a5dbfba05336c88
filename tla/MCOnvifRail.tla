----------------------------- MODULE MCOnvifRail -----------------------------
(***************************************************************************)
(* Values for the small instances of OnvifRail.  1 is the built-in default *)
(* of each setting, 2 another value.  Two settings of a group, one to      *)
(* change and one to keep, and groups of every kind: requests of one may   *)
(* still wait while another is read and written.                           *)
(*                                                                         *)
(* As imaging settings, 1 stands for 50, 2 for 33.1 and 3 for the float    *)
(* next to 33.1, which is printed as 33.1 again.                           *)
(***************************************************************************)
EXTENDS OnvifRail

BitrateOnly == {"bitrate_kbps"}
HeightAndBitrate == {"height", "bitrate_kbps"}
EnabledAndText == {"osd_enabled", "osd_text"}
BrightnessAndContrast == {"brightness", "contrast"}
NoFields == {}
TwoValues == {1, 2}
ThreeValues == {1, 2, 3}

PrintedValue == [v \in Value |-> IF v = 3 THEN 2 ELSE v]
FloatValue == [v \in Value |-> IF v = 2 THEN 3 ELSE v]
SameValue == [v \in Value |-> v]

(* Bitrate 3 is not on offer, 2 is one the command line may give but no    *)
(* dynamic change.  The command line may give a contrast of any number of  *)
(* digits and a text of any length, 2 is too long for a change.            *)
LowBitrates == [VideoFields -> TwoValues]
BothOne == {v \in [VideoFields -> Value] : \A f \in VideoFields : v[f] = 1}
LongText == {2}

AllOnes == [f \in Field |-> 1]
StartConfigs ==
    {[AllOnes EXCEPT !["bitrate_kbps"] = 2, !["contrast"] = 3, !["osd_text"] = 3]}

(* One change of each kind: a brightness that is a float, contrast         *)
(* unnamed; a bitrate; an OSD that is created, one whose new text is too   *)
(* long, one deleted with its text unnamed.                                *)
ChangeBrightness == [op |-> "SetImaging", change |-> [f \in {"brightness"} |-> 3]]
ChangeBitrate == [op |-> "SetVideo", change |-> [f \in {"bitrate_kbps"} |-> 1]]
ChangeOsd ==
    {c \in OsdCalls :
        CASE c.op = "CreateOsd" -> c.change["osd_text"] = 1
          [] c.op = "SetOsd"    -> c.change["osd_text"] = 2
          [] OTHER -> TRUE}
AllSettings ==
    {ChangeBitrate, ChangeBrightness} \union ChangeOsd \union {c \in Reads : c.op \in {"GetOsd", "Health"}}

(* Others switch the OSD on and off. *)
OtherSettings ==
    {r \in Request : r.op = "osd" /\ DOMAIN r.change = {"osd_enabled"} /\ r.change["osd_enabled"] # 3}

(* Both heights are on offer, a change asks for one of them, and nothing   *)
(* else goes on.                                                           *)
AnyVideo == [VideoFields -> Value]
AnyHeight == {c \in VideoCalls : DOMAIN c.change = {"height"}} \union {c \in Reads : c.op = "GetVideo"}
DefaultConfig == {AllOnes}
NoText == {}
NoRequests == {}

=============================================================================
