----------------------------- MODULE PtzRequest -----------------------------
(***************************************************************************)
(* The checks of onvif-server/src/soap/soap_ptz_service.cpp: which PTZ     *)
(* calls are refused, for which reason, and how long a ContinuousMove may  *)
(* run (parse_ptz_timeout_ms).                                             *)
(*                                                                         *)
(* A duration is a sequence of parts, a number and a unit each; the number *)
(* is in units of 1/10000 (Tick), so that amounts below the millisecond    *)
(* can be told apart.  The arithmetic is exact, that of the code is in     *)
(* doubles.                                                                *)
(***************************************************************************)
EXTENDS SoapCommon, Sequences, SequencesExt, FiniteSetsExt

CONSTANT NoVector   \* no PanTilt element in the request

Tick == 10000
LongestTicks == 3600 * Tick
UnitSeconds == [H |-> 3600, M |-> 60, S |-> 1]

(* "none": strtod finds no number, or one out of range, or nothing after   *)
(* it.  "nan": strtod reads NaN.                                           *)
Part == [number : {"finite", "nan", "none"}, amount : Int, unit : STRING]
Duration == [prefix : STRING, parts : Seq(Part)]

PartRefused(part) ==
    \/ part.number = "none"
    \/ part.number = "finite" /\ part.amount < 0
    \/ part.unit \notin DOMAIN UnitSeconds

(* Mutant of AddPart: a part replaces what was read before it. *)
AddPartAlone(ticks, part) == part.amount * UnitSeconds[part.unit]

AddPart(ticks, part) == ticks + part.amount * UnitSeconds[part.unit]

Refused == 0
DefaultTimeout == 1000

(* The timeout in milliseconds, or Refused.  An absent or empty element    *)
(* means the default.  NaN passes both comparisons, and what lround makes  *)
(* of it is no positive int on any build.                                  *)
parse_ptz_timeout_ms(duration) ==
    LET parts == duration.parts
        ticks == FoldLeft(AddPart, 0, parts)
    IN  IF duration.prefix = "" /\ parts = <<>> THEN DefaultTimeout
        ELSE IF \/ duration.prefix # "PT" \/ parts = <<>>
                \/ \E i \in DOMAIN parts : PartRefused(parts[i]) \/ parts[i].number = "nan"
                \/ ticks <= 0 \/ ticks > LongestTicks
               THEN Refused
        ELSE (ticks + 5) \div 10

(* Names of the handlers __tptz__SetPreset and its like. *)
Moves == {"ContinuousMove", "RelativeMove"}
CallOps ==
    Moves \union {"SetPreset", "GotoPreset", "GetStatus", "SetHomePosition", "GotoHomePosition", "Stop"}

(* What is wrong with a call, as far as its handler looks. *)
Defects(call) ==
    {defect \in {"auth", "profile", "preset", "zoom", "vector", "timeout"} :
        CASE defect = "auth"    -> ~require_auth(call.header)
          [] defect = "profile" -> ~validate_profile_token(call.profile)
          [] defect = "preset"  -> \/ call.op = "SetPreset" /\ call.preset \notin {"", "home"}
                                   \/ call.op = "GotoPreset" /\ call.preset # "home"
          [] defect = "zoom"    -> call.op \in Moves \union {"GotoPreset", "GotoHomePosition"} /\ call.zoom
          [] defect = "vector"  -> call.op \in Moves /\ call.vector = NoVector
          [] OTHER              -> call.op = "ContinuousMove" /\ parse_ptz_timeout_ms(call.timeout) = Refused}

(* The order in which the handlers check, and answer with the first fault. *)
Checks == <<"auth", "profile", "preset", "zoom", "vector", "timeout">>

Verdict(call) ==
    LET failed == {i \in DOMAIN Checks : Checks[i] \in Defects(call)}
    IN  IF failed = {} THEN "accepted" ELSE Checks[Min(failed)]

(* Stop with PanTilt = false is acknowledged and does nothing. *)
NothingToDo(call) == call.op = "Stop" /\ ~call.panTilt

(* The operation of the PTZ device a call asks for. *)
DeviceRequest(call) ==
    [op |-> CASE call.op \in {"GotoPreset", "GotoHomePosition"} -> "GotoHome"
              [] call.op \in {"SetPreset", "SetHomePosition"}   -> "SetHome"
              [] OTHER                                         -> call.op,
     x  |-> IF call.op \in Moves THEN call.vector.x ELSE 0,
     y  |-> IF call.op \in Moves THEN call.vector.y ELSE 0]

=============================================================================
