------------------------------ MODULE PtzAxes ------------------------------
(***************************************************************************)
(* The arithmetic of onvif-server/src/ptz/ptz_device.cpp: how an ONVIF     *)
(* axis value becomes a step or a speed, and how a position is clamped to  *)
(* the mechanical range.                                                   *)
(*                                                                         *)
(* An ONVIF axis value is a double.  Here it is an integer number of       *)
(* 1/AxisUnit: AxisUnit is full scale (x = 1.0).  Values beyond full scale *)
(* are inputs too, the handlers do not refuse them, and an infinity or NaN *)
(* behaves as one that is too large for a long.                            *)
(*                                                                         *)
(* int and long have their width.  static_cast<int> keeps the low bits; so *)
(* do the additions and the negation of the build, whose overflow C++      *)
(* leaves undefined.                                                       *)
(***************************************************************************)
EXTENDS Integers

CONSTANTS
    PanMin, PanMax, TiltMin, TiltMax,  \* 30..150 and 0..160 degrees in the code
    HomePan, HomeTilt,                 \* the home position at start, 90 and 45
    PtzStep,                           \* --ptz-step: degrees of a full-scale RelativeMove
    PtzSpeed,                          \* --ptz-speed: degrees/s of a full-scale ContinuousMove
    AxisUnit,                          \* full scale of an axis value
    IntMax, LongMax,                   \* 2^31 - 1; 2^63 - 1, or 2^31 - 1 on a 32-bit system
    OutOfRange                         \* what std::lround returns when no long fits

(* parse_args takes --ptz-step and --ptz-speed in 1..65535; only their     *)
(* sign matters here.                                                      *)
ASSUME RangeAssumption ==
    /\ PanMin \in Int /\ PanMax \in Int /\ TiltMin \in Int /\ TiltMax \in Int
    /\ HomePan \in PanMin..PanMax
    /\ HomeTilt \in TiltMin..TiltMax

ASSUME ScaleAssumption ==
    /\ PtzStep \in Nat \ {0}
    /\ PtzSpeed \in Nat \ {0}
    /\ AxisUnit \in Nat \ {0}

ASSUME WidthAssumption ==
    /\ IntMax \in Nat \ {0}
    /\ LongMax \in Nat /\ IntMax <= LongMax
    /\ OutOfRange \in -(LongMax + 1)..LongMax

IntRange == -(IntMax + 1)..IntMax

(* The int with the low bits of n. *)
Wrap(n) == ((n + IntMax + 1) % (2 * (IntMax + 1))) - (IntMax + 1)

Position == [pan : PanMin..PanMax, tilt : TiltMin..TiltMax]
Velocity == [pan : IntRange, tilt : IntRange]

Home == [pan |-> HomePan, tilt |-> HomeTilt]
Rest == [pan |-> 0, tilt |-> 0]

clamp_int(value, min_value, max_value) ==
    IF value < min_value THEN min_value
    ELSE IF value > max_value THEN max_value
    ELSE value

clamp_ptz_position(position) ==
    [pan  |-> clamp_int(position.pan, PanMin, PanMax),
     tilt |-> clamp_int(position.tilt, TiltMin, TiltMax)]

Magnitude(value) == IF value < 0 THEN -value ELSE value

(* scale * |value| / AxisUnit to the nearest integer, a half away from     *)
(* zero.                                                                   *)
Rounded(scale, value) ==
    (2 * scale * Magnitude(value) + AxisUnit) \div (2 * AxisUnit)

lround(scale, value) ==
    IF Rounded(scale, value) <= LongMax THEN Rounded(scale, value) ELSE OutOfRange

(* The long is narrowed to int; a non-zero axis value never becomes no     *)
(* movement at all.                                                        *)
ScaledAxis(scale, value) ==
    LET narrowed == Wrap(lround(scale, value))
        size == IF narrowed = 0 THEN 1 ELSE narrowed
    IN  IF value = 0 THEN 0
        ELSE IF value < 0 THEN Wrap(-size) ELSE size

delta_from_axis(value) == ScaledAxis(PtzStep, value)
speed_from_axis(value) == ScaledAxis(PtzSpeed, value)

Speeds(x, y) == [pan |-> speed_from_axis(x), tilt |-> speed_from_axis(y)]

(* The position GetStatus reports, -1.0 to 1.0, as the numerator over the  *)
(* width of the range (or 0 over nothing when the range is one position).  *)
angle_to_onvif(value, min_value, max_value) ==
    LET width == max_value - min_value
    IN  IF width = 0 THEN 0
        ELSE clamp_int(2 * value - (min_value + max_value), -width, width)

ptz_pan_to_onvif(pan) == angle_to_onvif(clamp_int(pan, PanMin, PanMax), PanMin, PanMax)
ptz_tilt_to_onvif(tilt) == angle_to_onvif(clamp_int(tilt, TiltMin, TiltMax), TiltMin, TiltMax)

(* Mutant of RelativeTarget: the sum is not clamped. *)
RelativeTargetUnclamped(position, x, y) ==
    [pan  |-> Wrap(position.pan + delta_from_axis(x)),
     tilt |-> Wrap(position.tilt + delta_from_axis(y))]

(* Where move_ptz_by_axes sends the device, from the position it read. *)
RelativeTarget(position, x, y) ==
    clamp_ptz_position([pan  |-> Wrap(position.pan + delta_from_axis(x)),
                        tilt |-> Wrap(position.tilt + delta_from_axis(y))])

=============================================================================
