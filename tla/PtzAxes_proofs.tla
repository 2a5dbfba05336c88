-------------------------- MODULE PtzAxes_proofs --------------------------
(***************************************************************************)
(* What the PTZ arithmetic guarantees for every range, scale and input.    *)
(***************************************************************************)
EXTENDS PtzAxes, TLAPS

(* clamp_int always returns a value of a non-empty range, and leaves a     *)
(* value that is in the range alone.                                       *)
LEMMA ClampInt ==
    ASSUME NEW lo \in Int, NEW hi \in Int, lo <= hi, NEW v \in Int
    PROVE  /\ clamp_int(v, lo, hi) \in lo..hi
           /\ v \in lo..hi => clamp_int(v, lo, hi) = v
  BY DEF clamp_int

LEMMA RangesNotEmpty == PanMin <= PanMax /\ TiltMin <= TiltMax
  BY RangeAssumption

(* Every position the code hands to the device is within the mechanical    *)
(* range.                                                                  *)
LEMMA ClampPosition ==
    ASSUME NEW p, p.pan \in Int, p.tilt \in Int
    PROVE  clamp_ptz_position(p) \in Position
<1>1. clamp_int(p.pan, PanMin, PanMax) \in PanMin..PanMax
  BY ClampInt, RangesNotEmpty, RangeAssumption
<1>2. clamp_int(p.tilt, TiltMin, TiltMax) \in TiltMin..TiltMax
  BY ClampInt, RangesNotEmpty, RangeAssumption
<1>3. QED
  BY <1>1, <1>2 DEF clamp_ptz_position, Position

LEMMA RoundedType ==
    ASSUME NEW scale \in Nat \ {0}, NEW v \in Int
    PROVE  Rounded(scale, v) \in Nat
<1>1. Magnitude(v) \in Nat
  BY DEF Magnitude
<1> DEFINE n == 2 * scale * Magnitude(v) + AxisUnit
           d == 2 * AxisUnit
<1>2. n \in Nat /\ d \in Nat \ {0}
  BY <1>1, ScaleAssumption
<1>3. ASSUME NEW a \in Nat, NEW b \in Nat \ {0} PROVE a \div b \in Nat
  OBVIOUS
<1>4. n \div d \in Nat
  BY <1>2, <1>3
<1>5. QED
  BY <1>4 DEF Rounded

(* Wrap returns an int, and the number itself when that is one.            *)
LEMMA WrapType ==
    ASSUME NEW n \in Int
    PROVE  /\ Wrap(n) \in IntRange
           /\ n \in IntRange => Wrap(n) = n
<1> DEFINE d == 2 * (IntMax + 1)
           m == n + IntMax + 1
<1>1. d \in Nat \ {0} /\ m \in Int /\ IntMax \in Nat
  BY WidthAssumption
<1>2. ASSUME NEW a \in Int, NEW b \in Nat \ {0}
      PROVE  a % b \in 0..(b - 1) /\ (a \in 0..(b - 1) => a % b = a)
  OBVIOUS
<1>3. m % d \in 0..(d - 1) /\ (m \in 0..(d - 1) => m % d = m)
  BY <1>1, <1>2
<1>4. Wrap(n) = (m % d) - (IntMax + 1)
  BY DEF Wrap
<1> HIDE DEF m
<1>5. Wrap(n) \in IntRange
  BY <1>1, <1>3, <1>4 DEF IntRange
<1>6. ASSUME n \in IntRange PROVE Wrap(n) = n
  BY <1>1, <1>3, <1>4, <1>6 DEF IntRange, m
<1>7. QED
  BY <1>5, <1>6

(* The first numbers beyond an int become the negative ones.               *)
LEMMA WrapBeyond ==
    ASSUME NEW n \in (IntMax + 1)..(2 * IntMax + 1)
    PROVE  Wrap(n) = n - 2 * (IntMax + 1)
<1> DEFINE d == 2 * (IntMax + 1)
           k == n - (IntMax + 1)
<1>1. d \in Nat \ {0} /\ k \in 0..(d - 1) /\ IntMax \in Nat /\ n \in Int
  BY WidthAssumption
<1>2. ASSUME NEW b \in Nat \ {0}, NEW a \in 0..(b - 1)
      PROVE  (a + b) % b = a
  OBVIOUS
<1>3. (k + d) % d = k
  BY <1>1, <1>2
<1>4. n + IntMax + 1 = k + d
  BY <1>1
<1>5. QED
  BY <1>1, <1>3, <1>4 DEF Wrap

LEMMA LroundType ==
    ASSUME NEW scale \in Nat \ {0}, NEW v \in Int
    PROVE  lround(scale, v) \in Int
  BY RoundedType, WidthAssumption DEF lround

(* What an axis value becomes is an int, and no axis value but 0 becomes   *)
(* no movement, not even one whose product does not fit an int or a long.  *)
THEOREM AxisIsNeverLost ==
    ASSUME NEW scale \in Nat \ {0}, NEW v \in Int
    PROVE  /\ ScaledAxis(scale, v) \in IntRange
           /\ v = 0 <=> ScaledAxis(scale, v) = 0
<1> DEFINE narrowed == Wrap(lround(scale, v))
           size == IF narrowed = 0 THEN 1 ELSE narrowed
<1>1. IntMax \in Nat /\ IntMax >= 1
  BY WidthAssumption
<1>2. size \in IntRange /\ size # 0
  BY <1>1, LroundType, WrapType DEF IntRange
<1>3. Wrap(-size) \in IntRange /\ Wrap(-size) # 0
  <2>1. -size \in Int /\ Wrap(-size) \in IntRange
    BY <1>1, <1>2, WrapType DEF IntRange
  <2>2. CASE -size \in IntRange
    <3>1. Wrap(-size) = -size
      BY <2>1, <2>2, WrapType
    <3>2. QED
      BY <1>1, <1>2, <2>1, <3>1 DEF IntRange
  <2>3. CASE -size \notin IntRange
    <3>1. -size = IntMax + 1
      BY <1>1, <1>2, <2>3 DEF IntRange
    <3>2. Wrap(-size) = -(IntMax + 1)
      BY <1>1, <3>1, WrapBeyond
    <3>3. QED
      BY <1>1, <2>1, <3>2
  <2>4. QED
    BY <2>2, <2>3
<1>4. ScaledAxis(scale, v) = IF v = 0 THEN 0 ELSE IF v < 0 THEN Wrap(-size) ELSE size
  BY DEF ScaledAxis
<1> HIDE DEF size
<1>5. 0 \in IntRange
  BY <1>1 DEF IntRange
<1>6. QED
  BY <1>2, <1>3, <1>4, <1>5

(* As long as the rounded product is an int, the narrowing of              *)
(* delta_from_axis and speed_from_axis keeps it.                           *)
LEMMA NarrowedExactly ==
    ASSUME NEW scale \in Nat \ {0}, NEW v \in Int, Rounded(scale, v) <= IntMax
    PROVE  ScaledAxis(scale, v) =
             LET size == IF Rounded(scale, v) = 0 THEN 1 ELSE Rounded(scale, v)
             IN  IF v = 0 THEN 0 ELSE IF v < 0 THEN -size ELSE size
<1> DEFINE q == Rounded(scale, v)
           size == IF q = 0 THEN 1 ELSE q
<1>1. q \in Nat /\ q <= IntMax /\ IntMax \in Nat \ {0} /\ LongMax \in Nat /\ IntMax <= LongMax
  BY RoundedType, WidthAssumption
<1>2. lround(scale, v) = q
  BY <1>1 DEF lround
<1> HIDE DEF q
<1>3. Wrap(q) = q
  BY <1>1, WrapType DEF IntRange
<1>4. -size \in IntRange /\ size \in Nat
  BY <1>1 DEF IntRange
<1>5. Wrap(-size) = -size
  BY <1>4, WrapType
<1>6. QED
  BY <1>2, <1>3, <1>5 DEF ScaledAxis, q

(* An axis value whose product fits an int becomes a step or speed in its  *)
(* own direction.                                                          *)
THEOREM AxisKeepsDirection ==
    ASSUME NEW scale \in Nat \ {0}, NEW v \in Int, Rounded(scale, v) <= IntMax
    PROVE  /\ v > 0 <=> ScaledAxis(scale, v) > 0
           /\ v < 0 <=> ScaledAxis(scale, v) < 0
<1> DEFINE q == Rounded(scale, v)
           size == IF q = 0 THEN 1 ELSE q
<1>1. ScaledAxis(scale, v) = IF v = 0 THEN 0 ELSE IF v < 0 THEN -size ELSE size
  BY NarrowedExactly
<1>2. size \in Nat /\ size > 0
  BY RoundedType
<1> HIDE DEF size
<1>3. QED
  BY <1>1, <1>2

(* The condition is needed: from the first axis value whose product does   *)
(* not fit an int, the camera is sent in the other direction, up to twice  *)
(* that size, unless the product does not fit a long either.               *)
THEOREM LargeAxisTurnsBack ==
    ASSUME NEW scale \in Nat \ {0}, NEW v \in Int, v > 0,
           Rounded(scale, v) \in (IntMax + 1)..(2 * IntMax + 1),
           Rounded(scale, v) <= LongMax
    PROVE  ScaledAxis(scale, v) < 0
<1>1. lround(scale, v) = Rounded(scale, v)
  BY DEF lround
<1>2. Wrap(lround(scale, v)) = Rounded(scale, v) - 2 * (IntMax + 1)
  BY <1>1, WrapBeyond
<1>3. IntMax \in Nat /\ Rounded(scale, v) \in Int
  BY WidthAssumption
<1>4. Wrap(lround(scale, v)) < 0
  BY <1>2, <1>3
<1>5. QED
  BY <1>4 DEF ScaledAxis

(* Quotient and remainder of the rounding division. *)
LEMMA Division ==
    ASSUME NEW a \in Nat, NEW b \in Nat \ {0}
    PROVE  /\ a \div b \in Nat
           /\ b * (a \div b) <= a
           /\ a < b * (a \div b) + b
  OBVIOUS

(* Products of naturals are monotone. *)
LEMMA TimesMonotone ==
    ASSUME NEW a \in Nat, NEW b \in Nat, NEW c \in Nat, a <= b
    PROVE  c * a <= c * b
  OBVIOUS

(* Up to full scale, --ptz-step and --ptz-speed, which are ints, are the   *)
(* largest step and the largest speed, and the direction is kept: what is  *)
(* beyond an int is always beyond full scale.                              *)
THEOREM FullScaleIsTheMaximum ==
    ASSUME NEW scale \in Nat \ {0}, scale <= IntMax, NEW v \in -AxisUnit..AxisUnit
    PROVE  /\ ScaledAxis(scale, v) \in -scale..scale
           /\ v > 0 <=> ScaledAxis(scale, v) > 0
           /\ v < 0 <=> ScaledAxis(scale, v) < 0
<1> DEFINE m == Magnitude(v)
           n == 2 * scale * m + AxisUnit
           d == 2 * AxisUnit
           q == n \div d
<1>1. m \in Nat /\ m <= AxisUnit /\ AxisUnit \in Nat \ {0}
  BY ScaleAssumption DEF Magnitude
<1>2. 2 * scale * m \in Nat /\ d \in Nat \ {0} /\ n \in Nat
  BY <1>1
<1>3. 2 * scale * m <= 2 * scale * AxisUnit
  <2>1. 2 * scale \in Nat
    OBVIOUS
  <2>2. QED
    BY <1>1, <2>1, TimesMonotone
<1>4. q \in Nat /\ d * q <= n
  BY <1>2, Division
<1>5. q <= scale
  <2>1. SUFFICES ASSUME q >= scale + 1 PROVE FALSE
    BY <1>4
  <2>2. d * (scale + 1) <= d * q
    BY <1>2, <1>4, <2>1, TimesMonotone
  <2>3. d * (scale + 1) = 2 * scale * AxisUnit + 2 * AxisUnit
    BY <1>1
  <2>4. n <= 2 * scale * AxisUnit + AxisUnit
    BY <1>1, <1>2, <1>3
  <2> HIDE DEF n, d, q
  <2>5. /\ d * q \in Int /\ n \in Int /\ AxisUnit \in Nat \ {0}
        /\ 2 * scale * AxisUnit \in Int /\ d * (scale + 1) \in Int
    BY <1>1, <1>2, <1>4
  <2>6. QED
    BY <1>4, <2>2, <2>3, <2>4, <2>5
<1>6. Rounded(scale, v) \in 0..scale
  BY <1>4, <1>5 DEF Rounded
<1>7. Rounded(scale, v) <= IntMax /\ v \in Int
  BY <1>1, <1>6, WidthAssumption
<1>8. ScaledAxis(scale, v) \in -scale..scale
  BY <1>6, <1>7, NarrowedExactly
<1>9. QED
  BY <1>7, <1>8, AxisKeepsDirection

(* GetStatus tells positions apart: of two positions in the range the      *)
(* greater is reported as greater, and the limits as -1 and 1.             *)
THEOREM ReportedPositions ==
    ASSUME NEW lo \in Int, NEW hi \in Int, lo < hi,
           NEW p \in lo..hi, NEW q \in lo..hi
    PROVE  /\ p < q <=> angle_to_onvif(p, lo, hi) < angle_to_onvif(q, lo, hi)
           /\ angle_to_onvif(lo, lo, hi) = -(hi - lo)
           /\ angle_to_onvif(hi, lo, hi) = hi - lo
<1>1. ASSUME NEW v \in lo..hi
      PROVE  angle_to_onvif(v, lo, hi) = 2 * v - (lo + hi)
  BY DEF angle_to_onvif, clamp_int
<1>2. lo \in lo..hi /\ hi \in lo..hi
  OBVIOUS
<1>3. QED
  BY <1>1, <1>2

=============================================================================
