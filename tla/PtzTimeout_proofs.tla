------------------------- MODULE PtzTimeout_proofs -------------------------
(***************************************************************************)
(* parse_ptz_timeout_ms for durations of any number of parts, each of any  *)
(* amount, and with it the last invariant of PtzDryRun.                    *)
(*                                                                         *)
(* The model adds the parts with the folds of the community modules, that  *)
(* is by recursion over sets of positions.  Sums are defined here by what  *)
(* makes them sums, their existence is proved, and a fold is shown to be   *)
(* the sum, whichever position it takes first.                             *)
(***************************************************************************)
EXTENDS PtzDryRun_proofs, FiniteSetTheorems, WellFoundedInduction

-----------------------------------------------------------------------------
(* Induction without an operator parameter.                                *)

(* A set of numbers that has an element has a smallest one. *)
LEMMA SmallestNumber ==
    ASSUME NEW T \in SUBSET Nat, T # {}
    PROVE  \E n \in T : \A k \in T : n <= k
<1>1. \E n \in T : \A k \in T : ~(<<k, n>> \in OpToRel(<, Nat))
  BY WFMin, NatLessThanWellFounded, Zenon
<1>2. \A n \in T, k \in T : <<k, n>> \in OpToRel(<, Nat) <=> k < n
  BY DEF OpToRel
<1>3. PICK n \in T : \A k \in T : ~(<<k, n>> \in OpToRel(<, Nat))
  BY <1>1, Zenon
<1>4. \A k \in T : ~(k < n)
  BY <1>2, <1>3, Zenon
<1> QED
  BY <1>4

(* A set of numbers closed under successor that has 0 has every number. *)
LEMMA ClosedUnderSuccessor ==
    ASSUME NEW T, 0 \in T, \A n \in Nat : n \in T => n + 1 \in T
    PROVE  Nat \subseteq T
<1> DEFINE Missing == Nat \ T
<1>1. SUFFICES ASSUME Missing # {} PROVE FALSE
  OBVIOUS
<1>2. PICK n \in Missing : \A k \in Missing : n <= k
  BY <1>1, SmallestNumber
<1>3. n # 0 /\ n \in Nat
  OBVIOUS
<1>4. n - 1 \in Nat /\ n - 1 \notin Missing
  BY <1>2, <1>3
<1>5. (n - 1) + 1 \in T
  BY <1>4, Zenon
<1> QED
  BY <1>3, <1>5

-----------------------------------------------------------------------------
(* Sums over sets of positions.                                            *)

(* sum gives every subset of 1..n the sum of its weights: nothing for the  *)
(* empty set, and an element's weight more with that element than without. *)
Sums(sum, weight, n) ==
    /\ n \in Nat /\ weight \in [Nat -> Int]
    /\ sum \in [SUBSET (1..n) -> Int]
    /\ sum[{}] = 0
    /\ \A s \in SUBSET (1..n) : \A i \in s : sum[s] = weight[i] + sum[s \ {i}]

(* There are sums, for any number of positions. *)
LEMMA SumsExist ==
    ASSUME NEW weight \in [Nat -> Int]
    PROVE  \A n \in Nat : \E sum : Sums(sum, weight, n)
<1> DEFINE T == {n \in Nat : \E sum : Sums(sum, weight, n)}
<1>1. 0 \in T
  <2> DEFINE zero == [s \in SUBSET (1..0) |-> 0]
  <2>1. 1..0 = {}
    OBVIOUS
  <2>2. Sums(zero, weight, 0)
    BY <2>1 DEF Sums
  <2> QED
    BY <2>2
<1>2. ASSUME NEW n \in Nat, n \in T PROVE n + 1 \in T
  <2>1. PICK sum : Sums(sum, weight, n)
    BY <1>2
  <2> DEFINE more == [s \in SUBSET (1..(n + 1)) |->
                         IF n + 1 \in s THEN weight[n + 1] + sum[s \ {n + 1}] ELSE sum[s]]
  <2>2. \A s \in SUBSET (1..(n + 1)) : s \ {n + 1} \in SUBSET (1..n)
    OBVIOUS
  <2>3. \A s \in SUBSET (1..(n + 1)) : n + 1 \notin s => s \in SUBSET (1..n)
    OBVIOUS
  <2>4. \A s \in SUBSET (1..n) : sum[s] \in Int
    BY <2>1 DEF Sums
  <2>5. more \in [SUBSET (1..(n + 1)) -> Int]
    BY <2>2, <2>3, <2>4
  <2>6. more[{}] = 0
    BY <2>1 DEF Sums
  <2>7. ASSUME NEW s \in SUBSET (1..(n + 1)), NEW i \in s
        PROVE  more[s] = weight[i] + more[s \ {i}]
    <3>1. CASE i = n + 1
      <4>1. more[s] = weight[i] + sum[s \ {i}]
        BY <3>1
      <4>2. more[s \ {i}] = sum[s \ {i}]
        BY <3>1
      <4> QED
        BY <4>1, <4>2
    <3>2. CASE i # n + 1 /\ n + 1 \in s
      <4> DEFINE low == s \ {n + 1}
      <4>1. low \in SUBSET (1..n) /\ i \in low
        BY <3>2, <2>2
      <4>2. sum[low] = weight[i] + sum[low \ {i}]
        BY <4>1, <2>1 DEF Sums
      <4>3. low \ {i} = (s \ {i}) \ {n + 1}
        OBVIOUS
      <4>4. more[s] = weight[n + 1] + sum[low]
        BY <3>2
      <4>5. more[s \ {i}] = weight[n + 1] + sum[low \ {i}]
        BY <3>2, <4>3
      <4>6. sum[low \ {i}] \in Int /\ weight[i] \in Int /\ weight[n + 1] \in Int
        BY <4>1, <2>4
      <4> QED
        BY <4>2, <4>4, <4>5, <4>6
    <3>3. CASE n + 1 \notin s
      <4>1. s \in SUBSET (1..n)
        BY <3>3, <2>3
      <4>2. more[s] = sum[s] /\ more[s \ {i}] = sum[s \ {i}]
        BY <3>3
      <4> QED
        BY <4>1, <4>2, <2>1 DEF Sums
    <3> QED
      BY <3>1, <3>2, <3>3
  <2>8. n + 1 \in Nat
    OBVIOUS
  <2> HIDE DEF more
  <2>9. Sums(more, weight, n + 1)
    BY <2>5, <2>6, <2>7, <2>8, Zenon DEF Sums
  <2> QED
    BY <2>8, <2>9
<1>3. Nat \subseteq T
  BY <1>1, <1>2, ClosedUnderSuccessor
<1> QED
  BY <1>3

(* The sum of one position more. *)
LEMMA SumOfOneMore ==
    ASSUME NEW n, NEW k \in Nat, k < n
    PROVE  \A sum, weight : Sums(sum, weight, n) =>
               sum[1..k] \in Int /\ sum[1..(k + 1)] = weight[k + 1] + sum[1..k]
<1> SUFFICES ASSUME NEW sum, NEW weight, Sums(sum, weight, n)
             PROVE  sum[1..k] \in Int /\ sum[1..(k + 1)] = weight[k + 1] + sum[1..k]
  OBVIOUS
<1>1. /\ 1..k \in SUBSET (1..n) /\ 1..(k + 1) \in SUBSET (1..n)
      /\ k + 1 \in 1..(k + 1) /\ (1..(k + 1)) \ {k + 1} = 1..k
  <2>1. n \in Nat
    BY DEF Sums
  <2> QED
    BY <2>1
<1>2. \A s \in SUBSET (1..n) : sum[s] \in Int
  BY DEF Sums
<1>3. \A s \in SUBSET (1..n) : \A i \in s : sum[s] = weight[i] + sum[s \ {i}]
  BY Zenon DEF Sums
<1>4. sum[1..(k + 1)] = weight[k + 1] + sum[(1..(k + 1)) \ {k + 1}]
  BY <1>1, <1>3, Zenon
<1> QED
  BY <1>1, <1>2, <1>4, Zenon

(* fold adds the weight of the position chosen to what it has for the rest. *)
Folds(fold, chosen, weight, n) ==
    /\ \A s \in SUBSET (1..n) : s # {} => chosen[s] \in s
    /\ fold[{}] = 0
    /\ \A s \in SUBSET (1..n) : s # {} /\ fold[s \ {chosen[s]}] \in Int =>
           fold[s] = weight[chosen[s]] + fold[s \ {chosen[s]}]

(* A fold that adds the weight of the position it chooses computes the     *)
(* sum, however it chooses.                                                *)
LEMMA FoldIsSum ==
    ASSUME NEW n, NEW weight, NEW sum, Sums(sum, weight, n),
           NEW chosen, NEW fold, Folds(fold, chosen, weight, n)
    PROVE  \A s \in SUBSET (1..n) : fold[s] = sum[s]
<1>0. n \in Nat /\ weight \in [Nat -> Int]
  BY DEF Sums
<1> DEFINE Wrong == {s \in SUBSET (1..n) : fold[s] # sum[s]}
           Sizes == {k \in Nat : \E s \in Wrong : k = Cardinality(s)}
<1>1. \A s \in SUBSET (1..n) : IsFiniteSet(s) /\ Cardinality(s) \in Nat
  <2>1. IsFiniteSet(1..n)
    BY <1>0, FS_Interval
  <2> QED
    BY <2>1, FS_Subset, FS_CardinalityType, Zenon
<1>2. ASSUME Wrong # {} PROVE FALSE
  <2>1. Sizes \in SUBSET Nat /\ Sizes # {}
    <3>1. PICK s \in Wrong : TRUE
      BY <1>2
    <3>2. Cardinality(s) \in Sizes
      BY <1>1
    <3> QED
      BY <3>2
  <2>2. PICK size \in Sizes : \A k \in Sizes : size <= k
    BY <2>1, SmallestNumber, Zenon
  <2>3. PICK s \in Wrong : size = Cardinality(s)
    BY <2>2, Zenon
  <2>4. \A other \in Wrong : Cardinality(s) <= Cardinality(other)
    <3>1. \A other \in Wrong : Cardinality(other) \in Sizes
      BY <1>1
    <3> QED
      BY <2>2, <2>3, <3>1, Zenon
  <2>5. s # {}
    BY DEF Sums, Folds
  <2> DEFINE i == chosen[s]
             rest == s \ {i}
  <2>6. i \in s /\ rest \in SUBSET (1..n)
    BY <2>5 DEF Folds
  <2>7. Cardinality(rest) < Cardinality(s)
    <3>1. Cardinality(rest) = Cardinality(s) - 1
      BY <2>6, <1>1, FS_RemoveElement, Zenon
    <3> QED
      BY <3>1, <1>1
  <2>8. rest \notin Wrong
    <3>1. Cardinality(s) \in Nat /\ Cardinality(rest) \in Nat
      BY <1>1, <2>6, Zenon
    <3>2. ~(Cardinality(s) <= Cardinality(rest))
      BY <2>7, <3>1
    <3> QED
      BY <2>4, <3>2, Zenon
  <2>9. fold[rest] = sum[rest]
    BY <2>6, <2>8
  <2>10. fold[s] = weight[i] + fold[rest]
    <3>1. fold[rest] \in Int
      BY <2>6, <2>9 DEF Sums
    <3> QED
      BY <2>5, <3>1 DEF Folds
  <2>11. sum[s] = weight[i] + sum[rest]
    BY <2>6 DEF Sums
  <2> QED
    BY <2>9, <2>10, <2>11
<1> QED
  BY <1>2

-----------------------------------------------------------------------------
(* The sums of a duration.                                                 *)

(* The ticks each part stands for. *)
TickWeight(parts) ==
    [i \in Nat |-> IF i \in DOMAIN parts THEN parts[i].amount * UnitSeconds[parts[i].unit] ELSE 0]

(* The amounts that are given in a unit. *)
UnitWeight(parts, unit) ==
    [i \in Nat |-> IF i \in DOMAIN parts /\ parts[i].unit = unit THEN parts[i].amount ELSE 0]

(* The maximum of positions is one of them. *)
LEMMA MaxIsElement ==
    ASSUME NEW n \in Nat, NEW s \in SUBSET (1..n), s # {}
    PROVE  Max(s) \in s
<1> DEFINE T == {k \in Nat : n - k \in s}
<1>1. T # {}
  <2>1. PICK i \in s : TRUE
    OBVIOUS
  <2>2. n - i \in Nat /\ n - (n - i) = i
    BY <2>1
  <2> QED
    BY <2>2
<1>2. PICK k \in T : \A other \in T : k <= other
  BY <1>1, SmallestNumber
<1>3. \A i \in s : n - i \in T /\ n - i \in Nat /\ i \in Int
  OBVIOUS
<1>4. \A i \in s : n - k >= i
  <2> SUFFICES ASSUME NEW i \in s PROVE n - k >= i
    OBVIOUS
  <2>1. k <= n - i /\ k \in Nat /\ i \in Int
    BY <1>2, <1>3
  <2> QED
    BY <2>1
<1>5. n - k \in s
  BY <1>2
<1>6. \E x \in s : \A y \in s : x >= y
  BY <1>4, <1>5
<1> QED
  BY <1>6 DEF Max

LEMMA WeightsAreIntegers ==
    ASSUME NEW parts \in Seq(Part)
    PROVE  /\ \A unit : UnitWeight(parts, unit) \in [Nat -> Int]
           /\ WellFormed(parts) => TickWeight(parts) \in [Nat -> Int]
<1>1. \A i \in DOMAIN parts : parts[i] \in Part
  OBVIOUS
<1>2. \A unit : \A i \in Nat : UnitWeight(parts, unit)[i] \in Int
  BY <1>1 DEF UnitWeight, Part
<1>3. WellFormed(parts) => \A i \in Nat : TickWeight(parts)[i] \in Int
  BY <1>1 DEF TickWeight, Part, WellFormed, PartRefused, UnitSeconds
<1> QED
  BY <1>2, <1>3 DEF UnitWeight, TickWeight

(* What parse_ptz_timeout_ms has when it has read the last part. *)
LEMMA TicksAreTheSum ==
    ASSUME NEW parts \in Seq(Part), WellFormed(parts),
           NEW sum, Sums(sum, TickWeight(parts), Len(parts))
    PROVE  FoldLeft(AddPart, 0, parts) = sum[1..Len(parts)]
<1> DEFINE n == Len(parts)
           weight == TickWeight(parts)
           IsFold(iter) == iter = [s \in SUBSET (1..n) |->
                                      IF s = {} THEN 0 ELSE AddPart(iter[s \ {Max(s)}], parts[Max(s)])]
           fold == CHOOSE iter : IsFold(iter)
           chosen == [s \in SUBSET (1..n) |-> Max(s)]
<1>1. n \in Nat /\ DOMAIN parts = 1..n /\ weight \in [Nat -> Int]
  BY WeightsAreIntegers
<1>2. FoldLeft(AddPart, 0, parts) = fold[1..n]
  BY <1>1, Zenon DEF FoldLeft, MapThenFoldSet
<1>3. \A s \in SUBSET (1..n) : s # {} => chosen[s] \in s /\ chosen[s] = Max(s)
  BY <1>1, MaxIsElement
<1>4. \A i \in 1..n : \A ticks \in Int : AddPart(ticks, parts[i]) = weight[i] + ticks
  <2> SUFFICES ASSUME NEW i \in 1..n, NEW ticks \in Int
               PROVE  AddPart(ticks, parts[i]) = weight[i] + ticks
    OBVIOUS
  <2>1. weight[i] = parts[i].amount * UnitSeconds[parts[i].unit] /\ weight[i] \in Int
    BY <1>1 DEF TickWeight
  <2> QED
    BY <2>1 DEF AddPart
<1>5. IsFold(sum)
  <2>1. sum = [s \in SUBSET (1..n) |-> sum[s]]
    BY DEF Sums
  <2>2. ASSUME NEW s \in SUBSET (1..n), s # {}
        PROVE  sum[s] = AddPart(sum[s \ {Max(s)}], parts[Max(s)])
    <3>1. Max(s) \in s /\ Max(s) \in 1..n /\ s \ {Max(s)} \in SUBSET (1..n)
      BY <1>1, <2>2, MaxIsElement
    <3>2. sum[s \ {Max(s)}] \in Int /\ sum[s] = weight[Max(s)] + sum[s \ {Max(s)}]
      BY <3>1 DEF Sums
    <3> QED
      BY <1>4, <3>1, <3>2
  <2>3. sum[{}] = 0
    BY DEF Sums
  <2>4. \A s \in SUBSET (1..n) :
            sum[s] = IF s = {} THEN 0 ELSE AddPart(sum[s \ {Max(s)}], parts[Max(s)])
    BY <2>2, <2>3, Zenon
  <2> QED
    BY <2>1, <2>4, Zenon
<1>6. IsFold(fold)
  BY <1>5, Zenon
<1>7. fold[{}] = 0
  BY <1>6
<1>8. \A s \in SUBSET (1..n) : s # {} /\ fold[s \ {chosen[s]}] \in Int =>
          fold[s] = weight[chosen[s]] + fold[s \ {chosen[s]}]
  <2> SUFFICES ASSUME NEW s \in SUBSET (1..n), s # {}, fold[s \ {chosen[s]}] \in Int
               PROVE  fold[s] = weight[chosen[s]] + fold[s \ {chosen[s]}]
    OBVIOUS
  <2>1. chosen[s] = Max(s) /\ chosen[s] \in 1..n
    BY <1>3
  <2>2. fold[s] = AddPart(fold[s \ {Max(s)}], parts[Max(s)])
    BY <1>6
  <2> QED
    BY <1>4, <2>1, <2>2
<1>9. \A s \in SUBSET (1..n) : fold[s] = sum[s]
  <2>1. Sums(sum, weight, n)
    OBVIOUS
  <2>2. \A s \in SUBSET (1..n) : s # {} => chosen[s] \in s
    BY <1>3
  <2>3. Folds(fold, chosen, weight, n)
    <3> HIDE DEF fold, chosen, weight, n
    <3> QED
      BY <1>7, <1>8, <2>2, Zenon DEF Folds
  <2>4. \A f, c : Folds(f, c, weight, n) => \A s \in SUBSET (1..n) : f[s] = sum[s]
    <3> HIDE DEF weight, n
    <3> QED
      BY <2>1, FoldIsSum
  <2> HIDE DEF fold, chosen, weight, n
  <2> QED
    BY <2>3, <2>4, Zenon
<1> QED
  BY <1>2, <1>9

(* The amounts of one unit, as the reference adds them. *)
LEMMA UnitTotalIsTheSum ==
    ASSUME NEW parts \in Seq(Part), NEW unit,
           NEW sum, Sums(sum, UnitWeight(parts, unit), Len(parts))
    PROVE  UnitTotal(parts, unit) = sum[1..Len(parts)]
<1> DEFINE n == Len(parts)
           weight == UnitWeight(parts, unit)
           IsFold(iter) ==
               iter = [s \in SUBSET (1..n) |->
                          IF s = {} THEN 0
                          ELSE (IF parts[CHOOSE i \in s : TRUE].unit = unit
                                  THEN parts[CHOOSE i \in s : TRUE].amount ELSE 0)
                               + iter[s \ {CHOOSE i \in s : TRUE}]]
           fold == CHOOSE iter : IsFold(iter)
           chosen == [s \in SUBSET (1..n) |-> CHOOSE i \in s : TRUE]
<1>1. n \in Nat /\ DOMAIN parts = 1..n /\ weight \in [Nat -> Int]
  BY WeightsAreIntegers
<1>2. UnitTotal(parts, unit) = fold[1..n]
  BY <1>1, Zenon DEF UnitTotal, MapThenSumSet, MapThenFoldSet
<1>3. \A s \in SUBSET (1..n) : s # {} => chosen[s] \in s /\ chosen[s] = CHOOSE i \in s : TRUE
  OBVIOUS
<1>4. \A i \in 1..n : weight[i] = IF parts[i].unit = unit THEN parts[i].amount ELSE 0
  BY <1>1 DEF UnitWeight
<1>5. IsFold(sum)
  <2>1. sum = [s \in SUBSET (1..n) |-> sum[s]]
    BY DEF Sums
  <2>2. ASSUME NEW s \in SUBSET (1..n), s # {}
        PROVE  sum[s] = weight[chosen[s]] + sum[s \ {chosen[s]}]
    <3>1. chosen[s] \in s
      BY <1>3, <2>2
    <3> HIDE DEF chosen, weight
    <3> QED
      BY <3>1, Zenon DEF Sums, weight
  <2>3. ASSUME NEW s \in SUBSET (1..n), s # {}
        PROVE  sum[s] = (IF parts[CHOOSE i \in s : TRUE].unit = unit
                           THEN parts[CHOOSE i \in s : TRUE].amount ELSE 0)
                        + sum[s \ {CHOOSE i \in s : TRUE}]
    BY <1>3, <1>4, <2>2, <2>3
  <2>4. sum[{}] = 0
    BY DEF Sums
  <2>5. \A s \in SUBSET (1..n) :
            sum[s] = IF s = {} THEN 0
                     ELSE (IF parts[CHOOSE i \in s : TRUE].unit = unit
                             THEN parts[CHOOSE i \in s : TRUE].amount ELSE 0)
                          + sum[s \ {CHOOSE i \in s : TRUE}]
    BY <2>3, <2>4, Zenon
  <2> QED
    BY <2>1, <2>5, Zenon
<1>6. IsFold(fold)
  BY <1>5, Zenon
<1>7. fold[{}] = 0
  BY <1>6
<1>8. \A s \in SUBSET (1..n) : s # {} /\ fold[s \ {chosen[s]}] \in Int =>
          fold[s] = weight[chosen[s]] + fold[s \ {chosen[s]}]
  <2> SUFFICES ASSUME NEW s \in SUBSET (1..n), s # {}
               PROVE  fold[s] = weight[chosen[s]] + fold[s \ {chosen[s]}]
    OBVIOUS
  <2>1. chosen[s] \in s /\ chosen[s] = CHOOSE i \in s : TRUE
    BY <1>3
  <2>2. fold[s] = (IF parts[CHOOSE i \in s : TRUE].unit = unit
                     THEN parts[CHOOSE i \in s : TRUE].amount ELSE 0)
                  + fold[s \ {CHOOSE i \in s : TRUE}]
    BY <1>6
  <2>3. weight[chosen[s]] = IF parts[chosen[s]].unit = unit THEN parts[chosen[s]].amount ELSE 0
    BY <1>4, <2>1
  <2> HIDE DEF fold, chosen, weight
  <2> QED
    BY <2>1, <2>2, <2>3
<1>9. \A s \in SUBSET (1..n) : fold[s] = sum[s]
  <2>1. Sums(sum, weight, n)
    OBVIOUS
  <2>2. \A s \in SUBSET (1..n) : s # {} => chosen[s] \in s
    BY <1>3
  <2>3. Folds(fold, chosen, weight, n)
    <3> HIDE DEF fold, chosen, weight, n
    <3> QED
      BY <1>7, <1>8, <2>2, Zenon DEF Folds
  <2>4. \A f, c : Folds(f, c, weight, n) => \A s \in SUBSET (1..n) : f[s] = sum[s]
    <3> HIDE DEF weight, n
    <3> QED
      BY <2>1, FoldIsSum
  <2> HIDE DEF fold, chosen, weight, n
  <2> QED
    BY <2>3, <2>4, Zenon
<1> QED
  BY <1>2, <1>9

(* Each position's weight is so many hours, minutes and seconds. *)
MadeOf(wt, wh, wm, ws, n) ==
    \A i \in 1..n : wt[i] = 3600 * wh[i] + 60 * wm[i] + ws[i]

(* A weight that is made of three others sums to what their sums make. *)
LEMMA SumsAreLinear ==
    ASSUME NEW n \in Nat,
           NEW wt, NEW wh, NEW wm, NEW ws, MadeOf(wt, wh, wm, ws, n)
    PROVE  \A total, hours, minutes, seconds :
               Sums(total, wt, n) /\ Sums(hours, wh, n) /\ Sums(minutes, wm, n) /\ Sums(seconds, ws, n) =>
                   total[1..n] = 3600 * hours[1..n] + 60 * minutes[1..n] + seconds[1..n]
<1> SUFFICES ASSUME NEW total, NEW hours, NEW minutes, NEW seconds,
                    Sums(total, wt, n), Sums(hours, wh, n), Sums(minutes, wm, n), Sums(seconds, ws, n)
             PROVE  total[1..n] = 3600 * hours[1..n] + 60 * minutes[1..n] + seconds[1..n]
  OBVIOUS
<1> DEFINE Linear(k) == total[1..k] = 3600 * hours[1..k] + 60 * minutes[1..k] + seconds[1..k]
           T == {k \in Nat : k <= n => Linear(k)}
<1>1. 0 \in T
  <2>1. 1..0 = {}
    OBVIOUS
  <2> QED
    BY <2>1 DEF Sums
<1>2. ASSUME NEW k \in Nat, k \in T, k + 1 <= n PROVE Linear(k + 1)
  <2>1. Linear(k)
    BY <1>2
  <2>2. k + 1 \in 1..n /\ k + 1 \in Nat /\ k < n
    <3>1. k + 1 <= n
      BY <1>2
    <3> QED
      BY <3>1
  <2>3. \A sum, weight : Sums(sum, weight, n) =>
            sum[1..k] \in Int /\ sum[1..(k + 1)] = weight[k + 1] + sum[1..k]
    BY <2>2, SumOfOneMore
  <2>4. total[1..k] \in Int /\ total[1..(k + 1)] = wt[k + 1] + total[1..k]
    BY <2>3, Zenon
  <2>5. hours[1..k] \in Int /\ hours[1..(k + 1)] = wh[k + 1] + hours[1..k]
    BY <2>3, Zenon
  <2>6. minutes[1..k] \in Int /\ minutes[1..(k + 1)] = wm[k + 1] + minutes[1..k]
    BY <2>3, Zenon
  <2>7. seconds[1..k] \in Int /\ seconds[1..(k + 1)] = ws[k + 1] + seconds[1..k]
    BY <2>3, Zenon
  <2>8. wt[k + 1] = 3600 * wh[k + 1] + 60 * wm[k + 1] + ws[k + 1]
    BY <2>2 DEF MadeOf
  <2>9. wh[k + 1] \in Int /\ wm[k + 1] \in Int /\ ws[k + 1] \in Int
    BY <2>2 DEF Sums
  <2> DEFINE h == hours[1..k]
             m == minutes[1..k]
             s == seconds[1..k]
             a == wh[k + 1]
             b == wm[k + 1]
             c == ws[k + 1]
  <2>10. h \in Int /\ m \in Int /\ s \in Int /\ a \in Int /\ b \in Int /\ c \in Int
    BY <2>5, <2>6, <2>7, <2>9
  <2>11. total[1..(k + 1)] = (3600 * a + 60 * b + c) + (3600 * h + 60 * m + s)
    <3>1. total[1..(k + 1)] = wt[k + 1] + total[1..k]
      BY <2>4
    <3> QED
      BY <2>1, <2>8, <3>1
  <2>12. total[1..(k + 1)] = 3600 * (a + h) + 60 * (b + m) + (c + s)
    <3> HIDE DEF h, m, s, a, b, c
    <3> QED
      BY <2>10, <2>11
  <2>13. hours[1..(k + 1)] = a + h /\ minutes[1..(k + 1)] = b + m /\ seconds[1..(k + 1)] = c + s
    BY <2>5, <2>6, <2>7
  <2> HIDE DEF h, m, s, a, b, c
  <2> QED
    BY <2>12, <2>13
<1>3. \A k \in Nat : k \in T => k + 1 \in T
  <2> SUFFICES ASSUME NEW k \in Nat, k \in T PROVE k + 1 \in T
    OBVIOUS
  <2>1. k + 1 \in Nat
    OBVIOUS
  <2>2. k + 1 <= n => Linear(k + 1)
    BY <1>2
  <2> QED
    BY <2>1, <2>2
<1>4. n \in T
  <2> HIDE DEF T
  <2> QED
    BY <1>1, <1>3, ClosedUnderSuccessor
<1> QED
  BY <1>4

(* What the code adds part by part is what the duration says, in ticks.    *)
LEMMA TicksAreExact ==
    ASSUME NEW parts \in Seq(Part), WellFormed(parts)
    PROVE  FoldLeft(AddPart, 0, parts) = ExactTicks(parts) /\ ExactTicks(parts) \in Int
<1> DEFINE n == Len(parts)
           wt == TickWeight(parts)
           wh == UnitWeight(parts, "H")
           wm == UnitWeight(parts, "M")
           ws == UnitWeight(parts, "S")
<1>1. n \in Nat /\ DOMAIN parts = 1..n
  OBVIOUS
<1>2. wt \in [Nat -> Int] /\ wh \in [Nat -> Int] /\ wm \in [Nat -> Int] /\ ws \in [Nat -> Int]
  BY WeightsAreIntegers
<1>3. \A weight \in [Nat -> Int] : \E sum : Sums(sum, weight, n)
  BY <1>1, SumsExist
<1>4. PICK total : Sums(total, wt, n)
  BY <1>2, <1>3, Zenon
<1>5. PICK hours : Sums(hours, wh, n)
  BY <1>2, <1>3, Zenon
<1>6. PICK minutes : Sums(minutes, wm, n)
  BY <1>2, <1>3, Zenon
<1>7. PICK seconds : Sums(seconds, ws, n)
  BY <1>2, <1>3, Zenon
<1>8. MadeOf(wt, wh, wm, ws, n)
  <2> SUFFICES ASSUME NEW i \in 1..n PROVE wt[i] = 3600 * wh[i] + 60 * wm[i] + ws[i]
    BY <1>2 DEF MadeOf
  <2>1. /\ i \in DOMAIN parts /\ i \in Nat /\ parts[i].amount \in Int
        /\ parts[i].unit \in {"H", "M", "S"}
    <3>1. i \in DOMAIN parts /\ i \in Nat /\ parts[i] \in Part
      BY <1>1
    <3>2. ~PartRefused(parts[i])
      BY <3>1 DEF WellFormed
    <3> QED
      BY <3>1, <3>2 DEF PartRefused, UnitSeconds, Part
  <2>2. wt[i] = parts[i].amount * UnitSeconds[parts[i].unit]
    BY <2>1 DEF TickWeight
  <2>3. /\ wh[i] = IF parts[i].unit = "H" THEN parts[i].amount ELSE 0
        /\ wm[i] = IF parts[i].unit = "M" THEN parts[i].amount ELSE 0
        /\ ws[i] = IF parts[i].unit = "S" THEN parts[i].amount ELSE 0
    BY <2>1 DEF UnitWeight
  <2> HIDE DEF wt, wh, wm, ws
  <2> QED
    BY <2>1, <2>2, <2>3 DEF UnitSeconds
<1>9. total[1..n] = 3600 * hours[1..n] + 60 * minutes[1..n] + seconds[1..n]
  <2> HIDE DEF n, wt, wh, wm, ws
  <2>1. n \in Nat
    BY <1>1
  <2>2. \A t, h, m, s :
            Sums(t, wt, n) /\ Sums(h, wh, n) /\ Sums(m, wm, n) /\ Sums(s, ws, n) =>
                t[1..n] = 3600 * h[1..n] + 60 * m[1..n] + s[1..n]
    BY <1>8, <2>1, SumsAreLinear
  <2> QED
    BY <1>4, <1>5, <1>6, <1>7, <2>2
<1>10. FoldLeft(AddPart, 0, parts) = total[1..n]
  BY <1>4, TicksAreTheSum
<1>11. /\ UnitTotal(parts, "H") = hours[1..n]
       /\ UnitTotal(parts, "M") = minutes[1..n]
       /\ UnitTotal(parts, "S") = seconds[1..n]
  BY <1>5, <1>6, <1>7, UnitTotalIsTheSum
<1>12. total[1..n] \in Int
  BY <1>4 DEF Sums
<1> QED
  BY <1>9, <1>10, <1>11, <1>12 DEF ExactTicks

-----------------------------------------------------------------------------
(* The verdict.                                                            *)

(* The verdict is the first defect in the order of the checks, or          *)
(* "accepted" when there is none.                                          *)
LEMMA VerdictIsFirstDefect ==
    ASSUME NEW c
    PROVE  /\ Verdict(c) = "accepted" <=> Defects(c) = {}
           /\ Verdict(c) # "accepted" => Verdict(c) \in Defects(c)
<1> DEFINE failed == {i \in DOMAIN Checks : Checks[i] \in Defects(c)}
<1>1. DOMAIN Checks = 1..6 /\ \A i \in 1..6 : Checks[i] # "accepted"
  BY DEF Checks
<1>2. Defects(c) \subseteq {"auth", "profile", "preset", "zoom", "vector", "timeout"}
  BY Zenon DEF Defects
<1>3. \A defect \in Defects(c) : \E i \in 1..6 : Checks[i] = defect
  BY <1>2 DEF Checks
<1>4. failed = {} <=> Defects(c) = {}
  BY <1>1, <1>3
<1>5. failed # {} => Min(failed) \in failed
  <2>1. failed \in SUBSET Nat
    BY <1>1
  <2>2. failed # {} => \E i \in failed : \A j \in failed : i <= j
    BY <2>1, SmallestNumber
  <2> HIDE DEF failed
  <2> QED
    BY <2>2 DEF Min
<1>6. Verdict(c) = IF failed = {} THEN "accepted" ELSE Checks[Min(failed)]
  BY Zenon DEF Verdict
<1>7. failed # {} => Checks[Min(failed)] \in Defects(c) /\ Checks[Min(failed)] # "accepted"
  BY <1>1, <1>5
<1> HIDE DEF failed
<1> QED
  BY <1>4, <1>6, <1>7

(* What becomes of a duration. *)
LEMMA ParsedTimeout ==
    ASSUME NEW d \in Duration
    PROVE  /\ ~Readable(d) =>
                  parse_ptz_timeout_ms(d) =
                      IF d.prefix = "" /\ d.parts = <<>> THEN DefaultTimeout ELSE Refused
           /\ Readable(d) =>
                  /\ ExactTicks(d.parts) \in Int
                  /\ parse_ptz_timeout_ms(d) =
                         IF ExactTicks(d.parts) <= 0 \/ ExactTicks(d.parts) > LongestTicks THEN Refused
                         ELSE (ExactTicks(d.parts) + 5) \div 10
<1> DEFINE parts == d.parts
           ticks == FoldLeft(AddPart, 0, parts)
           bad == \E i \in DOMAIN parts : PartRefused(parts[i]) \/ parts[i].number = "nan"
<1>1. parts \in Seq(Part) /\ \A i \in DOMAIN parts : parts[i].number \in {"finite", "nan", "none"}
  <2>1. parts \in Seq(Part)
    BY DEF Duration
  <2>2. \A i \in DOMAIN parts : parts[i] \in Part
    BY <2>1
  <2> QED
    BY <2>1, <2>2 DEF Part
<1>2. WellFormed(parts) <=> ~bad
  BY <1>1 DEF WellFormed, PartRefused
<1>3. parse_ptz_timeout_ms(d) =
          IF d.prefix = "" /\ parts = <<>> THEN DefaultTimeout
          ELSE IF (d.prefix # "PT" \/ parts = <<>>) \/ bad \/ (ticks <= 0 \/ ticks > LongestTicks) THEN Refused
          ELSE (ticks + 5) \div 10
  BY DEF parse_ptz_timeout_ms
<1>4. WellFormed(parts) => ticks = ExactTicks(parts) /\ ExactTicks(parts) \in Int
  BY <1>1, TicksAreExact
<1>5. "" # "PT"
  OBVIOUS
<1> HIDE DEF ticks, bad, parts
<1>6. Readable(d) <=> d.prefix = "PT" /\ parts # <<>> /\ WellFormed(parts)
  BY Zenon DEF Readable, parts
<1>7. ASSUME ~Readable(d), d.prefix # "" \/ parts # <<>>
      PROVE  parse_ptz_timeout_ms(d) = Refused
  <2>1. (d.prefix # "PT" \/ parts = <<>>) \/ bad
    BY <1>2, <1>6, <1>7, Zenon
  <2>2. ~(d.prefix = "" /\ parts = <<>>)
    BY <1>7, Zenon
  <2>3. parse_ptz_timeout_ms(d) =
            IF (d.prefix # "PT" \/ parts = <<>>) \/ bad \/ (ticks <= 0 \/ ticks > LongestTicks) THEN Refused
            ELSE (ticks + 5) \div 10
    BY <1>3, <2>2, Zenon
  <2> QED
    BY <2>1, <2>3
<1>8. ~Readable(d) => parse_ptz_timeout_ms(d) = IF d.prefix = "" /\ parts = <<>> THEN DefaultTimeout ELSE Refused
  BY <1>3, <1>7, Zenon
<1>9. ASSUME Readable(d)
      PROVE  /\ ExactTicks(parts) \in Int
             /\ parse_ptz_timeout_ms(d) =
                    IF ExactTicks(parts) <= 0 \/ ExactTicks(parts) > LongestTicks THEN Refused
                    ELSE (ExactTicks(parts) + 5) \div 10
  BY <1>2, <1>3, <1>4, <1>6, <1>9
<1> QED
  BY <1>8, <1>9, Zenon DEF parts

(* Of a ContinuousMove, the timeout is at fault exactly when it is refused. *)
LEMMA TimeoutDefect ==
    ASSUME NEW c, c.op = "ContinuousMove"
    PROVE  "timeout" \in Defects(c) <=> parse_ptz_timeout_ms(c.timeout) = Refused
<1> QED
  BY Zenon DEF Defects

(* Arithmetic of the rounding to a millisecond. *)
LEMMA Rounding ==
    ASSUME NEW ticks \in Int, ticks > 0, ticks <= LongestTicks,
           NEW ms, ms = (ticks + 5) \div 10
    PROVE  /\ ms \in Int /\ 0 <= ms /\ ms <= LongestTimeout
           /\ Magnitude(10 * ms - ticks) <= 5
           /\ ms = 0 => ticks < 5
<1>1. ticks <= 36000000
  BY SMT DEF Tick, LongestTicks
<1>2. ms \in Int /\ 10 * ms <= ticks + 5 /\ ticks + 5 < 10 * ms + 10
  BY SMT
<1>3. 0 <= ms /\ ms <= LongestTimeout
  BY <1>1, <1>2, SMT DEF LongestTimeout
<1>4. ms = 0 => ticks < 5
  BY <1>2, SMT
<1> DEFINE off == 10 * ms - ticks
<1>5. off \in Int /\ off <= 5 /\ off >= -5
  BY <1>2, SMT
<1> HIDE DEF off
<1>6. Magnitude(off) <= 5
  BY <1>5, SMT DEF Magnitude
<1> QED
  BY <1>2, <1>3, <1>4, <1>6, SMT DEF off

LEMMA HonestState == DryIInv => TimeoutIsHonest
<1> DEFINE d == call.timeout
           ms == parse_ptz_timeout_ms(d)
           ticks == ExactTicks(d.parts)
<1> SUFFICES ASSUME DryIInv, call # NoCall, call.op = "ContinuousMove"
             PROVE  /\ verdict = "accepted" /\ Readable(d) =>
                           ms \in 1..LongestTimeout /\ Magnitude(10 * ms - ticks) <= 5
                    /\ verdict = "accepted" /\ ~Readable(d) =>
                           ms = DefaultTimeout /\ d.prefix = "" /\ d.parts = <<>>
                    /\ verdict = "timeout" /\ Readable(d) => ticks < 5 \/ ticks > LongestTicks
  BY Zenon DEF TimeoutIsHonest
<1>1. d \in Duration
  BY PtzDryRunAssumption DEF DryIInv, DryTypeOK
<1>2. verdict \in {"accepted", "timeout"} => verdict = Verdict(call)
  BY DEF DryIInv, CallFits, Undecided
<1>3. verdict = "accepted" => ms # Refused
  BY <1>2, VerdictIsFirstDefect, TimeoutDefect
<1>4. verdict = "timeout" => ms = Refused
  BY <1>2, VerdictIsFirstDefect, TimeoutDefect
<1>5. ~Readable(d) => ms = IF d.prefix = "" /\ d.parts = <<>> THEN DefaultTimeout ELSE Refused
  BY <1>1, ParsedTimeout, Zenon
<1>6. Readable(d) => /\ ticks \in Int
                     /\ ms = IF ticks <= 0 \/ ticks > LongestTicks THEN Refused ELSE (ticks + 5) \div 10
  BY <1>1, ParsedTimeout, Zenon
<1> HIDE DEF d, ms, ticks
<1>7. ASSUME Readable(d), ms # Refused
      PROVE  ms \in 1..LongestTimeout /\ Magnitude(10 * ms - ticks) <= 5
  <2>1. ticks \in Int /\ ticks > 0 /\ ticks <= LongestTicks /\ ms = (ticks + 5) \div 10
    BY <1>6, <1>7 DEF Tick, LongestTicks
  <2>2. /\ ms \in Int /\ 0 <= ms /\ ms <= LongestTimeout
        /\ Magnitude(10 * ms - ticks) <= 5
    BY <2>1, Rounding
  <2>3. ms # 0
    BY <1>7 DEF Refused
  <2>4. ms \in 1..LongestTimeout
    <3>1. ms \in Int /\ 1 <= ms
      BY <2>2, <2>3
    <3>2. LongestTimeout \in Int
      BY SMT DEF LongestTimeout
    <3> QED
      BY <2>2, <3>1, <3>2
  <2> QED
    BY <2>2, <2>4
<1>8. ASSUME Readable(d), ms = Refused
      PROVE  ticks < 5 \/ ticks > LongestTicks
  <2>1. ticks \in Int /\ LongestTicks \in Int
    BY <1>6, <1>8 DEF Tick, LongestTicks
  <2> SUFFICES ASSUME ticks > 0, ticks <= LongestTicks PROVE ticks < 5
    BY <2>1
  <2>2. ms = (ticks + 5) \div 10
    BY <1>6, <1>8, <2>1
  <2>3. ms = 0
    BY <1>8 DEF Refused
  <2> QED
    BY <2>1, <2>2, <2>3
<1> QED
  BY <1>3, <1>4, <1>5, <1>7, <1>8, Zenon

-----------------------------------------------------------------------------

(* Whatever a ContinuousMove's duration, of however many parts: a move     *)
(* that is accepted runs for the sum of them to the nearest millisecond,   *)
(* and only what is malformed, too short or too long is refused.           *)
THEOREM TimeoutHonesty == DrySpec => []TimeoutIsHonest
BY DryInvariance, HonestState, PTL

=============================================================================
