-------------------------- MODULE ArithmeticProofs --------------------------
(***************************************************************************)
(* What is proved of the modules that count in int64 and float64, for any  *)
(* widths of the two: first about the formats, then about the due times of *)
(* a recurring job, the limits a process starts with, and the webhook that *)
(* goes through Redis and back.                                            *)
(***************************************************************************)
EXTENDS DueTimeArithmetic, Startup, Payload, WellFoundedInduction, TLAPS

(***************************************************************************)
(* int64.                                                                  *)
(***************************************************************************)

\* A set of naturals that is not empty has a least element.
LEMMA Least ==
    ASSUME NEW T \in SUBSET Nat, T # {}
    PROVE  \E x \in T : \A y \in T : x <= y
<1>1. PICK x \in T : \A y \in T : <<y, x>> \notin OpToRel(<, Nat)
    BY NatLessThanWellFounded, WFMin
<1>2. \A y \in T : ~(y < x)
    BY <1>1 DEF OpToRel
<1> QED BY <1>2

\* Powers of two in order, by the least exponent that is out of it.
LEMMA PowersGrow ==
    ASSUME NEW n \in Nat, PowersDouble(n), NEW b \in 0 .. n, NEW a \in 0 .. b
    PROVE  2 ^ a <= 2 ^ b
<1> DEFINE T == {i \in a .. n : 2 ^ a > 2 ^ i}
<1> SUFFICES ASSUME T # {} PROVE FALSE
    OBVIOUS
<1>1. T \in SUBSET Nat
    OBVIOUS
<1> HIDE DEF T
<1>2. PICK k \in T : \A i \in T : k <= i
    BY <1>1, Least
<1>3. k \in a .. n /\ 2 ^ a > 2 ^ k
    BY DEF T
<1>4. k # a
    BY <1>3
<1>5. k - 1 \in a .. n /\ k - 1 \notin T
    BY <1>2, <1>3, <1>4
<1>6. 2 ^ a <= 2 ^ (k - 1)
    BY <1>5 DEF T
<1>7. 2 ^ k = 2 * 2 ^ (k - 1) /\ 2 ^ (k - 1) \in Nat /\ 2 ^ a \in Nat
    BY <1>3, <1>4, <1>5 DEF PowersDouble
<1> QED BY <1>3, <1>6, <1>7

\* An int64 is one of 2 * (MaxInt + 1) integers.
LEMMA Widths ==
    /\ MaxInt \in Nat
    /\ MinInt = - MaxInt - 1
    /\ 2 ^ IntBits = 2 * (MaxInt + 1)
    /\ Int64 = - MaxInt - 1 .. MaxInt
    /\ MaxExact \in 1 .. 2 ^ IntBits
<1>1. /\ IntBits \in 0 .. IntBits /\ IntBits > 0 /\ IntBits - 1 \in 0 .. IntBits
      /\ FloatBits \in 0 .. IntBits
    BY WidthAssumption
<1>2. /\ 2 ^ IntBits = 2 * 2 ^ (IntBits - 1)
      /\ 2 ^ (IntBits - 1) \in Nat \ {0}
      /\ 2 ^ FloatBits \in Nat \ {0}
    BY <1>1, PowersAssumption DEF PowersDouble
<1>3. 2 ^ FloatBits <= 2 ^ IntBits
    BY <1>1, PowersAssumption, PowersGrow
<1> QED BY <1>2, <1>3 DEF MaxInt, MinInt, Int64, MaxExact

\* What fits is kept.
LEMMA WrapOfInt64 ==
    ASSUME NEW x \in Int64
    PROVE  Wrap(x) = x
BY Widths DEF Wrap

LEMMA WrapType ==
    ASSUME NEW x \in Int
    PROVE  Wrap(x) \in Int64
BY Widths DEF Wrap

\* Doubling an int64 that is positive: either the result is right or it is negative.
LEMMA WrapOfDouble ==
    ASSUME NEW m \in 1 .. MaxInt, Wrap(m * 2) >= 0
    PROVE  Wrap(m * 2) = 2 * m
BY Widths DEF Wrap

-----------------------------------------------------------------------------
(***************************************************************************)
(* float64.                                                                *)
(***************************************************************************)

\* The units Round chooses from.
Units == {2 ^ k : k \in 0 .. IntBits}

FitsUnit(n, u) ==
    /\ n <= u * MaxExact
    /\ u = 1 \/ n > (u \div 2) * MaxExact

LEMMA MaxExactIsEven == \E m \in Nat \ {0} : MaxExact = 2 * m
<1>1. FloatBits \in 0 .. IntBits /\ FloatBits > 0 /\ FloatBits - 1 \in 0 .. IntBits
    BY WidthAssumption
<1>2. MaxExact = 2 * 2 ^ (FloatBits - 1) /\ 2 ^ (FloatBits - 1) \in Nat \ {0}
    BY <1>1, PowersAssumption DEF PowersDouble, MaxExact
<1> QED BY <1>2

\* A unit is 1 or twice another one.
LEMMA UnitShape ==
    ASSUME NEW u \in Units
    PROVE  /\ u \in Nat \ {0}
           /\ u # 1 => \E v \in Nat \ {0} : v \in Units /\ u = 2 * v /\ u \div 2 = v
<1>1. PICK k \in 0 .. IntBits : u = 2 ^ k
    BY DEF Units
<1>2. CASE k = 0
    BY <1>1, <1>2
<1>3. CASE k > 0
    <2>1. k - 1 \in 0 .. IntBits
        BY <1>3, WidthAssumption
    <2>2. u = 2 * 2 ^ (k - 1) /\ 2 ^ (k - 1) \in Nat \ {0}
        BY <1>1, <1>3, <2>1, PowersAssumption DEF PowersDouble
    <2> DEFINE v == 2 ^ (k - 1)
    <2>3. v \in Nat \ {0} /\ u = 2 * v
        BY <2>2
    <2> HIDE DEF v
    <2>4. u \div 2 = v
        BY <2>3
    <2>5. v \in Units
        BY <2>1 DEF v, Units
    <2> QED BY <2>3, <2>4, <2>5
<1> QED BY <1>1, <1>2, <1>3, WidthAssumption

LEMMA UnitExists ==
    ASSUME NEW n \in 0 .. 2 ^ IntBits
    PROVE  \E u \in Units : FitsUnit(n, u)
<1> DEFINE T == {k \in 0 .. IntBits : n <= 2 ^ k * MaxExact}
<1>1. IntBits \in T
    <2>1. 2 ^ IntBits \in Nat /\ MaxExact \in Nat \ {0}
        BY Widths
    <2>2. 2 ^ IntBits <= 2 ^ IntBits * MaxExact
        BY <2>1
    <2> QED BY <2>1, <2>2, WidthAssumption
<1>2. PICK k \in T : \A i \in T : k <= i
    <2>1. T \in SUBSET Nat /\ T # {}
        BY <1>1, WidthAssumption
    <2> HIDE DEF T
    <2> QED BY <2>1, Least
<1>3. 2 ^ k \in Units /\ n <= 2 ^ k * MaxExact
    BY DEF Units
<1>4. CASE k = 0
    BY <1>3, <1>4 DEF FitsUnit
<1>5. CASE k > 0
    <2>1. k - 1 \in 0 .. IntBits /\ k - 1 \notin T
        BY <1>2, <1>5, WidthAssumption
    <2>2. n > 2 ^ (k - 1) * MaxExact
        BY <2>1, Widths, PowersAssumption DEF PowersDouble
    <2>3. 2 ^ k \div 2 = 2 ^ (k - 1)
        <3> DEFINE v == 2 ^ (k - 1)
        <3>1. 2 ^ k = 2 * v /\ v \in Nat
            BY <1>5, <2>1, PowersAssumption DEF PowersDouble
        <3> HIDE DEF v
        <3>2. (2 * v) \div 2 = v
            BY <3>1
        <3>3. 2 ^ k \div 2 = v
            BY <3>1, <3>2
        <3> QED BY <3>3 DEF v
    <2> QED BY <1>3, <2>2, <2>3 DEF FitsUnit
<1> QED BY <1>4, <1>5, WidthAssumption

RoundUnit(n) == CHOOSE u \in Units : FitsUnit(n, u)

LEMMA RoundIsRoundTo ==
    ASSUME NEW n
    PROVE  Round(n) = RoundTo(n, RoundUnit(n))
BY DEF Round, RoundUnit, Units, FitsUnit

\* What has few enough digits is kept.
LEMMA RoundOfExact ==
    ASSUME NEW n \in 0 .. MaxExact
    PROVE  Round(n) = n
<1>1. FitsUnit(n, 1) /\ 1 \in Units
    <2>1. 1 = 2 ^ 0
        OBVIOUS
    <2>2. 0 \in 0 .. IntBits
        BY WidthAssumption
    <2>3. 1 \in Units
        BY <2>1, <2>2 DEF Units
    <2>4. n <= 1 * MaxExact
        BY Widths
    <2> QED BY <2>3, <2>4 DEF FitsUnit
<1>2. ASSUME NEW u \in Units, FitsUnit(n, u), u # 1
      PROVE  FALSE
    <2>1. PICK v \in Nat \ {0} : u \div 2 = v
        BY <1>2, UnitShape
    <2>2. n > v * MaxExact
        BY <1>2, <2>1 DEF FitsUnit
    <2> QED BY <2>2, Widths
<1>3. RoundUnit(n) = 1
    BY <1>1, <1>2 DEF RoundUnit
<1>4. RoundTo(n, 1) = n
    BY Widths DEF RoundTo
<1> QED BY <1>3, <1>4, RoundIsRoundTo

\* What has more digits is not rounded below the numbers that have few enough.
LEMMA RoundOfLarge ==
    ASSUME NEW n \in 0 .. 2 ^ IntBits, n > MaxExact
    PROVE  Round(n) \in Nat /\ Round(n) >= MaxExact
<1> DEFINE u == RoundUnit(n)
<1>1. u \in Units /\ FitsUnit(n, u)
    BY UnitExists DEF RoundUnit
<1>2. n \in Nat /\ MaxExact \in Nat \ {0}
    BY Widths
<1> HIDE DEF u
<1>3. u # 1
    BY <1>1, <1>2 DEF FitsUnit
<1>4. PICK v \in Nat \ {0} : u = 2 * v /\ u \div 2 = v
    BY <1>1, <1>3, UnitShape
<1>5. n > v * MaxExact
    BY <1>1, <1>3, <1>4 DEF FitsUnit
<1>6. PICK m \in Nat \ {0} : MaxExact = 2 * m
    BY MaxExactIsEven
<1>7. n > u * m
    BY <1>2, <1>4, <1>5, <1>6
<1> DEFINE down == n \div u
<1>8. down \in Nat /\ n < u * (down + 1)
    BY <1>2, <1>4
<1> HIDE DEF down
<1>9. m <= down
    BY <1>2, <1>4, <1>6, <1>7, <1>8
<1>10. m * u >= MaxExact /\ down * u >= m * u /\ (down + 1) * u >= m * u
    BY <1>4, <1>6, <1>8, <1>9
<1>11. down * u \in Nat /\ (down + 1) * u \in Nat /\ m * u \in Nat
    BY <1>4, <1>6, <1>8
<1>12. RoundTo(n, u) = down * u \/ RoundTo(n, u) = (down + 1) * u
    BY DEF RoundTo, down
<1>13. RoundTo(n, u) \in Nat /\ RoundTo(n, u) >= MaxExact
    BY <1>2, <1>10, <1>11, <1>12
<1> QED BY <1>13, RoundIsRoundTo DEF u

\* A number has one unit.
LEMMA UnitIsUnique ==
    ASSUME NEW n \in Nat, NEW u \in Units, NEW w \in Units, FitsUnit(n, u), FitsUnit(n, w)
    PROVE  u = w
<1>1. ASSUME NEW a \in Units, NEW b \in Units, FitsUnit(n, a), FitsUnit(n, b), a < b
      PROVE  FALSE
    <2>1. PICK i \in 0 .. IntBits, k \in 0 .. IntBits : a = 2 ^ i /\ b = 2 ^ k
        BY DEF Units
    <2>2. a \in Nat \ {0} /\ b \in Nat \ {0} /\ MaxExact \in Nat
        BY UnitShape, Widths
    <2>3. b # 1
        BY <1>1, <2>2
    <2>4. PICK v \in Nat \ {0} : b = 2 * v /\ b \div 2 = v
        BY <2>3, UnitShape
    <2>5. i < k
        <3> SUFFICES ASSUME k <= i PROVE FALSE
            BY WidthAssumption, <2>1
        <3>1. k \in 0 .. i /\ IntBits \in Nat
            BY WidthAssumption, <2>1
        <3>2. 2 ^ k <= 2 ^ i
            BY <3>1, <2>1, PowersGrow, PowersAssumption
        <3> QED BY <1>1, <2>1, <2>2, <3>2
    <2>6. k - 1 \in 0 .. IntBits /\ i \in 0 .. k - 1 /\ IntBits \in Nat /\ k > 0
        BY <2>1, <2>5, WidthAssumption
    <2>7. 2 ^ i <= 2 ^ (k - 1) /\ 2 ^ k = 2 * 2 ^ (k - 1) /\ 2 ^ (k - 1) \in Nat
        BY <2>1, <2>6, PowersGrow, PowersAssumption DEF PowersDouble
    <2>8. a <= v
        BY <2>1, <2>2, <2>4, <2>7
    <2>9. a * MaxExact <= v * MaxExact /\ a * MaxExact \in Nat /\ v * MaxExact \in Nat
        BY <2>2, <2>4, <2>8
    <2> QED BY <1>1, <2>3, <2>4, <2>9 DEF FitsUnit
<1>2. u \in Nat /\ w \in Nat
    BY UnitShape
<1> QED BY <1>1, <1>2

\* A multiple of its unit is a float.
LEMMA RoundOfMultiple ==
    ASSUME NEW u \in Units, NEW q \in Nat, FitsUnit(q * u, u)
    PROVE  Round(q * u) = q * u
<1>1. u \in Nat \ {0}
    BY UnitShape
<1>2. q * u \in Nat
    BY <1>1
<1> DEFINE n == q * u
<1>3. RoundUnit(n) \in Units /\ FitsUnit(n, RoundUnit(n))
    BY DEF RoundUnit
<1>4. RoundUnit(n) = u
    BY <1>2, <1>3, UnitIsUnique
<1>5. n \div u = q /\ n % u = 0
    <2>1. n = u * q + 0 /\ 0 < u
        BY <1>1
    <2> HIDE DEF n
    <2> QED BY <1>1, <2>1
<1>6. RoundTo(n, u) = q * u
    BY <1>1, <1>5 DEF RoundTo
<1> QED BY <1>4, <1>6, RoundIsRoundTo DEF n

\* What has been rounded is a float: the last one of its binade is the first of the next.
LEMMA RoundOfRound ==
    ASSUME NEW n \in 0 .. 2 ^ IntBits
    PROVE  Round(n) \in Nat /\ Round(Round(n)) = Round(n)
<1>1. n \in Nat /\ MaxExact \in Nat \ {0}
    BY Widths
<1>2. CASE n <= MaxExact
    BY <1>1, <1>2, RoundOfExact
<1>3. CASE n > MaxExact
    <2> DEFINE u == RoundUnit(n)
    <2>1. u \in Units /\ FitsUnit(n, u)
        BY UnitExists DEF RoundUnit
    <2>2. Round(n) = RoundTo(n, u)
        BY RoundIsRoundTo
    <2> HIDE DEF u
    <2>3. u # 1
        BY <1>1, <1>3, <2>1 DEF FitsUnit
    <2>4. PICK v \in Nat \ {0} : v \in Units /\ u = 2 * v /\ u \div 2 = v
        BY <2>1, <2>3, UnitShape
    <2>5. PICK m \in Nat \ {0} : MaxExact = 2 * m
        BY MaxExactIsEven
    <2>6. n > u * m /\ n <= u * (2 * m)
        BY <1>1, <2>1, <2>3, <2>4, <2>5 DEF FitsUnit
    <2> DEFINE down == n \div u
               rest == n % u
    <2>7. down \in Nat /\ rest \in 0 .. u - 1 /\ n = u * down + rest
        <3>1. u \in Nat \ {0}
            BY <2>4
        <3>2. n \div u \in Nat
            BY <1>1, <3>1
        <3>3. n % u \in 0 .. u - 1
            BY <1>1, <3>1
        <3>4. n = u * (n \div u) + (n % u)
            BY <1>1, <3>1
        <3> QED BY <3>2, <3>3, <3>4
    <2>8. RoundTo(n, u) = down * u \/ (rest # 0 /\ RoundTo(n, u) = (down + 1) * u)
        BY <2>4 DEF RoundTo
    <2> HIDE DEF down, rest
    <2>9. m <= down
        BY <2>4, <2>5, <2>6, <2>7
    <2>10. down <= 2 * m /\ (rest # 0 => down + 1 <= 2 * m)
        BY <2>4, <2>5, <2>6, <2>7
    <2>11. PICK q \in m .. 2 * m : RoundTo(n, u) = q * u
        BY <2>5, <2>7, <2>8, <2>9, <2>10
    <2>12. q * u \in Nat
        BY <2>4, <2>5
    <2>13. CASE q > m
        <3>1. q * u <= u * MaxExact /\ q * u > v * MaxExact
            BY <2>4, <2>5, <2>13
        <3>2. FitsUnit(q * u, u)
            BY <2>4, <3>1 DEF FitsUnit
        <3> QED BY <2>1, <2>2, <2>5, <2>11, <2>12, <3>2, RoundOfMultiple
    <2>14. CASE q = m
        <3>1. q * u = MaxExact * v
            BY <2>4, <2>5, <2>14
        <3>3. v \div 2 < v /\ v \div 2 \in Nat
            BY <2>4
        <3>4. v = 1 \/ MaxExact * v > (v \div 2) * MaxExact
            BY <1>1, <2>4, <3>3
        <3>5. FitsUnit(MaxExact * v, v)
            BY <1>1, <2>4, <3>4 DEF FitsUnit
        <3> QED BY <1>1, <2>2, <2>4, <2>11, <2>12, <3>1, <3>5, RoundOfMultiple
    <2> QED BY <2>13, <2>14, <2>5
<1> QED BY <1>1, <1>2, <1>3

LEMMA ToFloatTwice ==
    ASSUME NEW x \in - (2 ^ IntBits) .. 2 ^ IntBits
    PROVE  ToFloat(ToFloat(x)) = ToFloat(x)
<1>1. 2 ^ IntBits \in Nat
    BY Widths
<1>2. CASE x >= 0
    BY <1>1, <1>2, RoundOfRound DEF ToFloat
<1>3. CASE x < 0
    <2>1. - x \in 0 .. 2 ^ IntBits
        BY <1>1, <1>3
    <2> DEFINE r == Round(- x)
    <2>2. r \in Nat /\ Round(r) = r /\ ToFloat(x) = - r
        BY <1>1, <1>3, <2>1, RoundOfRound DEF ToFloat
    <2> HIDE DEF r
    <2>3. - (- r) = r
        BY <2>2
    <2> QED BY <2>2, <2>3 DEF ToFloat
<1> QED BY <1>1, <1>2, <1>3

\* A float64 is compared with the clock as the integer it was made of.
LEMMA FloatOrder ==
    ASSUME NEW x \in - (2 ^ IntBits) .. 2 ^ IntBits, NEW t \in 0 .. MaxExact - 1
    PROVE  ToFloat(x) <= t <=> x <= t
<1>1. 2 ^ IntBits \in Nat /\ MaxExact \in Nat
    BY Widths
<1>2. CASE x < 0
    <2>1. - x \in 0 .. 2 ^ IntBits
        BY <1>1, <1>2
    <2>2. Round(- x) \in Nat
        BY <1>1, <2>1, RoundOfExact, RoundOfLarge
    <2> QED BY <1>1, <1>2, <2>2 DEF ToFloat
<1>3. CASE x >= 0 /\ x <= MaxExact
    BY <1>1, <1>3, RoundOfExact DEF ToFloat
<1>4. CASE x > MaxExact
    <2>1. Round(x) \in Nat /\ Round(x) >= MaxExact
        BY <1>1, <1>4, RoundOfLarge
    <2> QED BY <1>1, <1>4, <2>1 DEF ToFloat
<1> QED BY <1>1, <1>2, <1>3, <1>4

-----------------------------------------------------------------------------
(***************************************************************************)
(* CalculateBackoff: floating point, infinity included, computes what the  *)
(* formula in whole numbers says.                                          *)
(***************************************************************************)

LEMMA CapIsExact ==
    ASSUME NEW n \in 1 .. MaxAttempts, NEW b \in Bases
    PROVE  Cap(n, b) = IF b * 2 ^ (n - 1) > MaxBackoffMs THEN MaxBackoffMs
                                                        ELSE b * 2 ^ (n - 1)
<1> DEFINE power == 2 ^ (n - 1)
<1>1. /\ b \in Nat \ {0} /\ b <= 2 ^ IntBits /\ 2 ^ IntBits \in Nat
      /\ MaxExact \in Nat /\ MaxBackoffMs \in 1 .. MaxExact
    BY Widths, DueTimeAssumption, BackoffAssumption
<1>2. /\ n - 1 \in 0 .. MaxExponent + MaxAttempts
      /\ MaxExponent + 1 \in 0 .. MaxExponent + MaxAttempts
      /\ FloatBits \in 0 .. MaxExponent + 1
      /\ MaxExponent + MaxAttempts \in Nat
    BY WidthAssumption, BackoffAssumption, DueTimeAssumption
<1>3. power \in Nat \ {0} /\ Infinity \in Nat
    BY <1>2, DueTimeAssumption DEF PowersDouble, Infinity
<1>4. Infinity >= MaxExact
    BY <1>2, PowersGrow, DueTimeAssumption DEF Infinity, MaxExact
<1>5. n - 1 > MaxExponent => power >= Infinity
    BY <1>2, PowersGrow, DueTimeAssumption, BackoffAssumption DEF Infinity
<1> DEFINE float == ToFloat(b)
<1>6. float = b \/ (float >= MaxExact /\ b > MaxExact)
    <2>1. ToFloat(b) = Round(b)
        BY <1>1 DEF ToFloat
    <2> QED BY <1>1, <2>1, RoundOfExact, RoundOfLarge
<1>7. float \in Nat \ {0}
    <2>1. ToFloat(b) = Round(b)
        BY <1>1 DEF ToFloat
    <2> QED BY <1>1, <2>1, RoundOfExact, RoundOfLarge
<1> DEFINE exponential == Times(float, PowerOfTwo(n - 1))
<1>8. Cap(n, b) = IF exponential > MaxBackoffMs THEN MaxBackoffMs ELSE ToInt(exponential)
    BY DEF Cap
<1>9. exponential = IF n - 1 > MaxExponent \/ power = Infinity \/ float * power >= Infinity
                    THEN Infinity ELSE float * power
    BY <1>7 DEF Times, PowerOfTwo
<1> HIDE DEF power, float, exponential
<1>10. float * power \in Nat /\ b * power \in Nat
       /\ float * power >= float /\ float * power >= power
       /\ b * power >= b /\ b * power >= power
    BY <1>1, <1>3, <1>7
<1>11. \/ exponential = float * power
       \/ exponential = Infinity /\ float * power >= Infinity
    BY <1>3, <1>5, <1>9, <1>10
<1>12. CASE float = b
    <2>1. exponential \in Nat /\ ToInt(exponential) = exponential
        BY <1>3, <1>10, <1>11 DEF ToInt, NaN
    <2> QED BY <1>1, <1>3, <1>4, <1>8, <1>10, <1>11, <1>12, <2>1 DEF power
<1>13. CASE float >= MaxExact /\ b > MaxExact
    <2>1. exponential \in Nat /\ exponential >= MaxBackoffMs
        BY <1>1, <1>3, <1>4, <1>7, <1>10, <1>11, <1>13
    <2>2. b * power > MaxBackoffMs
        BY <1>1, <1>10, <1>13
    <2>3. ToInt(exponential) = exponential
        BY <2>1 DEF ToInt, NaN
    <2>4. Cap(n, b) = MaxBackoffMs
        BY <1>1, <1>8, <2>1, <2>3
    <2> QED BY <2>2, <2>4 DEF power
<1> QED BY <1>6, <1>12, <1>13

-----------------------------------------------------------------------------
(***************************************************************************)
(* The due times of a recurring job.                                       *)
(***************************************************************************)

DueTimeInv ==
    /\ now \in 0 .. MaxNow
    /\ due \in Int64 \cup (- MaxExact .. MaxExact)
    /\ score \in {ToFloat(due), NotScheduled}
    /\ attempt \in Nat
    /\ interval \in Intervals
    /\ base \in Bases

LEMMA DueTimeInit == Init => DueTimeInv
BY Widths DEF Init, DueTimeInv, MaxNow

\* The delay before a retry, in a record of any job.
LEMMA DelayBounds ==
    ASSUME NEW n \in 1 .. MaxAttempts, NEW b \in Bases, NEW delay \in CalculateBackoff(n, b)
    PROVE  delay \in 0 .. MaxBackoffMs + JitterMaxMs
<1>1. PICK jitter \in 0 .. JitterMaxMs : delay = Cap(n, b) + jitter
    BY DueTimeAssumption DEF CalculateBackoff
<1>2. Cap(n, b) \in 0 .. MaxBackoffMs
    <2> DEFINE exact == b * 2 ^ (n - 1)
    <2>1. exact \in Nat
        <3>1. n - 1 \in 0 .. MaxExponent + MaxAttempts
            BY WidthAssumption, BackoffAssumption, DueTimeAssumption
        <3>2. b \in Nat /\ 2 ^ (n - 1) \in Nat
            BY <3>1, DueTimeAssumption, Widths DEF PowersDouble
        <3> QED BY <3>2
    <2>2. Cap(n, b) = IF exact > MaxBackoffMs THEN MaxBackoffMs ELSE exact
        BY CapIsExact
    <2> HIDE DEF exact
    <2> QED BY <2>1, <2>2, BackoffAssumption, Widths
<1> QED BY <1>1, <1>2, BackoffAssumption, Widths

LEMMA DueTimeNext ==
    ASSUME DueTimeInv, [Next]_vars
    PROVE  DueTimeInv'
<1> USE DEF DueTimeInv
<1>1. CASE Advance
    BY <1>1, Widths DEF Advance, MaxNow
<1>2. CASE Succeed
    <2>1. due + interval \in Int
        BY Widths, DueTimeAssumption
    <2>2. due' \in Int64 /\ score' = ToFloat(due')
        BY <1>2, <2>1, WrapType DEF Succeed, Schedule, NextDue
    <2> QED BY <1>2, <2>2 DEF Succeed
<1>3. CASE Fail
    <2>1. attempt' = attempt + 1 /\ UNCHANGED <<now, interval, base>>
        BY <1>3 DEF Fail
    <2>2. CASE attempt' >= MaxAttempts
        BY <1>3, <2>1, <2>2 DEF Fail
    <2>3. CASE ~(attempt' >= MaxAttempts)
        <3>1. PICK delay \in CalculateBackoff(attempt', base) : Schedule(Wrap(now + delay))
            BY <1>3, <2>3 DEF Fail
        <3>2. attempt' \in 1 .. MaxAttempts
            BY <2>1, <2>3, DueTimeAssumption
        <3>3. now + delay \in Int
            BY <3>2, DelayBounds, Widths DEF MaxNow
        <3>4. due' \in Int64 /\ score' = ToFloat(due')
            BY <3>1, <3>3, WrapType DEF Schedule
        <3> QED BY <2>1, <3>4
    <2> QED BY <2>2, <2>3
<1>4. CASE Stop \/ UNCHANGED vars
    BY <1>4 DEF Stop, vars
<1> QED BY <1>1, <1>2, <1>3, <1>4 DEF Next

LEMMA DueTimeOrder ==
    ASSUME DueTimeInv, score = ToFloat(due)
    PROVE  Found <=> due <= now
<1>1. due \in - (2 ^ IntBits) .. 2 ^ IntBits
    BY Widths DEF DueTimeInv
<1> QED BY <1>1, FloatOrder DEF DueTimeInv, Found, MaxNow

\* The inductive invariant holds: the clock stays where floats are exact, a due time is
\* an int64 or that small, and its score is its rounding or absent (redis.go:65, 145).
THEOREM DueTimeInvHolds == Spec => []DueTimeInv
<1>1. Init => DueTimeInv
    BY DueTimeInit
<1>2. DueTimeInv /\ [Next]_vars => DueTimeInv'
    BY DueTimeNext
<1> QED BY <1>1, <1>2, PTL DEF Spec

\* Rounding a due time to a float64 score neither hides a due job from the poll nor
\* shows it one early, for any widths of the two formats, any intervals and any
\* backoff, wrapped sums included (redis.go:65, 145).
THEOREM PollSeesWhatIsDue == Spec => []FoundWhenDue
<1>1. DueTimeInv => FoundWhenDue
    BY DueTimeOrder DEF DueTimeInv, FoundWhenDue
<1> QED BY <1>1, DueTimeInvHolds, PTL

\* A run that succeeds is followed by one exactly an interval later, if the interval
\* leaves room for the time at which the run was found due (executor.go:234).
THEOREM IntervalsDoNotWrap ==
    ASSUME Intervals \subseteq 1 .. MaxInt + 1 - MaxExact
    PROVE  Spec => IntervalIsKept
<1>1. ASSUME DueTimeInv, Succeed
      PROVE  due' = due + interval
    <2>1. /\ interval \in Int /\ 1 <= interval /\ interval <= MaxInt + 1 - MaxExact
          /\ MaxInt \in Nat /\ MaxExact \in Nat
          /\ now \in Int /\ now <= MaxExact - 1
        BY <1>1, Widths DEF DueTimeInv, MaxNow
    <2>2. score # NotScheduled
        BY <1>1, <2>1 DEF Succeed, Found, NotScheduled
    <2>3. due <= now
        BY <1>1, <2>2, DueTimeOrder DEF DueTimeInv, Succeed
    <2>4. due \in Int /\ - MaxInt - 1 <= due
        BY <1>1, <2>1, Widths DEF DueTimeInv
    <2>5. due + interval \in Int64
        BY <2>1, <2>3, <2>4, Widths
    <2> QED BY <1>1, <2>5, WrapOfInt64 DEF Succeed, Schedule, NextDue
<1>2. DueTimeInv /\ [Next]_vars => [Succeed => due' = due + interval]_vars
    BY <1>1
<1> QED BY <1>2, DueTimeInvHolds, PTL DEF Spec, IntervalIsKept

\* Every retry is due exactly when the formula in whole numbers says, however often
\* the job has failed and whatever the base, if an int64 has room for the longest
\* delay from the end of the modelled time (util.go:33-54).
THEOREM RetriesAreExact ==
    ASSUME MaxExact + MaxBackoffMs + JitterMaxMs <= MaxInt + 1
    PROVE  Spec => BackoffIsExact
<1>1. ASSUME DueTimeInv, Fail, attempt' < MaxAttempts
      PROVE  due' - now \in Ideal!CalculateBackoff(attempt', base)
    <2>1. PICK n \in 1 .. MaxAttempts : n = attempt'
        BY <1>1, DueTimeAssumption DEF DueTimeInv, Fail
    <2>2. PICK delay \in CalculateBackoff(n, base) : Schedule(Wrap(now + delay))
        BY <1>1, <2>1, DueTimeAssumption DEF Fail
    <2>3. PICK jitter \in 0 .. JitterMaxMs : delay = Cap(n, base) + jitter
        BY <2>1, <2>2 DEF CalculateBackoff
    <2>4. delay \in 0 .. MaxBackoffMs + JitterMaxMs
        BY <1>1, <2>2, DelayBounds DEF DueTimeInv
    <2>5. now + delay \in Int64
        BY <1>1, <2>4, Widths, BackoffAssumption DEF DueTimeInv, MaxNow
    <2>6. due' - now = delay
        BY <1>1, <2>2, <2>4, <2>5, WrapOfInt64, Widths DEF Schedule, DueTimeInv, MaxNow
    <2> DEFINE exact == base * 2 ^ (n - 1)
               capped == IF exact > MaxBackoffMs THEN MaxBackoffMs ELSE exact
    <2>7. Cap(n, base) = capped
        BY <1>1, CapIsExact DEF DueTimeInv
    <2>8. exact \in Int
        BY <1>1, DueTimeAssumption, Widths DEF DueTimeInv
    <2>9. Ideal!CalculateBackoff(n, base) =
            {d \in 0 .. (MaxBackoffMs + JitterMaxMs) :
                capped <= d /\ d <= capped + JitterMaxMs}
        BY DEF Ideal!CalculateBackoff
    <2> HIDE DEF exact
    <2>10. capped \in Int
        BY <2>8, BackoffAssumption, Widths
    <2> HIDE DEF capped
    <2>11. capped <= delay /\ delay <= capped + JitterMaxMs
        BY <2>3, <2>7, <2>10, BackoffAssumption
    <2> QED BY <2>1, <2>4, <2>6, <2>9, <2>11
<1>2. DueTimeInv /\ [Next]_vars =>
        [Fail /\ attempt' < MaxAttempts =>
            due' - now \in Ideal!CalculateBackoff(attempt', base)]_vars
    BY <1>1
<1> QED BY <1>2, DueTimeInvHolds, PTL DEF Spec, BackoffIsExact

-----------------------------------------------------------------------------
(***************************************************************************)
(* The limits a process runs with.                                         *)
(***************************************************************************)

LEMMA RunTypes ==
    ASSUME flags \in Configs
    PROVE  /\ flags.maxInflight \in Int64
           /\ QueueCapacity \in Int /\ PollInterval \in Int
<1>1. /\ flags.maxInflight \in Int64 /\ flags.pollMs \in Int64
      /\ NsPerMs \in Nat
    BY StartupAssumption, NsPerMsAssumption DEF Configs
<1>2. flags.maxInflight * 2 \in Int /\ flags.pollMs * NsPerMs \in Int
    BY <1>1, Widths
<1>3. Wrap(flags.maxInflight * 2) \in Int /\ Wrap(flags.pollMs * NsPerMs) \in Int
    <2>1. \A x \in Int : Wrap(x) \in Int
        BY WrapType, Widths
    <2> QED BY <1>2, <2>1
<1> QED BY <1>1, <1>3 DEF QueueCapacity, PollInterval, Duration

\* What run() has checked by the time it stands at pc.
StartupInv ==
    /\ flags \in Configs
    /\ pc \in {"parse", "connect", "create", "start", "running", "stopping",
              "exited"}
    /\ pc \in {"connect", "create", "start", "running"} => Valid(flags)
    /\ pc \in {"start", "running"} => QueueCapacity >= 0
    /\ pc = "running" => PollInterval > 0

\* A process that has come to run has the limits every other module assumes, whatever
\* integers it was given and however wide they are: the two products that may
\* overflow, the queue's capacity and the ticker's interval, end the process before
\* they can do harm (config.go:69-118, executor.go:43-45, scheduler.go:44).
THEOREM LimitsAreSound == StartupSpec => []RunningIsSound
<1> USE DEF StartupInv
<1>1. StartupInit => StartupInv
    BY DEF StartupInit
<1>2. StartupInv /\ [StartupNext]_startupVars => StartupInv'
    <2> SUFFICES ASSUME StartupInv, [StartupNext]_startupVars PROVE StartupInv'
        OBVIOUS
    <2>1. UNCHANGED flags
        BY DEF StartupNext, Parse, Connect, CreateComponents, StartComponents,
               Listen, Signal, BeginShutdown, EndShutdown, startupVars
    <2>2. /\ Valid(flags)' <=> Valid(flags)
          /\ QueueCapacity' = QueueCapacity
          /\ PollInterval' = PollInterval
        BY <2>1 DEF Valid, QueueCapacity, PollInterval
    <2>3. CASE Parse
        BY <2>1, <2>2, <2>3 DEF Parse, Exit
    <2>4. CASE Connect
        BY <2>1, <2>2, <2>4 DEF Connect, Exit
    <2>5. CASE CreateComponents
        BY <2>1, <2>2, <2>5, RunTypes DEF CreateComponents, Exit
    <2>6. CASE StartComponents
        BY <2>1, <2>2, <2>6, RunTypes DEF StartComponents, Exit
    <2>7. CASE Listen \/ Signal \/ BeginShutdown \/ EndShutdown \/ UNCHANGED startupVars
        BY <2>1, <2>2, <2>7 DEF Listen, Signal, BeginShutdown, EndShutdown, Exit, startupVars
    <2> QED BY <2>3, <2>4, <2>5, <2>6, <2>7 DEF StartupNext
<1>3. StartupInv => RunningIsSound
    <2> SUFFICES ASSUME StartupInv, pc = "running" PROVE RunningIsSound
        BY DEF RunningIsSound
    <2>1. /\ flags.batch > 0 /\ flags.maxInflight > 0 /\ flags.maxPerDomain > 0
          /\ flags.defaultTimeoutMs > 0
          /\ QueueCapacity >= 0 /\ PollInterval > 0
        BY DEF Valid
    <2>2. flags.maxInflight \in 1 .. MaxInt
        BY <2>1, RunTypes, Widths
    <2>3. QueueCapacity = 2 * flags.maxInflight
        BY <2>1, <2>2, WrapOfDouble DEF QueueCapacity
    <2> QED BY <2>1, <2>3 DEF RunningIsSound
<1> QED BY <1>1, <1>2, <1>3, PTL DEF StartupSpec

-----------------------------------------------------------------------------
(***************************************************************************)
(* The webhook a client describes, and the one that is sent.               *)
(***************************************************************************)

\* A number of few enough digits survives a passage through JSON.
LEMMA DecodeOfExact ==
    ASSUME NEW s, s \subseteq - MaxExact .. MaxExact
    PROVE  {ToFloat(n) : n \in s} = s
<1>1. ASSUME NEW n \in s
      PROVE  ToFloat(n) = n
    <2>1. ToFloat(n) = n
        BY Widths, RoundOfExact DEF ToFloat
    <2> QED BY <2>1
<1> QED BY <1>1

LEMMA DecodeOfOne ==
    ASSUME NEW s
    PROVE  DecodeJSON(<<s>>) = <<{ToFloat(n) : n \in s}>>
BY DEF DecodeJSON

\* What a job's webhook is once it has been created: in Redis, in memory, for good.
Kept == Validated([given EXCEPT !.body = DecodeJSON(@)])

PayloadInv ==
    /\ phase \in {"given", "stored", "loaded", "attempted"}
    /\ given \in Webhooks
    /\ IF phase = "given" THEN DOMAIN hash = {} ELSE job = Kept /\ hash = Serialize(Kept)

OneBody(body) == body = <<>> \/ \E s \in SUBSET Numbers : body = <<s>>

LEMMA AtMostOne ==
    ASSUME NEW S, NEW b \in Seq(S), Len(b) <= 1
    PROVE  b = <<>> \/ b = <<b[1]>>
<1>1. Len(b) \in Nat
    OBVIOUS
<1>2. CASE Len(b) = 0
    BY <1>2
<1>3. CASE Len(b) = 1
    BY <1>3
<1> QED BY <1>1, <1>2, <1>3

LEMMA GivenBody ==
    ASSUME given \in Webhooks
    PROVE  OneBody(given.body)
<1>1. given.body \in Seq(SUBSET Numbers) /\ Len(given.body) <= 1
    BY PayloadAssumption DEF Webhooks
<1>2. given.body = <<>> \/ given.body = <<given.body[1]>>
    BY <1>1, AtMostOne
<1>3. given.body # <<>> => given.body[1] \in SUBSET Numbers
    BY <1>1
<1> QED BY <1>2, <1>3 DEF OneBody

\* The fields of Kept, and that decoding its body changes nothing any more.
LEMMA KeptShape ==
    ASSUME given \in Webhooks
    PROVE  /\ Kept = [headers |-> given.headers, body |-> DecodeJSON(given.body),
                      timeoutMs |-> IF given.timeoutMs <= 0 THEN DefaultTimeoutMs
                                                           ELSE given.timeoutMs]
           /\ Kept.body = <<>> <=> given.body = <<>>
           /\ Len(Kept.body) = Len(given.body)
           /\ given.body # <<>> => Kept.body = <<Head(Kept.body)>>
           /\ DecodeJSON(Kept.body) = Kept.body
<1>1. Kept = [headers |-> given.headers, body |-> DecodeJSON(given.body),
              timeoutMs |-> IF given.timeoutMs <= 0 THEN DefaultTimeoutMs
                                                   ELSE given.timeoutMs]
    <2> DEFINE body == DecodeJSON(given.body)
               decoded == [given EXCEPT !.body = body]
    <2>1. given = [headers |-> given.headers, body |-> given.body,
                   timeoutMs |-> given.timeoutMs]
        BY DEF Webhooks
    <2> HIDE DEF body
    <2>2. decoded = [headers |-> given.headers, body |-> body, timeoutMs |-> given.timeoutMs]
        BY <2>1
    <2>3. Kept = Validated(decoded)
        BY DEF Kept, body
    <2> HIDE DEF decoded
    <2>4. Kept = [headers |-> given.headers, body |-> body,
                  timeoutMs |-> IF given.timeoutMs <= 0 THEN DefaultTimeoutMs
                                                       ELSE given.timeoutMs]
        BY <2>2, <2>3 DEF Validated
    <2> QED BY <2>4 DEF body
<1>2. Kept.body = DecodeJSON(given.body)
    BY <1>1
<1>3. CASE given.body = <<>>
    BY <1>1, <1>2, <1>3 DEF DecodeJSON
<1>4. CASE given.body # <<>>
    <2>1. PICK s \in SUBSET Numbers : given.body = <<s>>
        BY <1>4, GivenBody DEF OneBody
    <2> DEFINE t == {ToFloat(n) : n \in s}
    <2>2. Kept.body = <<t>>
        BY <1>2, <2>1, DecodeOfOne
    <2>3. \A n \in s : ToFloat(ToFloat(n)) = ToFloat(n)
        BY ToFloatTwice DEF Numbers
    <2>4. {ToFloat(n) : n \in t} = t
        BY <2>3
    <2> HIDE DEF t
    <2>5. DecodeJSON(Kept.body) = Kept.body
        BY <2>2, <2>4, DecodeOfOne
    <2> QED BY <1>1, <1>4, <2>1, <2>2, <2>5
<1> QED BY <1>3, <1>4

\* The hash of Kept holds all of it: the fields left out are those of nil maps.
LEMMA DeserializeKept ==
    ASSUME given \in Webhooks
    PROVE  Deserialize(Serialize(Kept)) = Kept
<1> DEFINE fields == Serialize(Kept)
<1>1. /\ DOMAIN fields = Fields(Kept)
      /\ "timeout_ms" \in DOMAIN fields /\ fields["timeout_ms"] = Kept.timeoutMs
      /\ "headers_json" \in DOMAIN fields <=> Kept.headers # {}
      /\ "headers_json" \in DOMAIN fields => fields["headers_json"] = Kept.headers
      /\ "body_json" \in DOMAIN fields <=> Kept.body # <<>>
      /\ "body_json" \in DOMAIN fields => fields["body_json"] = Head(Kept.body)
    BY DEF Serialize, Fields
<1> HIDE DEF fields
<1>2. Deserialize(fields).headers = Kept.headers
    BY <1>1 DEF Deserialize
<1>3. Deserialize(fields).body = Kept.body
    BY <1>1, KeptShape DEF Deserialize
<1>4. Deserialize(fields).timeoutMs = Kept.timeoutMs
    BY <1>1 DEF Deserialize
<1>5. Deserialize(fields) = [headers |-> Deserialize(fields).headers,
                             body |-> Deserialize(fields).body,
                             timeoutMs |-> Deserialize(fields).timeoutMs]
    BY DEF Deserialize
<1>6. Kept = [headers |-> Kept.headers, body |-> Kept.body, timeoutMs |-> Kept.timeoutMs]
    BY KeptShape
<1> QED BY <1>2, <1>3, <1>4, <1>5, <1>6 DEF fields

\* Writing Kept over nothing or over itself.
LEMMA HSetKept ==
    ASSUME HSet(Kept), DOMAIN hash = {} \/ hash = Serialize(Kept)
    PROVE  hash' = Serialize(Kept)
<1>1. DOMAIN Serialize(Kept) = Fields(Kept)
    BY DEF Serialize
<1>2. Fields(Kept) \cup DOMAIN hash = Fields(Kept)
    BY <1>1
<1>3. hash' = [field \in Fields(Kept) |-> Serialize(Kept)[field]]
    BY <1>2 DEF HSet
<1>4. Serialize(Kept) = [field \in Fields(Kept) |-> Serialize(Kept)[field]]
    <2> DEFINE V(field) == CASE field = "timeout_ms" -> Kept.timeoutMs
                             [] field = "headers_json" -> Kept.headers
                             [] field = "body_json" -> Head(Kept.body)
               f == Serialize(Kept)
    <2>1. f = [field \in Fields(Kept) |-> V(field)]
        BY Zenon DEF Serialize
    <2> HIDE DEF V, f
    <2>2. f = [field \in Fields(Kept) |-> f[field]]
        BY <2>1
    <2> QED BY <2>2 DEF f
<1> QED BY <1>3, <1>4

LEMMA PayloadStep ==
    ASSUME PayloadInv, [PayloadNext]_payloadVars
    PROVE  PayloadInv' /\ (phase # "given" => hash' = hash)
<1>1. UNCHANGED given /\ given \in Webhooks
    BY DEF PayloadInv, PayloadNext, Create, Load, DoWebhook, Update, payloadVars
<1>2. Kept' = Kept /\ Serialize(Kept)' = Serialize(Kept)
    BY <1>1 DEF Kept, Serialize, Fields
<1>3. CASE Create
    <2>1. job' = Kept /\ HSet(Kept) /\ phase = "given" /\ phase' = "stored"
        BY <1>3 DEF Create, Kept, HSet
    <2>2. hash' = Serialize(Kept)
        BY <2>1, HSetKept DEF PayloadInv
    <2> QED BY <1>1, <1>2, <2>1, <2>2 DEF PayloadInv
<1>4. CASE Load
    <2>1. /\ phase = "stored" /\ phase' = "loaded"
          /\ job' = Deserialize(hash) /\ hash' = hash
        BY <1>4 DEF Load
    <2>2. hash = Serialize(Kept)
        BY <2>1 DEF PayloadInv
    <2>3. job' = Kept
        BY <1>1, <2>1, <2>2, DeserializeKept
    <2> QED BY <1>1, <1>2, <2>1, <2>2, <2>3 DEF PayloadInv
<1>5. CASE DoWebhook \/ UNCHANGED payloadVars
    <2>1. /\ job' = job /\ hash' = hash
          /\ phase' = phase \/ (phase = "loaded" /\ phase' = "attempted")
        BY <1>5 DEF DoWebhook, payloadVars
    <2> QED BY <1>1, <1>2, <2>1 DEF PayloadInv
<1>6. CASE Update
    <2>1. /\ phase = "attempted" /\ phase' = "stored"
          /\ HSet(job) /\ job' = job
        BY <1>6 DEF Update
    <2>2. job = Kept /\ hash = Serialize(Kept)
        BY <2>1 DEF PayloadInv
    <2>3. HSet(Kept)
        BY <2>1, <2>2 DEF HSet
    <2>4. hash' = Serialize(Kept)
        BY <2>2, <2>3, HSetKept
    <2> QED BY <1>1, <1>2, <2>1, <2>2, <2>4 DEF PayloadInv
<1> QED BY <1>3, <1>4, <1>5, <1>6 DEF PayloadNext

\* What the three passes leave of each: the automatic values, the user's for a name
\* that is not automatic and has one spelling, and the Content-Type nobody replaced.
LEMMA HeaderPasses ==
    ASSUME NEW last
    PROVE  /\ \A name \in Automatic : Header(last)[name] = <<"id">>
           /\ \A key \in job.headers :
                key[1] \in Names \ Automatic
                /\ (\A other \in job.headers : other[1] = key[1] => other = key)
                    => Header(last)[key[1]] = key
           /\ job.body # <<>> /\ (\A key \in job.headers : key[1] # "Content-Type")
                => Header(last)["Content-Type"] = <<"json">>
<1> DEFINE first == SetAll(NoRequest.headers, ContentType)
           second == SetAll(first, UserHeaders(last))
<1>1. Header(last) = SetAll(second, AutomaticHeaders)
    BY DEF Header
<1>2. /\ DOMAIN AutomaticHeaders = Automatic
      /\ \A name \in Automatic : AutomaticHeaders[name] = <<"id">>
    BY DEF AutomaticHeaders
<1>3. DOMAIN UserHeaders(last) = {key[1] : key \in job.headers}
    BY DEF UserHeaders
<1>4. ASSUME NEW name \in Automatic
      PROVE  Header(last)[name] = <<"id">>
    <2>1. name \in Names
        BY PayloadAssumption
    <2> QED BY <1>1, <1>2, <2>1 DEF SetAll
<1>5. ASSUME NEW name \in Names \ Automatic
      PROVE  Header(last)[name] = second[name]
    BY <1>1, <1>2 DEF SetAll
<1>6. ASSUME NEW key \in job.headers, key[1] \in Names \ Automatic,
             \A other \in job.headers : other[1] = key[1] => other = key
      PROVE  Header(last)[key[1]] = key
    <2> DEFINE keys == {other \in job.headers : other[1] = key[1]}
    <2>1. keys = {key}
        BY <1>6
    <2>2. key[1] \in DOMAIN UserHeaders(last)
        BY <1>3
    <2>3. UserHeaders(last)[key[1]] = IF <<key[1], last[key[1]]>> \in keys
                                     THEN <<key[1], last[key[1]]>>
                                     ELSE CHOOSE other \in keys : TRUE
        BY <2>2 DEF UserHeaders
    <2> HIDE DEF keys
    <2>4. UserHeaders(last)[key[1]] = key
        BY <2>1, <2>3
    <2>5. second[key[1]] = key
        BY <1>6, <2>2, <2>4 DEF SetAll
    <2> QED BY <1>5, <1>6, <2>5
<1>7. ASSUME job.body # <<>>, \A key \in job.headers : key[1] # "Content-Type"
      PROVE  Header(last)["Content-Type"] = <<"json">>
    <2>1. "Content-Type" \in Names \ Automatic
        BY PayloadAssumption DEF Automatic
    <2>2. first["Content-Type"] = <<"json">>
        BY <1>7, <2>1 DEF SetAll, ContentType
    <2>3. "Content-Type" \notin DOMAIN UserHeaders(last)
        BY <1>3, <1>7
    <2> HIDE DEF first
    <2>4. second["Content-Type"] = <<"json">>
        BY <2>1, <2>2, <2>3 DEF SetAll
    <2> QED BY <1>5, <2>1, <2>4
<1> QED BY <1>4, <1>6, <1>7

LEMMA TimeoutFits ==
    ASSUME NEW t \in Int, NEW ns \in Nat \ {0}, t \in 1 .. MaxInt \div ns
    PROVE  t * ns \in 1 .. MaxInt
<1> DEFINE q == MaxInt \div ns
<1>1. q \in Nat /\ ns * q <= MaxInt
    BY Widths
<1>2. t \in 1 .. q
    OBVIOUS
<1> HIDE DEF q
<1>3. t * ns <= ns * q /\ t * ns >= 1 /\ t * ns \in Int /\ ns * q \in Int
    BY <1>1, <1>2
<1> QED BY <1>1, <1>3, Widths

\* An attempt of a job that is what the client gave.
LEMMA AttemptIsAsGiven ==
    ASSUME PayloadInv, DoWebhook
    PROVE  RequestIsAsGiven'
<1>1. /\ job = Kept /\ UNCHANGED given /\ given \in Webhooks
      /\ timeout' = Duration(job.timeoutMs)
    BY DEF PayloadInv, DoWebhook
<1>2. PICK last \in Iterations : request' = Request(last)
    BY DEF DoWebhook
<1>3. /\ job.headers = given.headers /\ job.body = DecodeJSON(given.body)
      /\ Len(job.body) = Len(given.body) /\ (job.body = <<>> <=> given.body = <<>>)
      /\ request'.body = job.body /\ request'.headers = Header(last)
      /\ request'.sent = (timeout' > 0)
    BY <1>1, <1>2, KeptShape DEF Request
<1>4. ASSUME \A i \in 1 .. Len(given.body) : given.body[i] \subseteq - MaxExact .. MaxExact
      PROVE  request'.body = given.body
    <2>1. CASE given.body = <<>>
        BY <1>3, <2>1
    <2>2. CASE given.body # <<>>
        <3>1. PICK s \in SUBSET Numbers : given.body = <<s>>
            BY <1>1, <2>2, GivenBody DEF OneBody
        <3>2. s \subseteq - MaxExact .. MaxExact
            BY <1>4, <3>1
        <3> QED BY <1>3, <3>1, <3>2, DecodeOfOne, DecodeOfExact
    <2> QED BY <2>1, <2>2
<1>5. Len(request'.body) = Len(given.body)
    BY <1>3
<1>6. ASSUME NEW key \in given.headers, key[1] \notin Automatic,
             \A other \in given.headers : other[1] = key[1] => other = key
      PROVE  request'.headers[key[1]] = key
    <2>1. key[1] \in Names
        BY <1>1 DEF Webhooks
    <2> QED BY <1>3, <1>6, <2>1, HeaderPasses
<1>7. /\ \A name \in Automatic : request'.headers[name] = <<"id">>
      /\ given.body # <<>> /\ (\A key \in given.headers : key[1] # "Content-Type")
            => request'.headers["Content-Type"] = <<"json">>
    BY <1>3, HeaderPasses
<1>8. ASSUME given.timeoutMs \in 1 .. MaxInt \div NsPerMs
      PROVE  request'.sent /\ timeout' = given.timeoutMs * NsPerMs
    <2>1. given.timeoutMs \in Int /\ NsPerMs \in Nat \ {0}
        <3>1. given.timeoutMs \in Int64
            BY PayloadAssumption DEF PayloadInv, Webhooks
        <3>2. NsPerMs \in Nat \ {0}
            BY NsPerMsAssumption
        <3> QED BY <3>1, <3>2, Widths
    <2>2. given.timeoutMs * NsPerMs \in 1 .. MaxInt
        BY <1>8, <2>1, TimeoutFits
    <2> DEFINE d == given.timeoutMs * NsPerMs
    <2>3. job.timeoutMs = given.timeoutMs
        BY <1>1, <1>8, <2>1, KeptShape
    <2>4. timeout' = Wrap(d)
        BY <1>1, <2>3 DEF Duration
    <2>5. d \in 1 .. MaxInt
        BY <2>2
    <2> HIDE DEF d
    <2>6. d \in Int64 /\ d > 0
        BY <2>5, Widths
    <2>7. timeout' = d
        BY <2>4, <2>6, WrapOfInt64
    <2> QED BY <1>3, <2>6, <2>7 DEF d
<1> QED BY <1>1, <1>4, <1>5, <1>6, <1>7, <1>8
        DEF RequestIsAsGiven

\* The inductive invariant holds: from the creation on, Redis and the worker's copy both
\* have the webhook as it was decoded and validated then (redis.go:164-289).
THEOREM PayloadInvHolds == PayloadSpec => []PayloadInv
<1>1. PayloadInit => PayloadInv
    BY DEF PayloadInit, PayloadInv
<1>2. PayloadInv /\ [PayloadNext]_payloadVars => PayloadInv'
    BY PayloadStep
<1> QED BY <1>1, <1>2, PTL DEF PayloadSpec

\* After the first write nothing changes what is stored of a webhook: rounding is
\* idempotent, whatever the widths, and an attempt writes nothing back into the job
\* (redis.go:171-289, executor.go:190-203).
THEOREM StoredWebhookStays == PayloadSpec => StoredWebhookIsStable
<1>1. PayloadInv /\ [PayloadNext]_payloadVars
        => [phase # "given" => hash' = hash]_payloadVars
    BY PayloadStep
<1> QED BY <1>1, PayloadInvHolds, PTL DEF PayloadSpec, StoredWebhookIsStable

\* However often a job goes to Redis and comes back, what an attempt sends is what the
\* client gave, as far as a float64, a Duration and one spelling per header allow, for
\* any webhooks and widths (redis.go:171-300, executor.go:169-206).
THEOREM WebhookIsAsGiven == PayloadSpec => []RequestIsAsGiven
<1>1. PayloadInit => RequestIsAsGiven
    BY DEF PayloadInit, RequestIsAsGiven, Attempted
<1>2. PayloadInv /\ RequestIsAsGiven /\ [PayloadNext]_payloadVars
        => RequestIsAsGiven'
    <2> SUFFICES ASSUME PayloadInv, RequestIsAsGiven, [PayloadNext]_payloadVars
                 PROVE  RequestIsAsGiven'
        OBVIOUS
    <2>1. CASE DoWebhook
        BY <2>1, AttemptIsAsGiven
    <2>2. CASE Create \/ Load \/ Update
        BY <2>2 DEF Create, Load, Update, RequestIsAsGiven,
                    Attempted
    <2>3. CASE UNCHANGED payloadVars
        BY <2>3 DEF payloadVars, RequestIsAsGiven, Attempted
    <2> QED BY <2>1, <2>2, <2>3 DEF PayloadNext
<1> QED BY <1>1, <1>2, PayloadInvHolds, PTL DEF PayloadSpec
=============================================================================
