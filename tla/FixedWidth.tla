------------------------------ MODULE FixedWidth ------------------------------
(***************************************************************************)
(* Go's int64 and float64, scaled down: signed integers of IntBits bits    *)
(* and binary floating point with FloatBits significant bits, as far as    *)
(* due times, scores, delays and JSON numbers use them.                    *)
(***************************************************************************)
EXTENDS Integers

CONSTANTS
    IntBits,        \* 64
    FloatBits       \* 53

ASSUME WidthAssumption ==
    /\ IntBits \in Nat \ {0}
    /\ FloatBits \in 1 .. IntBits

\* How powers of two grow: true for every n, but no law the provers know.
PowersDouble(n) ==
    \A k \in 0 .. n : 2 ^ k \in Nat \ {0} /\ (k > 0 => 2 ^ k = 2 * 2 ^ (k - 1))

ASSUME PowersAssumption == PowersDouble(IntBits)

MaxInt == 2 ^ (IntBits - 1) - 1

MinInt == - 2 ^ (IntBits - 1)

Int64 == MinInt .. MaxInt

\* Every integer up to here is a float.
MaxExact == 2 ^ FloatBits

\* Two's complement: what is left of x.
Wrap(x) == ((x - MinInt) % 2 ^ IntBits) + MinInt

\* The nearest multiple of unit, the even one of two equally near.
RoundTo(n, unit) ==
    LET down == n \div unit
        rest == n % unit
    IN  IF 2 * rest < unit \/ (2 * rest = unit /\ down % 2 = 0)
        THEN down * unit
        ELSE (down + 1) * unit

\* The float nearest to a natural number of at most IntBits bits.
Round(n) ==
    LET unit == CHOOSE u \in {2 ^ k : k \in 0 .. IntBits} :
                    /\ n <= u * MaxExact
                    /\ u = 1 \/ n > (u \div 2) * MaxExact
    IN  RoundTo(n, unit)

\* The same with half the significant bits.
RoundHalfThePrecision(n) ==
    LET unit == CHOOSE u \in {2 ^ k : k \in 0 .. IntBits} :
                    /\ n <= u * 2 ^ (FloatBits \div 2)
                    /\ u = 1 \/ n > (u \div 2) * 2 ^ (FloatBits \div 2)
    IN  RoundTo(n, unit)

\* float64(x).
ToFloat(x) == IF x < 0 THEN - Round(- x) ELSE Round(x)
=============================================================================
