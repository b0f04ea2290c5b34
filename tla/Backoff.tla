-------------------------------- MODULE Backoff --------------------------------
(***************************************************************************)
(* CalculateBackoff of internal/util/util.go in floating point.  JobModel  *)
(* and docs/INTERNALS.md have the formula in whole numbers.                *)
(***************************************************************************)
EXTENDS FixedWidth

CONSTANTS
    MaxExponent,    \* 1023: powers of two beyond this one are infinite
    MaxBackoffMs,
    JitterMaxMs

ASSUME BackoffAssumption ==
    /\ MaxExponent \in Nat /\ MaxExponent >= IntBits
    /\ MaxBackoffMs \in 1 .. MaxExact
    /\ JitterMaxMs \in Nat

Infinity == 2 ^ (MaxExponent + 1)

NaN == -1

\* math.Pow(2, k).
PowerOfTwo(k) == IF k > MaxExponent THEN Infinity ELSE 2 ^ k

\* The product of a float and a power of two.
Times(x, power) ==
    IF x = 0 /\ power = Infinity THEN NaN
    ELSE IF power = Infinity \/ x * power >= Infinity THEN Infinity
    ELSE x * power

\* int64 of a float: of one that is no number, whatever the processor makes of it.
ToInt(x) == IF x = NaN THEN MinInt ELSE x

\* A plausible slip: the formula of docs/INTERNALS.md:125 in Go's integers.
CapByShift(n, backoffBaseMs) ==
    LET exponential == Wrap(backoffBaseMs * 2 ^ (n - 1))
    IN  IF exponential > MaxBackoffMs THEN MaxBackoffMs ELSE exponential

\* util.go:41-46.
Cap(n, backoffBaseMs) ==
    LET exponential == Times(ToFloat(backoffBaseMs), PowerOfTwo(n - 1))
    IN  IF exponential > MaxBackoffMs THEN MaxBackoffMs ELSE ToInt(exponential)

CalculateBackoff(n, backoffBaseMs) ==
    LET clamped == IF n < 1 THEN 1 ELSE n
    IN  {Cap(clamped, backoffBaseMs) + jitter : jitter \in 0 .. JitterMaxMs}
=============================================================================
