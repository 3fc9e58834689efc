------------------------------- MODULE Money -------------------------------
(***************************************************************************)
(* internal/domain/money.go: amounts of whole minor units in a machine      *)
(* word, and the operations on them, each of which answers Overflow rather  *)
(* than leave the safe range.                                               *)
(*                                                                         *)
(* Half is 2^63 in the code and MaxSafe is 2^53 - 1. A word wraps: Wrap is   *)
(* what one addition or subtraction of two words leaves in the register. A   *)
(* float64 factor is a fraction num / den, exact because the receiver is     *)
(* below 2^53; its own error is not modelled.                                *)
(***************************************************************************)
EXTENDS Integers

CONSTANTS
    Half,        \* words run from -Half to Half - 1
    MaxSafe,     \* the largest amount the package accepts
    Overflow     \* the answer of an operation that refuses

ASSUME MoneyAssumption ==
    /\ Half \in Nat \ {0}
    /\ MaxSafe \in Nat
    /\ MaxSafe < Half
    /\ Overflow \notin Int

Words == (-Half) .. (Half - 1)
Safe(m) == -MaxSafe <= m /\ m <= MaxSafe

Wrap(x) == IF x >= Half THEN x - 2 * Half ELSE IF x < -Half THEN x + 2 * Half ELSE x
Negative(m) == m < 0

----------------------------------------------------------------------------
(* Sums: the wrap is caught by the signs, then the range is checked.        *)

\* Variant: the range alone is checked.
Add_RangeOnly(m, o) == IF Safe(Wrap(m + o)) THEN Wrap(m + o) ELSE Overflow

\* (m ^ s) & (o ^ s) < 0: the operands share a sign which the sum has not.
Add(m, o) ==
    LET s == Wrap(m + o) IN
    IF \/ Negative(m) # Negative(s) /\ Negative(o) # Negative(s)
       \/ ~Safe(s)
    THEN Overflow ELSE s

Sub(m, o) ==
    LET d == Wrap(m - o) IN
    IF \/ Negative(m) # Negative(o) /\ Negative(m) # Negative(d)
       \/ ~Safe(d)
    THEN Overflow ELSE d

Neg(m) == IF m = -Half \/ ~Safe(-m) THEN Overflow ELSE -m

----------------------------------------------------------------------------
(* Products and quotients, on magnitudes.                                   *)

Magnitude(m) == IF Negative(m) THEN -(m + 1) + 1 ELSE m

MulInt(m, k) ==
    IF m = 0 \/ k = 0 THEN 0
    ELSE IF ~Safe(m) \/ Magnitude(m) > MaxSafe \div Magnitude(k) THEN Overflow
    ELSE IF Negative(m) # Negative(k) THEN -(Magnitude(m) * Magnitude(k))
    ELSE Magnitude(m) * Magnitude(k)

\* Go's integer division truncates, and the remainder has the dividend's sign.
Quotient(m, k) ==
    IF Negative(m) # Negative(k) THEN -(Magnitude(m) \div Magnitude(k))
    ELSE Magnitude(m) \div Magnitude(k)

DivMod(m, k) ==
    IF k = -1
    THEN IF Neg(m) = Overflow THEN Overflow ELSE [quotient |-> Neg(m), remainder |-> 0]
    ELSE [quotient |-> Quotient(m, k), remainder |-> m - k * Quotient(m, k)]

Roundings == {"half_away_from_zero", "half_to_even", "toward_zero"}

\* The magnitude n / d, both natural, collapsed to a whole number.
Rounded(n, d, r) ==
    LET whole == n \div d
        rest == n % d
        up == \/ r = "half_away_from_zero" /\ 2 * rest >= d
              \/ r = "half_to_even" /\ (2 * rest > d \/ (2 * rest = d /\ whole % 2 = 1))
    IN IF up THEN whole + 1 ELSE whole

MulFloat(m, num, den, r) ==
    LET magnitude == Rounded(Magnitude(m) * num, den, r) IN
    IF ~Safe(m) \/ magnitude > MaxSafe THEN Overflow
    ELSE IF Negative(m) THEN -magnitude ELSE magnitude

----------------------------------------------------------------------------
(* What they promise.                                                       *)

Exactly(x) == IF Safe(x) THEN x ELSE Overflow

\* Sums, differences and negations are exact or refused, whatever two words
\* they are given: the sign test of Money.Add and Money.Sub lets no wrapped
\* result that happens to fall back into the safe range through.
SumsExact(m, o) ==
    /\ Add(m, o) = Exactly(m + o)
    /\ Sub(m, o) = Exactly(m - o)
    /\ Neg(m) = Exactly(-m)

\* A product of Money.MulInt is exact or refused; Money.DivMod loses nothing
\* (quotient * k + remainder is the dividend, the remainder is the smaller and
\* has the dividend's sign); a rounded product of Money.MulFloat is within half
\* a unit of the true one, within one below it when truncated, and symmetric
\* about zero, so that no rounding mode favours a side by the sign alone.
ProductsExact(m, k) ==
    /\ Safe(m) => MulInt(m, k) = Exactly(m * k)
    /\ (k # 0 /\ Safe(m)) =>
         LET d == DivMod(m, k) IN
         /\ d.quotient * k + d.remainder = m
         /\ Magnitude(d.remainder) < Magnitude(k)
         /\ d.remainder # 0 => Negative(d.remainder) = Negative(m)
    /\ (k > 0 /\ Safe(m)) =>
         \A den \in 1 .. 4, r \in Roundings :
            LET p == MulFloat(m, k, den, r) IN
            p # Overflow =>
               LET gap == p * den - m * k IN
               /\ 2 * Magnitude(gap) <= (IF r = "toward_zero" THEN 2 * den - 1 ELSE den)
               /\ r = "toward_zero" => Magnitude(p) * den <= Magnitude(m * k)
               /\ MulFloat(-m, k, den, r) = -p
=============================================================================
