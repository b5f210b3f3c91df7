------------------------------- MODULE Amounts -------------------------------
(***************************************************************************)
(* Money at the program's borders: a JSON amount becomes a float64 and     *)
(* then a whole number of cents (internal/intake), which is an int64       *)
(* everywhere inside and leaves as a decimal number, to a Processor        *)
(* (internal/processor) and to a reader of the summary (internal/summary). *)
(* JSON amounts are given in thousandths, so that half cents occur.        *)
(***************************************************************************)
EXTENDS Integers

CONSTANTS
  Mantissa,   \* bits of a float64's significand: 53
  IntBits     \* bits of an int64: 64

ASSUME AmountsAssumption ==
  /\ Mantissa \in Nat
  /\ IntBits \in Nat
  /\ 5 < Mantissa
  /\ Mantissa + 1 < IntBits

MaxInt64 == 2^(IntBits - 1) - 1

\* The float64 nearest to num/den, ties to the even significand, as a
\* fraction.  2^IntBits stands for every greater number, infinity included: they
\* are all too great for an int64.
Float64(num, den) ==
  LET Scaled(k) == IF k >= 0 THEN <<num * 2^k, den>> ELSE <<num, den * 2^(-k)>>
      scale == CHOOSE k \in (Mantissa - IntBits) .. 3 * Mantissa :
                 /\ Scaled(k)[2] * 2^(Mantissa - 1) <= Scaled(k)[1]
                 /\ Scaled(k)[1] < Scaled(k)[2] * 2^Mantissa
      n == Scaled(scale)[1]
      d == Scaled(scale)[2]
      up == \/ 2 * (n % d) > d
            \/ 2 * (n % d) = d /\ (n \div d) % 2 = 1
      significand == IF up THEN n \div d + 1 ELSE n \div d
  IN IF num >= den * 2^IntBits THEN <<2^IntBits, 1>>
     ELSE IF scale >= 0 THEN <<significand, 2^scale>>
     ELSE <<significand * 2^(-scale), 1>>

TimesHundred(x) == Float64(100 * x[1], x[2])

\* Mutant: int64(amount * 100).
Truncate(x) == x[1] \div x[2]

\* math.Round of a positive float64: half away from zero.
Round(x) == (2 * x[1] + x[2]) \div (2 * x[2])

\* float64(math.MaxInt64), which is one more than math.MaxInt64.
Limit == Round(Float64(MaxInt64, 1))

Rejected == 0

\* Mutant: the bound itself passes.
InRangeInclusive(rounded) == rounded \in 1 .. Limit

InRange(rounded) == rounded \in 1 .. Limit - 1

\* cents(amount), the nearest cent, or Rejected.
Cents(thousandths) ==
  IF thousandths <= 0
  THEN Rejected
  ELSE LET rounded == Round(TimesHundred(Float64(thousandths, 1000)))
       IN IF InRange(rounded) THEN rounded ELSE Rejected

-----------------------------------------------------------------------------
(***************************************************************************)
(* Decimal JSON numbers: the digits before the point as a number, and the  *)
(* two digits after it.                                                    *)
(***************************************************************************)
\* cents.MarshalJSON of internal/processor; a stored amount is positive.
ProcessorNumber(cents) ==
  [whole |-> cents \div 100, digits |-> <<(cents % 100) \div 10, cents % 10>>]

\* decimalCents.MarshalJSON of internal/summary; a total is not negative.
SummaryNumber(cents) ==
  LET fraction == cents % 100
  IN [whole |-> cents \div 100, digits |-> <<fraction \div 10, fraction % 10>>]

\* What the number means to its reader, in cents.
ReadNumber(n) == 100 * n.whole + 10 * n.digits[1] + n.digits[2]
=============================================================================
