---------------------------- MODULE AmountsProofs ----------------------------
(***************************************************************************)
(* How far the binary floating point on the way from a JSON amount to      *)
(* whole cents may lead astray, for any size of significand and integer    *)
(* that the assumption on them allows, 53 and 64 bits among them.          *)
(***************************************************************************)
EXTENDS Amounts, FiniteSetTheorems, TLAPS

-----------------------------------------------------------------------------
(***************************************************************************)
(* Induction over the naturals, for a set instead of a predicate.          *)
(***************************************************************************)
LEMMA LeastNatural ==
  ASSUME NEW T, T \subseteq Nat, T # {}
  PROVE  \E m \in T : \A k \in T : m <= k
<1> DEFINE less == OpToRel(<, Nat)
<1>1. IsWellFoundedOn(less, Nat)
  BY NatLessThanWellFounded
<1>2. \A m, k \in T : k < m => <<k, m>> \in less
  BY DEF OpToRel
<1> HIDE DEF less
<1>3. PICK m \in T : \A k \in T : <<k, m>> \notin less
  BY <1>1, WFMin
<1>4. \A k \in T : k \in Nat /\ m \in Nat /\ ~(k < m)
  BY <1>2, <1>3
<1>5. \A k \in T : m <= k
  BY <1>4
<1>6. QED
  BY <1>5

LEMMA Induction ==
  ASSUME NEW T, 0 \in T, \A n \in Nat : n \in T => n + 1 \in T
  PROVE  \A n \in Nat : n \in T
<1> DEFINE missing == {n \in Nat : n \notin T}
<1> SUFFICES ASSUME missing # {}
             PROVE  FALSE
  OBVIOUS
<1>1. PICK m \in missing : \A k \in missing : m <= k
  BY LeastNatural
<1>2. m # 0 /\ m - 1 \in Nat /\ m - 1 \notin missing
  BY <1>1
<1>3. QED
  BY <1>1, <1>2

-----------------------------------------------------------------------------
(***************************************************************************)
(* Powers of two.  What the provers do not know of them follows from the   *)
(* number of subsets of a set.                                             *)
(***************************************************************************)
LEMMA PowerCountsSubsets ==
  ASSUME NEW n \in Nat
  PROVE  /\ IsFiniteSet(SUBSET (1 .. n))
         /\ 2^n = Cardinality(SUBSET (1 .. n))
         /\ 2^n \in Nat
<1>1. IsFiniteSet(1 .. n) /\ Cardinality(1 .. n) = n
  BY FS_Interval
<1>2. IsFiniteSet(SUBSET (1 .. n)) /\ Cardinality(SUBSET (1 .. n)) = 2^Cardinality(1 .. n)
  BY <1>1, FS_SUBSET
<1>3. Cardinality(SUBSET (1 .. n)) \in Nat
  BY <1>2, FS_CardinalityType
<1>4. QED
  BY <1>1, <1>2, <1>3

\* Half of the subsets of 1 .. n + 1 hold n + 1.
LEMMA PowerDoubles ==
  ASSUME NEW n \in Nat
  PROVE  2^(n + 1) = 2 * 2^n
<1> DEFINE without == SUBSET (1 .. n)
           with == {T \cup {n + 1} : T \in without}
           add == [T \in without |-> T \cup {n + 1}]
<1>1. SUBSET (1 .. (n + 1)) = without \cup with
  <2>1. ASSUME NEW T \in SUBSET (1 .. (n + 1))
        PROVE  T \in without \cup with
    <3>1. CASE n + 1 \in T
      <4>1. T \ {n + 1} \in without /\ T = (T \ {n + 1}) \cup {n + 1}
        BY <3>1
      <4>2. QED
        BY <4>1
    <3>2. CASE n + 1 \notin T
      BY <3>2
    <3>3. QED
      BY <3>1, <3>2
  <2>2. with \subseteq SUBSET (1 .. (n + 1)) /\ without \subseteq SUBSET (1 .. (n + 1))
    <3>1. 1 .. n \subseteq 1 .. (n + 1) /\ n + 1 \in 1 .. (n + 1)
      OBVIOUS
    <3>2. QED
      BY <3>1
  <2> HIDE DEF with, without
  <2>3. QED
    BY <2>1, <2>2
<1>2. without \cap with = {}
  OBVIOUS
<1>3. add \in Bijection(without, with)
  <2>1. \A S, T \in without : add[S] = add[T] => S = T
    OBVIOUS
  <2>2. add \in [without -> with] /\ \A S \in with : \E T \in without : add[T] = S
    OBVIOUS
  <2>3. QED
    BY <2>1, <2>2 DEF Bijection, Injection, Surjection, IsInjective
<1>4. IsFiniteSet(without) /\ 2^n = Cardinality(without) /\ 2^n \in Nat
  BY PowerCountsSubsets
<1>5. IsFiniteSet(with) /\ Cardinality(with) = Cardinality(without)
  <2>1. ExistsBijection(without, with)
    BY <1>3 DEF ExistsBijection
  <2> HIDE DEF with, without
  <2>2. QED
    BY <1>4, <2>1, FS_Bijection
<1>6. 2^(n + 1) = Cardinality(without \cup with)
  <2>1. 2^(n + 1) = Cardinality(SUBSET (1 .. (n + 1)))
    BY n + 1 \in Nat, PowerCountsSubsets
  <2>2. QED
    BY <1>1, <2>1
<1> HIDE DEF without, with, add
<1>7. Cardinality(without \cup with) =
        Cardinality(without) + Cardinality(with) - Cardinality(without \cap with)
  BY <1>4, <1>5, FS_Union
<1>8. Cardinality(without \cap with) = 0
  BY <1>2, FS_EmptySet
<1>9. QED
  BY <1>4, <1>5, <1>6, <1>7, <1>8

\* n < 2^n, so that powers are positive and exceed every bound.
LEMMA PowerExceeds == \A n \in Nat : 2^n \in Nat /\ n < 2^n
<1> DEFINE T == {n \in Nat : n < 2^n}
<1>1. \A n \in Nat : 2^n \in Nat
  BY PowerCountsSubsets
<1>2. 0 \in T
  OBVIOUS
<1>3. ASSUME NEW n \in Nat, n \in T
      PROVE  n + 1 \in T
  BY <1>1, <1>3, PowerDoubles
<1> HIDE DEF T
<1>4. \A n \in Nat : n \in T
  BY <1>2, <1>3, Induction
<1>5. QED
  BY <1>1, <1>4 DEF T

LEMMA PowerOfSum ==
  ASSUME NEW m \in Nat
  PROVE  \A n \in Nat : 2^(m + n) = 2^m * 2^n
<1> DEFINE T == {n \in Nat : 2^(m + n) = 2^m * 2^n}
<1>1. 0 \in T
  BY PowerExceeds
<1>2. ASSUME NEW n \in Nat, n \in T
      PROVE  n + 1 \in T
  <2>1. 2^(m + (n + 1)) = 2 * 2^(m + n)
    <3>1. m + n \in Nat /\ m + (n + 1) = (m + n) + 1
      OBVIOUS
    <3>2. QED
      BY <3>1, PowerDoubles
  <2>2. 2^(n + 1) = 2 * 2^n /\ 2^m \in Nat /\ 2^n \in Nat
    BY PowerDoubles, PowerExceeds
  <2>3. QED
    BY <1>2, <2>1, <2>2
<1> HIDE DEF T
<1>3. \A n \in Nat : n \in T
  BY <1>1, <1>2, Induction
<1>4. QED
  BY <1>3 DEF T

LEMMA PowerGrows ==
  ASSUME NEW m \in Nat, NEW n \in Nat, m <= n
  PROVE  2^m <= 2^n
<1>1. 2^n = 2^m * 2^(n - m)
  BY PowerOfSum, n - m \in Nat, m + (n - m) = n
<1>2. 2^m \in Nat /\ 2^(n - m) \in Nat /\ 2^(n - m) > 0
  BY PowerExceeds, n - m \in Nat
<1>3. QED
  BY <1>1, <1>2

-----------------------------------------------------------------------------
(***************************************************************************)
(* Float64.  The parts of its definition, by name.                         *)
(***************************************************************************)
Scaled(num, den, k) == IF k >= 0 THEN <<num * 2^k, den>> ELSE <<num, den * 2^(-k)>>

FillsSignificand(x) ==
  /\ x[2] * 2^(Mantissa - 1) <= x[1]
  /\ x[1] < x[2] * 2^Mantissa

Scales == (Mantissa - IntBits) .. 3 * Mantissa

Scale(num, den) == CHOOSE k \in Scales : FillsSignificand(Scaled(num, den, k))

RoundsUp(n, d) == \/ 2 * (n % d) > d
                  \/ 2 * (n % d) = d /\ (n \div d) % 2 = 1

Significand(n, d) == IF RoundsUp(n, d) THEN n \div d + 1 ELSE n \div d

LEMMA Float64Unfolds ==
  ASSUME NEW num, NEW den
  PROVE  LET k == Scale(num, den)
             x == Scaled(num, den, k)
             significand == Significand(x[1], x[2])
         IN Float64(num, den) =
              IF num >= den * 2^IntBits THEN <<2^IntBits, 1>>
              ELSE IF k >= 0 THEN <<significand, 2^k>>
              ELSE <<significand * 2^(-k), 1>>
BY DEF Float64, Scale, Scales, Scaled, FillsSignificand, Significand, RoundsUp

LEMMA ScaleByLess ==
  ASSUME NEW a \in Int, NEW b \in Int, NEW c \in Nat, c > 0
  PROVE  (a < b <=> a * c < b * c) /\ (a <= b <=> a * c <= b * c)
OBVIOUS

LEMMA Regroup ==
  ASSUME NEW a \in Int, NEW b \in Int, NEW c \in Int, NEW d \in Int
  PROVE  a * (b * c * d) = ((a * b) * c) * d
OBVIOUS

\* The numbers that the range of exponents is made for.
InScale(num, den) ==
  /\ num \in Nat /\ den \in Nat /\ num > 0 /\ den > 0
  /\ den <= num * 2^(2 * Mantissa + 1)
  /\ num < den * 2^IntBits

LEMMA ScaleFits ==
  ASSUME NEW num, NEW den, InScale(num, den)
  PROVE  /\ Scale(num, den) \in Scales
         /\ FillsSignificand(Scaled(num, den, Scale(num, den)))
<1> USE AmountsAssumption
<1> DEFINE M == Mantissa
           far == num * 2^(3 * M)
           T == {j \in Nat : far < den * 2^j}
<1>1. num \in Nat /\ den \in Nat /\ num > 0 /\ den > 0
  BY DEF InScale
<1>2. M \in Nat /\ IntBits \in Nat /\ 3 * M \in Nat /\ M - 1 \in Nat /\ 2 * M + 1 \in Nat
      /\ IntBits + 3 * M \in Nat
  OBVIOUS
<1>3. \A n \in Nat : 2^n \in Nat /\ 2^n > 0
  BY PowerExceeds
<1> HIDE DEF M
<1>4. IntBits + 3 * M \in T
  <2>1. 2^(IntBits + 3 * M) = 2^IntBits * 2^(3 * M)
    BY <1>2, PowerOfSum
  <2>2. num < den * 2^IntBits
    BY DEF InScale
  <2>3. num * 2^(3 * M) < (den * 2^IntBits) * 2^(3 * M)
    BY <1>1, <1>2, <1>3, <2>2, ScaleByLess
  <2>4. QED
    BY <1>1, <1>2, <1>3, <2>1, <2>3
<1>5. PICK j \in T : \A i \in T : j <= i
  BY <1>4, LeastNatural
<1>6. j \in Nat /\ far < den * 2^j /\ j <= IntBits + 3 * M
  BY <1>4, <1>5
<1>7. M <= j
  <2> SUFFICES ASSUME j <= M - 1
               PROVE  FALSE
    BY <1>2, <1>6
  <2>1. 2^j <= 2^(M - 1)
    BY <1>2, <1>6, PowerGrows
  <2>2. den * 2^j <= den * 2^(M - 1)
    BY <1>1, <1>2, <1>3, <1>6, <2>1, ScaleByLess
  <2>3. den * 2^(M - 1) <= (num * 2^(2 * M + 1)) * 2^(M - 1)
    <3>1. den <= num * 2^(2 * M + 1)
      BY DEF InScale, M
    <3>2. QED
      BY <1>1, <1>2, <1>3, <3>1, ScaleByLess
  <2>4. 2^(3 * M) = 2^(2 * M + 1) * 2^(M - 1)
    BY <1>2, PowerOfSum, (2 * M + 1) + (M - 1) = 3 * M
  <2>5. (num * 2^(2 * M + 1)) * 2^(M - 1) = far
    BY <1>1, <1>2, <1>3, <2>4
  <2>6. QED
    BY <1>1, <1>2, <1>3, <1>6, <2>2, <2>3, <2>5
<1>8. j - 1 \in Nat /\ den * 2^(j - 1) <= far
  <2>1. j - 1 \in Nat /\ j - 1 \notin T
    BY <1>2, <1>5, <1>6, <1>7, M > 5 DEF M
  <2>2. QED
    BY <1>1, <1>2, <1>3, <2>1
<1> DEFINE k == 4 * M - j
<1>9. k \in Scales
  BY <1>2, <1>6, <1>7 DEF Scales, M
<1>10. FillsSignificand(Scaled(num, den, k))
  <2>1. CASE k >= 0
    <3>1. 2^(3 * M) = 2^k * 2^(j - M)
      BY <1>2, <1>6, <1>7, <2>1, PowerOfSum, k + (j - M) = 3 * M, k \in Nat, j - M \in Nat
    <3>2. 2^j = 2^M * 2^(j - M)
      BY <1>2, <1>6, <1>7, PowerOfSum, M + (j - M) = j, j - M \in Nat
    <3>3. 2^(j - 1) = 2^(M - 1) * 2^(j - M)
      BY <1>2, <1>6, <1>7, PowerOfSum, (M - 1) + (j - M) = j - 1, j - M \in Nat
    <3>4. k \in Nat /\ 2^k \in Nat /\ 2^M \in Nat /\ 2^(M - 1) \in Nat
          /\ 2^(j - M) \in Nat /\ 2^(j - M) > 0
      BY <1>2, <1>3, <1>6, <1>7, <2>1
    <3> HIDE DEF k
    <3>5. (num * 2^k) * 2^(j - M) < (den * 2^M) * 2^(j - M)
      BY <1>1, <1>6, <3>1, <3>2, <3>4
    <3>6. (den * 2^(M - 1)) * 2^(j - M) <= (num * 2^k) * 2^(j - M)
      BY <1>1, <1>8, <3>1, <3>3, <3>4
    <3>7. num * 2^k < den * 2^M
      BY <1>1, <3>4, <3>5, ScaleByLess
    <3>8. den * 2^(M - 1) <= num * 2^k
      BY <1>1, <3>4, <3>6, ScaleByLess
    <3>9. QED
      BY <2>1, <3>7, <3>8 DEF FillsSignificand, Scaled, M
  <2>2. CASE ~(k >= 0)
    <3>1. -k \in Nat /\ -k + M \in Nat /\ -k + (M - 1) \in Nat
      BY <1>2, <1>6, <2>2
    <3>2. 2^j = 2^(-k) * 2^M * 2^(3 * M)
      <4>1. 2^(-k + M) = 2^(-k) * 2^M
        BY <1>2, <3>1, PowerOfSum
      <4>2. 2^((-k + M) + 3 * M) = 2^(-k + M) * 2^(3 * M)
        BY <1>2, <3>1, PowerOfSum
      <4>3. (-k + M) + 3 * M = j
        BY <1>2, <1>6
      <4>4. QED
        BY <4>1, <4>2, <4>3
    <3>3. 2^(j - 1) = 2^(-k) * 2^(M - 1) * 2^(3 * M)
      <4>1. 2^(-k + (M - 1)) = 2^(-k) * 2^(M - 1)
        BY <1>2, <3>1, PowerOfSum
      <4>2. 2^((-k + (M - 1)) + 3 * M) = 2^(-k + (M - 1)) * 2^(3 * M)
        BY <1>2, <3>1, PowerOfSum
      <4>3. (-k + (M - 1)) + 3 * M = j - 1
        BY <1>2, <1>6
      <4>4. QED
        BY <4>1, <4>2, <4>3
    <3>4. 2^(-k) \in Nat /\ 2^M \in Nat /\ 2^(M - 1) \in Nat /\ 2^(3 * M) \in Nat /\ 2^(3 * M) > 0
      BY <1>2, <1>3, <3>1
    <3> HIDE DEF k
    <3>5. num * 2^(3 * M) < ((den * 2^(-k)) * 2^M) * 2^(3 * M)
      <4>1. den * 2^j = ((den * 2^(-k)) * 2^M) * 2^(3 * M)
        BY <1>1, <3>2, <3>4, Regroup
      <4>2. QED
        BY <1>6, <4>1
    <3>6. ((den * 2^(-k)) * 2^(M - 1)) * 2^(3 * M) <= num * 2^(3 * M)
      <4>1. den * 2^(j - 1) = ((den * 2^(-k)) * 2^(M - 1)) * 2^(3 * M)
        BY <1>1, <3>3, <3>4, Regroup
      <4>2. QED
        BY <1>8, <4>1
    <3>7. num < (den * 2^(-k)) * 2^M
      BY <1>1, <3>4, <3>5, ScaleByLess
    <3>8. (den * 2^(-k)) * 2^(M - 1) <= num
      BY <1>1, <3>4, <3>6, ScaleByLess
    <3>9. QED
      BY <2>2, <3>7, <3>8 DEF FillsSignificand, Scaled, M
  <2>3. QED
    BY <2>1, <2>2
<1>11. QED
  BY <1>9, <1>10 DEF Scale

\* To the nearest whole number.
LEMMA SignificandIsNearest ==
  ASSUME NEW n \in Nat, NEW d \in Nat, d > 0
  PROVE  LET s == Significand(n, d)
         IN /\ s \in Nat
            /\ n < d \/ s > 0
            /\ 2 * (s * d - n) <= d
            /\ 2 * (n - s * d) <= d
<1> DEFINE q == n \div d
           r == n % d
<1>1. q \in Int /\ r \in Int /\ 0 <= r /\ r < d /\ n = d * q + r
  OBVIOUS
<1>2. Significand(n, d) \in {q, q + 1}
  BY DEF Significand
<1>3. Significand(n, d) = q + 1 => 2 * r >= d
  BY <1>1 DEF Significand, RoundsUp
<1>4. Significand(n, d) = q => 2 * r <= d
  BY <1>1 DEF Significand, RoundsUp
<1> HIDE DEF q, r
<1>5. q >= 0 /\ (n < d \/ q > 0)
  BY <1>1
<1>6. CASE Significand(n, d) = q + 1
  <2>1. (q + 1) * d - n = d - r
    BY <1>1
  <2>2. QED
    BY <1>1, <1>3, <1>5, <1>6, <2>1
<1>7. CASE Significand(n, d) = q
  <2>1. n - q * d = r
    BY <1>1
  <2>2. QED
    BY <1>1, <1>4, <1>5, <1>7, <2>1
<1>8. QED
  BY <1>2, <1>6, <1>7

\* x is num/den but for one part in 2^Mantissa.
IsCloseTo(x, num, den) ==
  /\ x[1] \in Nat /\ x[2] \in Nat /\ x[1] > 0 /\ x[2] > 0
  /\ (x[1] * den - num * x[2]) * 2^Mantissa <= num * x[2]
  /\ (num * x[2] - x[1] * den) * 2^Mantissa <= num * x[2]

\* An error that is at most half of d is at most one part in 2^Mantissa of n.
LEMMA HalfAnUlp ==
  ASSUME NEW n \in Nat, NEW d \in Nat, d * 2^(Mantissa - 1) <= n,
         NEW e \in Int, 2 * e <= d
  PROVE  e * 2^Mantissa <= n
<1>1. Mantissa - 1 \in Nat /\ 2^Mantissa = 2 * 2^(Mantissa - 1) /\ 2^(Mantissa - 1) \in Nat
  BY AmountsAssumption, PowerDoubles, PowerExceeds, (Mantissa - 1) + 1 = Mantissa
<1>2. (2 * e) * 2^(Mantissa - 1) <= d * 2^(Mantissa - 1)
  BY <1>1
<1>3. QED
  BY <1>1, <1>2

LEMMA Float64IsClose ==
  ASSUME NEW num, NEW den, InScale(num, den)
  PROVE  IsCloseTo(Float64(num, den), num, den)
<1> DEFINE k == Scale(num, den)
           n == Scaled(num, den, k)[1]
           d == Scaled(num, den, k)[2]
           s == Significand(n, d)
           x == Float64(num, den)
<1>1. num \in Nat /\ den \in Nat /\ num > 0 /\ den > 0
  BY DEF InScale
<1>2. k \in Int /\ FillsSignificand(Scaled(num, den, k))
  BY ScaleFits, AmountsAssumption DEF Scales
<1>3. x = IF k >= 0 THEN <<s, 2^k>> ELSE <<s * 2^(-k), 1>>
  <2>1. ~(num >= den * 2^IntBits)
    BY <1>1, PowerExceeds, AmountsAssumption DEF InScale
  <2>2. QED
    BY <2>1, Float64Unfolds
<1> HIDE DEF k, x
<1>4. (k >= 0 => 2^k \in Nat /\ 2^k > 0) /\ (~(k >= 0) => 2^(-k) \in Nat /\ 2^(-k) > 0)
  BY <1>2, PowerExceeds
<1>5. 2^Mantissa \in Nat /\ Mantissa - 1 \in Nat /\ 2^(Mantissa - 1) \in Nat /\ 2^(Mantissa - 1) > 0
  BY AmountsAssumption, PowerExceeds
<1>6. n \in Nat /\ d \in Nat /\ d > 0 /\ d * 2^(Mantissa - 1) <= n
  BY <1>1, <1>2, <1>4 DEF FillsSignificand, Scaled
<1>7. s \in Nat /\ s > 0 /\ 2 * (s * d - n) <= d /\ 2 * (n - s * d) <= d
  <2> HIDE DEF n, d
  <2>1. d <= n
    BY <1>5, <1>6
  <2>2. QED
    BY <1>6, <2>1, SignificandIsNearest
<1>8. (s * d - n) * 2^Mantissa <= n /\ (n - s * d) * 2^Mantissa <= n
  <2> HIDE DEF n, d, s
  <2>1. s * d - n \in Int /\ n - s * d \in Int
    BY <1>6, <1>7
  <2>2. QED
    BY <1>6, <1>7, <2>1, HalfAnUlp
<1>9. CASE k >= 0
  <2>1. n = num * 2^k /\ d = den
    BY <1>9 DEF Scaled
  <2> HIDE DEF n, d, s
  <2>2. x[1] = s /\ x[2] = 2^k
    BY <1>3, <1>9
  <2>3. QED
    BY <1>1, <1>4, <1>7, <1>8, <1>9, <2>1, <2>2 DEF IsCloseTo, x
<1>10. CASE ~(k >= 0)
  <2>1. n = num /\ d = den * 2^(-k)
    BY <1>10 DEF Scaled
  <2> HIDE DEF n, d, s
  <2>2. x[1] = s * 2^(-k) /\ x[2] = 1
    BY <1>3, <1>10
  <2>3. (s * 2^(-k)) * den = s * d /\ num * 1 = n
    BY <1>1, <1>4, <1>7, <1>10, <2>1
  <2>4. x[1] \in Nat /\ x[1] > 0
    BY <1>4, <1>7, <1>10, <2>2
  <2>5. x[1] * den = s * d /\ num * x[2] = n
    BY <2>2, <2>3
  <2>6. QED
    BY <1>8, <2>2, <2>4, <2>5 DEF IsCloseTo, x
<1>11. QED
  BY <1>9, <1>10

-----------------------------------------------------------------------------
(***************************************************************************)
(* Cents: the amount is rounded to binary, multiplied by a hundred,        *)
(* rounded to binary once more and then to a whole number.                 *)
(***************************************************************************)
P == 2^Mantissa

LEMMA PIsGreat == P \in Nat /\ P >= 64 /\ 2^(2 * Mantissa + 1) \in Nat /\ 2^(2 * Mantissa + 1) >= 8192
<1>1. 6 <= Mantissa /\ 13 <= 2 * Mantissa + 1 /\ Mantissa \in Nat /\ 2 * Mantissa + 1 \in Nat
  BY AmountsAssumption
<1>2. 2^6 = 64 /\ 2^13 = 8192
  OBVIOUS
<1>3. 2^6 <= 2^Mantissa /\ 2^13 <= 2^(2 * Mantissa + 1)
  BY <1>1, PowerGrows
<1>4. QED
  BY <1>1, <1>2, <1>3, PowerExceeds DEF P

\* How the errors a and b of two roundings, the first of which is multiplied by
\* w, add up to two parts in p of the product v, and one in p squared.
LEMMA ErrorsAddUp ==
  ASSUME NEW p \in Nat, NEW u \in Nat, NEW v \in Nat, NEW w \in Nat,
         NEW a \in Int, NEW b \in Int,
         a * p <= v, b * p <= u * w, u * p <= v * p + v
  PROVE  ((b + w * a) * p) * p <= (v * w) * (2 * p + 1)
<1>1. w * (a * p) <= w * v
  BY ScaleByLess
<1>2. (b + w * a) * p <= u * w + w * v
  <2>1. (b + w * a) * p = b * p + w * (a * p)
    OBVIOUS
  <2>2. QED
    BY <1>1, <2>1
<1>3. ((b + w * a) * p) * p <= (u * w + w * v) * p
  <2>1. ASSUME NEW x \in Int, NEW y \in Int, x <= y
        PROVE  x * p <= y * p
    BY <2>1
  <2>2. QED
    BY <1>2, <2>1
<1>4. (u * w + w * v) * p = (u * p) * w + (v * w) * p
  OBVIOUS
<1>5. (u * p) * w <= (v * p + v) * w
  <2>1. ASSUME NEW x \in Int, NEW y \in Int, x <= y
        PROVE  x * w <= y * w
    BY <2>1
  <2>2. QED
    BY <2>1
<1>6. (v * p + v) * w = (v * w) * p + v * w
  OBVIOUS
<1>7. (v * w) * (2 * p + 1) = 2 * ((v * w) * p) + v * w
  OBVIOUS
<1>8. (v * w) * p \in Int /\ v * w \in Int /\ (u * p) * w \in Int
      /\ ((b + w * a) * p) * p \in Int
  OBVIOUS
<1>9. QED
  BY <1>3, <1>4, <1>5, <1>6, <1>7, <1>8

\* math.Round returns a nearest whole number.
LEMMA RoundIsNearest ==
  ASSUME NEW x, x[1] \in Nat, x[2] \in Nat, x[2] > 0
  PROVE  /\ Round(x) \in Nat
         /\ 2 * (Round(x) * x[2] - x[1]) <= x[2]
         /\ 2 * (x[1] - Round(x) * x[2]) < x[2]
<1> DEFINE m == 2 * x[1] + x[2]
           d == 2 * x[2]
           r == m \div d
<1>1. m \in Nat /\ d \in Nat /\ d > 0
  OBVIOUS
<1> HIDE DEF m, d
<1>2. r \in Int /\ m % d \in Int /\ 0 <= m % d /\ m % d < d /\ m = d * r + (m % d)
  BY <1>1
<1> HIDE DEF r
<1>3. r >= 0
  BY <1>1, <1>2
<1>4. d * r = 2 * (r * x[2])
  BY <1>2 DEF d
<1>5. QED
  <2>1. Round(x) = r
    BY DEF Round, r, m, d
  <2>2. r * x[2] \in Int
    BY <1>2
  <2>3. QED
    BY <1>2, <1>3, <1>4, <2>1, <2>2 DEF m, d

RoundedCents(t) == Round(TimesHundred(Float64(t, 1000)))

\* Both roundings are of numbers within the range of exponents.
LEMMA FirstIsClose ==
  ASSUME NEW t \in Nat, t > 0, t < 10 * 2^(IntBits - 1)
  PROVE  IsCloseTo(Float64(t, 1000), t, 1000)
<1>1. 2^IntBits = 2 * 2^(IntBits - 1) /\ 2^(IntBits - 1) \in Nat
  BY AmountsAssumption, PowerDoubles, PowerExceeds, IntBits - 1 \in Nat, (IntBits - 1) + 1 = IntBits
<1>2. t < 1000 * 2^IntBits
  BY <1>1
<1>3. 1000 <= t * 2^(2 * Mantissa + 1)
  BY PIsGreat
<1>4. QED
  BY <1>2, <1>3, Float64IsClose DEF InScale

\* Up to a factor the first rounding changes nothing.
LEMMA FirstIsRough ==
  ASSUME NEW t \in Nat, t > 0, NEW x, IsCloseTo(x, t, 1000)
  PROVE  /\ x[1] \in Nat /\ x[2] \in Nat /\ x[1] > 0 /\ x[2] > 0
         /\ x[2] <= (100 * x[1]) * 2^(2 * Mantissa + 1)
         /\ 2000 * x[1] <= 3 * (t * x[2])
<1> DEFINE n == x[1]
           d == x[2]
           v == t * d
           e == 1000 * n - v
<1>1. n \in Nat /\ d \in Nat /\ n > 0 /\ d > 0 /\ e * P <= v /\ (-e) * P <= v
  BY DEF IsCloseTo, P
<1>2. P \in Nat /\ P >= 64
  BY PIsGreat
<1>3. v \in Nat /\ d <= v
  <2>1. d * 1 <= d * t
    BY <1>1
  <2>2. QED
    BY <1>1, <2>1
<1> HIDE DEF n, d, v
<1>4. 2 * e <= v /\ 2 * (-e) <= v
  <2>1. ASSUME NEW i \in Int, i * P <= v
        PROVE  2 * i <= v
    <3>1. CASE i <= 0
      BY <1>3, <3>1
    <3>2. CASE i > 0
      <4>1. i * 2 <= i * P
        BY <1>2, <3>2
      <4>2. QED
        BY <1>2, <1>3, <2>1, <4>1
    <3>3. QED
      BY <3>1, <3>2
  <2>2. QED
    BY <1>1, <1>3, <2>1
<1>5. d <= 2000 * n /\ 2000 * n <= 3 * v
  BY <1>1, <1>3, <1>4
<1>6. d <= (100 * n) * 2^(2 * Mantissa + 1)
  <2>1. (100 * n) * 20 <= (100 * n) * 2^(2 * Mantissa + 1)
    BY <1>1, PIsGreat
  <2>2. (100 * n) * 2^(2 * Mantissa + 1) \in Int
    BY <1>1, PIsGreat
  <2>3. QED
    BY <1>1, <1>5, <2>1, <2>2
<1>7. QED
  BY <1>1, <1>5, <1>6 DEF n, d, v

LEMMA SecondIsClose ==
  ASSUME NEW t \in Nat, t > 0, t < 10 * 2^(IntBits - 1),
         NEW x, IsCloseTo(x, t, 1000)
  PROVE  IsCloseTo(TimesHundred(x), 100 * x[1], x[2])
<1> DEFINE n == x[1]
           d == x[2]
           v == t * d
<1>1. n \in Nat /\ d \in Nat /\ n > 0 /\ d > 0 /\ d <= (100 * n) * 2^(2 * Mantissa + 1) /\ 2000 * n <= 3 * v
  BY FirstIsRough
<1>2. 2^IntBits = 2 * 2^(IntBits - 1) /\ 2^(IntBits - 1) \in Nat
  BY AmountsAssumption, PowerDoubles, PowerExceeds, IntBits - 1 \in Nat, (IntBits - 1) + 1 = IntBits
<1>3. v \in Nat /\ v < (10 * d) * 2^(IntBits - 1)
  <2>1. d * t < d * (10 * 2^(IntBits - 1))
    BY <1>1, <1>2
  <2>2. QED
    BY <1>1, <1>2, <2>1
<1> HIDE DEF n, d, v
<1>4. 100 * n < d * 2^IntBits
  <2>1. d * 2^IntBits = 2 * (d * 2^(IntBits - 1)) /\ (10 * d) * 2^(IntBits - 1) = 10 * (d * 2^(IntBits - 1))
    BY <1>1, <1>2
  <2>2. d * 2^(IntBits - 1) \in Int
    BY <1>1, <1>2
  <2>3. QED
    BY <1>1, <1>3, <2>1, <2>2
<1>5. InScale(100 * n, d)
  BY <1>1, <1>4 DEF InScale
<1>6. QED
  BY <1>5, Float64IsClose DEF TimesHundred, n, d

LEMMA ErrorsCompose ==
  ASSUME NEW t \in Int, NEW n \in Int, NEW d \in Int, NEW m \in Int, NEW c \in Int
  PROVE  /\ (10 * m - t * c) * d = 10 * (m * d - (100 * n) * c) + c * (1000 * n - t * d)
         /\ (-(10 * m - t * c)) * d = -(10 * (m * d - (100 * n) * c)) + c * (-(1000 * n - t * d))
OBVIOUS

\* In whole numbers: the result is off by half a cent and two parts in P of the
\* amount, and one in P squared.
LEMMA CentsError ==
  ASSUME NEW t \in Nat, t > 0,
         IsCloseTo(Float64(t, 1000), t, 1000),
         LET x == Float64(t, 1000) IN IsCloseTo(TimesHundred(x), 100 * x[1], x[2])
  PROVE  LET r == RoundedCents(t)
         IN /\ r \in Nat
            /\ ((10 * r - t) * P) * P <= (5 * P) * P + t * (2 * P + 1)
            /\ ((t - 10 * r) * P) * P <= (5 * P) * P + t * (2 * P + 1)
<1> DEFINE x == Float64(t, 1000)
           y == TimesHundred(x)
           r == RoundedCents(t)
           v == t * x[2]
           a == 1000 * x[1] - v
           b == 10 * (y[1] * x[2] - (100 * x[1]) * y[2])
           e == 10 * y[1] - t * y[2]
<1>1. /\ x[1] \in Nat /\ x[2] \in Nat /\ x[2] > 0
      /\ a * P <= v /\ (-a) * P <= v
  BY DEF IsCloseTo, P
<1>2. /\ y[1] \in Nat /\ y[2] \in Nat /\ y[2] > 0
      /\ (y[1] * x[2] - (100 * x[1]) * y[2]) * P <= (100 * x[1]) * y[2]
      /\ ((100 * x[1]) * y[2] - y[1] * x[2]) * P <= (100 * x[1]) * y[2]
  BY DEF IsCloseTo, P
<1>3. P \in Nat /\ P >= 64
  BY PIsGreat
<1>4. r \in Nat /\ 2 * (r * y[2] - y[1]) <= y[2] /\ 2 * (y[1] - r * y[2]) < y[2]
  <2> HIDE DEF y
  <2>1. QED
    BY <1>2, RoundIsNearest DEF RoundedCents, y
<1> HIDE DEF x, y, r
<1>5. /\ (b + y[2] * a) * P * P <= (v * y[2]) * (2 * P + 1)
      /\ (-b + y[2] * (-a)) * P * P <= (v * y[2]) * (2 * P + 1)
  <2>1. v \in Nat /\ a \in Int /\ -a \in Int /\ b \in Int /\ -b \in Int /\ 1000 * x[1] \in Nat
    BY <1>1, <1>2
  <2>2. (1000 * x[1]) * P <= v * P + v
    <3>1. (1000 * x[1]) * P = a * P + v * P
      BY <1>1, <1>3, <2>1
    <3>2. QED
      BY <1>1, <1>3, <2>1, <3>1
  <2>3. b * P <= (1000 * x[1]) * y[2] /\ (-b) * P <= (1000 * x[1]) * y[2]
    <3> DEFINE c == y[1] * x[2] - (100 * x[1]) * y[2]
               f == (100 * x[1]) * y[2]
    <3>1. c \in Int /\ f \in Int /\ b = 10 * c /\ (1000 * x[1]) * y[2] = 10 * f
          /\ c * P <= f /\ (-c) * P <= f
      BY <1>1, <1>2
    <3> HIDE DEF c, f, b
    <3>2. QED
      BY <1>3, <3>1
  <2> HIDE DEF v, a, b
  <2>4. ((b + y[2] * a) * P) * P <= (v * y[2]) * (2 * P + 1)
    BY <1>1, <1>2, <1>3, <2>1, <2>2, <2>3, ErrorsAddUp
  <2>5. ((-b + y[2] * (-a)) * P) * P <= (v * y[2]) * (2 * P + 1)
    BY <1>1, <1>2, <1>3, <2>1, <2>2, <2>3, ErrorsAddUp
  <2>6. QED
    BY <2>4, <2>5
<1>6. (e * P) * P <= (t * y[2]) * (2 * P + 1) /\ ((-e) * P) * P <= (t * y[2]) * (2 * P + 1)
  <2>1. e \in Int /\ e * x[2] = b + y[2] * a /\ (-e) * x[2] = -b + y[2] * (-a)
    <3>1. x[1] \in Int /\ x[2] \in Int /\ y[1] \in Int /\ y[2] \in Int
      BY <1>1, <1>2
    <3>2. e * x[2] = b + y[2] * a /\ (-e) * x[2] = -b + y[2] * (-a)
      BY <3>1, ErrorsCompose
    <3>3. e \in Int
      BY <3>1
    <3>4. QED
      BY <3>2, <3>3
  <2>2. ((b + y[2] * a) * P) * P = ((e * P) * P) * x[2]
    <3> HIDE DEF e, a, b
    <3>1. QED
      BY <1>1, <1>3, <2>1
  <2>3. ((-b + y[2] * (-a)) * P) * P = (((-e) * P) * P) * x[2]
    <3> HIDE DEF e, a, b
    <3>1. QED
      BY <1>1, <1>3, <2>1
  <2>4. (v * y[2]) * (2 * P + 1) = ((t * y[2]) * (2 * P + 1)) * x[2]
    BY <1>1, <1>2, <1>3
  <2>5. (e * P) * P \in Int /\ ((-e) * P) * P \in Int /\ (t * y[2]) * (2 * P + 1) \in Int
    BY <1>2, <1>3, <2>1
  <2> HIDE DEF e, a, b, v
  <2>6. QED
    BY <1>1, <1>5, <2>2, <2>3, <2>4, <2>5, ScaleByLess
<1> DEFINE bound == (5 * P) * P + t * (2 * P + 1)
<1>7. ASSUME NEW i \in Int, NEW j \in Int, NEW g \in Int,
             2 * j <= y[2], (g * P) * P <= (t * y[2]) * (2 * P + 1), i * y[2] = 10 * j + g
      PROVE  (i * P) * P <= bound
  <2>1. ((i * P) * P) * y[2] = ((10 * j) * P) * P + (g * P) * P
    <3>1. ((i * P) * P) * y[2] = ((i * y[2]) * P) * P
      BY <1>2, <1>3
    <3>2. ((10 * j + g) * P) * P = ((10 * j) * P) * P + (g * P) * P
      BY <1>3
    <3>3. QED
      BY <1>7, <3>1, <3>2
  <2>2. ((10 * j) * P) * P <= ((5 * y[2]) * P) * P
    <3>1. (10 * j) * P <= (5 * y[2]) * P
      BY <1>2, <1>3, <1>7, ScaleByLess
    <3>2. (10 * j) * P \in Int /\ (5 * y[2]) * P \in Int
      BY <1>2, <1>3
    <3>3. QED
      BY <1>3, <3>1, <3>2, ScaleByLess
  <2>3. bound * y[2] = ((5 * y[2]) * P) * P + (t * y[2]) * (2 * P + 1)
    BY <1>2, <1>3
  <2>4. (i * P) * P \in Int /\ bound \in Int /\ ((10 * j) * P) * P \in Int /\ ((5 * y[2]) * P) * P \in Int
        /\ (g * P) * P \in Int /\ (t * y[2]) * (2 * P + 1) \in Int
    BY <1>2, <1>3
  <2> HIDE DEF bound
  <2>5. ((i * P) * P) * y[2] <= bound * y[2]
    BY <1>7, <2>1, <2>2, <2>3, <2>4
  <2>6. QED
    BY <1>2, <2>4, <2>5, ScaleByLess
<1>8. r * y[2] - y[1] \in Int /\ e \in Int /\ (10 * r - t) * y[2] = 10 * (r * y[2] - y[1]) + e
  BY <1>2, <1>4
<1>9. (t - 10 * r) * y[2] = 10 * (y[1] - r * y[2]) + (-e)
  BY <1>2, <1>4
<1> HIDE DEF e, bound
<1>10. ((10 * r - t) * P) * P <= bound
  BY <1>4, <1>6, <1>7, <1>8
<1>11. ((t - 10 * r) * P) * P <= bound
  <2> DEFINE i == t - 10 * r
             j == y[1] - r * y[2]
             g == -e
  <2>1. i \in Int /\ j \in Int /\ g \in Int /\ 2 * j <= y[2]
    BY <1>2, <1>4, <1>8
  <2>2. (g * P) * P <= (t * y[2]) * (2 * P + 1) /\ i * y[2] = 10 * j + g
    BY <1>6, <1>9
  <2> HIDE DEF i, j, g
  <2>3. (i * P) * P <= bound
    BY <1>7, <2>1, <2>2
  <2>4. QED
    BY <2>3 DEF i
<1>12. QED
  BY <1>4, <1>10, <1>11 DEF r, bound

\* Less than six tenths of a cent is at most five.
LEMMA WithinHalfACent ==
  ASSUME NEW t \in Nat, 32 * t < 10 * P,
         NEW i \in Int, (i * P) * P <= (5 * P) * P + t * (2 * P + 1)
  PROVE  i <= 5
<1>1. P \in Nat /\ P >= 64
  BY PIsGreat
<1>2. (32 * t) * (2 * P + 1) <= (10 * P) * (2 * P + 1)
  BY <1>1, ScaleByLess
<1>3. (32 * t) * (2 * P + 1) = 32 * (t * (2 * P + 1)) /\ (10 * P) * (2 * P + 1) = 20 * (P * P) + 10 * P
  BY <1>1
<1>4. 64 * P <= P * P
  BY <1>1
<1>5. t * (2 * P + 1) < P * P
  BY <1>1, <1>2, <1>3, <1>4
<1>6. (i * P) * P = i * (P * P) /\ (5 * P) * P = 5 * (P * P) /\ P * P > 0
  BY <1>1
<1>7. i * (P * P) < 6 * (P * P)
  BY <1>1, <1>5, <1>6
<1>8. i < 6
  BY <1>1, <1>6, <1>7, ScaleByLess
<1>9. QED
  BY <1>8

\* Less than a whole cent is nothing.
LEMMA WithinACent ==
  ASSUME NEW c \in Nat, 4 * c <= P - 4,
         NEW i \in Int, ((10 * i) * P) * P <= (5 * P) * P + (10 * c) * (2 * P + 1)
  PROVE  i <= 0
<1>1. P \in Nat /\ P >= 64
  BY PIsGreat
<1>2. (4 * c) * (2 * P + 1) <= (P - 4) * (2 * P + 1)
  BY <1>1, ScaleByLess
<1>3. (4 * c) * (2 * P + 1) = 4 * (c * (2 * P + 1)) /\ (10 * c) * (2 * P + 1) = 10 * (c * (2 * P + 1))
      /\ (P - 4) * (2 * P + 1) = 2 * (P * P) - 7 * P - 4
  BY <1>1
<1>4. (10 * c) * (2 * P + 1) < 5 * (P * P)
  BY <1>1, <1>2, <1>3
<1>5. ((10 * i) * P) * P = (10 * i) * (P * P) /\ (5 * P) * P = 5 * (P * P) /\ P * P > 0
  BY <1>1
<1>6. (10 * i) * (P * P) < 10 * (P * P)
  BY <1>1, <1>4, <1>5
<1>7. 10 * i < 10
  BY <1>1, <1>5, <1>6, ScaleByLess
<1>8. QED
  BY <1>7

-----------------------------------------------------------------------------
(***************************************************************************)
(* The theorems.                                                           *)
(***************************************************************************)
\* float64(math.MaxInt64) is one more than math.MaxInt64: only what is strictly
\* below it fits an int64.
THEOREM LimitIsOneMore == Limit = MaxInt64 + 1
<1> DEFINE N == 2^(IntBits - 1)
           k == Scale(N - 1, 1)
           e == IntBits - 1 - Mantissa
<1>1. Mantissa \in Nat /\ Mantissa - 1 \in Nat /\ IntBits - 1 \in Nat /\ e \in Nat /\ e >= 1
  BY AmountsAssumption
<1>2. P \in Nat /\ P >= 64
  BY PIsGreat
<1>3. /\ N = 2^e * P /\ 2^e \in Nat /\ 2^e >= 2
      /\ P = 2 * 2^(Mantissa - 1) /\ 2^(Mantissa - 1) \in Nat /\ 2^(Mantissa - 1) > 0
  <2>1. 2^(Mantissa + e) = 2^Mantissa * 2^e /\ Mantissa + e = IntBits - 1
    BY <1>1, PowerOfSum
  <2>2. 2^e >= 2
    <3>1. 2^1 <= 2^e
      BY <1>1, PowerGrows
    <3>2. 2^1 = 2
      OBVIOUS
    <3>3. QED
      BY <3>1, <3>2
  <2>3. 2^((Mantissa - 1) + 1) = 2 * 2^(Mantissa - 1)
    BY <1>1, PowerDoubles
  <2>4. 2^e \in Nat /\ 2^(Mantissa - 1) \in Nat /\ 2^(Mantissa - 1) > 0
    BY <1>1, PowerExceeds
  <2>5. (Mantissa - 1) + 1 = Mantissa
    BY <1>1
  <2> HIDE DEF e
  <2>6. QED
    BY <1>2, <2>1, <2>2, <2>3, <2>4, <2>5 DEF P
<1>4. N \in Nat /\ 2 * P <= N
  BY <1>2, <1>3
<1>5. InScale(N - 1, 1)
  <2>1. 2^IntBits = 2 * N
    BY AmountsAssumption, <1>1, PowerDoubles, (IntBits - 1) + 1 = IntBits
  <2>2. 1 <= (N - 1) * 2^(2 * Mantissa + 1)
    BY <1>2, <1>4, PIsGreat
  <2> HIDE DEF N
  <2>3. N - 1 < 1 * 2^IntBits
    BY <1>4, <2>1
  <2>4. QED
    BY <1>2, <1>4, <2>2, <2>3 DEF InScale
<1>6. k \in Int /\ FillsSignificand(Scaled(N - 1, 1, k))
  BY <1>5, ScaleFits, AmountsAssumption DEF Scales
<1> HIDE DEF N, k
<1>7. k = -e
  <2>1. ~(k >= 0)
    <3> SUFFICES ASSUME k >= 0
                 PROVE  FALSE
      OBVIOUS
    <3>1. (N - 1) * 2^k < P
      BY <1>2, <1>6 DEF FillsSignificand, Scaled, P
    <3>2. 2^k \in Nat /\ 2^k > 0
      BY <1>6, PowerExceeds
    <3>3. N - 1 <= (N - 1) * 2^k
      BY <1>2, <1>4, <3>2
    <3>4. QED
      BY <1>2, <1>4, <3>1, <3>2, <3>3
  <2>2. -k \in Nat /\ 2^(-k) \in Nat /\ 2^(-k) * 2^(Mantissa - 1) <= N - 1 /\ N - 1 < 2^(-k) * P
    BY <1>6, <2>1, PowerExceeds DEF FillsSignificand, Scaled, P
  <2>3. 2^(-k + Mantissa) = 2^(-k) * P /\ 2^(-k + (Mantissa - 1)) = 2^(-k) * 2^(Mantissa - 1)
    BY <1>1, <2>2, PowerOfSum DEF P
  <2>4. ~(-k < e)
    <3> SUFFICES ASSUME -k < e
                 PROVE  FALSE
      OBVIOUS
    <3>1. -k + 1 \in Nat /\ 2^(-k + 1) = 2 * 2^(-k) /\ 2^(-k + 1) <= 2^e
      BY <1>1, <2>2, PowerDoubles, PowerGrows
    <3>2. (2 * 2^(-k)) * P <= 2^e * P
      BY <1>2, <1>3, <2>2, <3>1
    <3>3. (2 * 2^(-k)) * P = 2 * (2^(-k) * P) /\ 2^(-k) * P \in Int
      BY <1>2, <2>2
    <3>4. QED
      BY <1>2, <1>3, <1>4, <2>2, <3>2, <3>3
  <2>5. ~(-k > e)
    <3> SUFFICES ASSUME -k > e
                 PROVE  FALSE
      OBVIOUS
    <3>1. 2^(IntBits - 1) <= 2^(-k + (Mantissa - 1))
      <4>1. -k + (Mantissa - 1) \in Nat /\ IntBits - 1 <= -k + (Mantissa - 1)
        BY <1>1, <2>2
      <4>2. QED
        BY <1>1, <4>1, PowerGrows
    <3>2. N <= 2^(-k) * 2^(Mantissa - 1)
      BY <2>3, <3>1 DEF N
    <3>3. QED
      BY <1>3, <1>4, <2>2, <3>2
  <2>6. QED
    BY <1>1, <1>6, <2>4, <2>5
<1>8. Significand(N - 1, 2^e) = P
  <2> DEFINE d == 2^e
  <2>1. d \in Nat /\ d >= 2 /\ N - 1 = d * (P - 1) + (d - 1)
    BY <1>2, <1>3
  <2> HIDE DEF d
  <2>2. (N - 1) \div d = P - 1 /\ (N - 1) % d = d - 1
    BY <1>2, <1>4, <2>1
  <2>3. (P - 1) % 2 = 1
    BY <1>2, <1>3
  <2>4. RoundsUp(N - 1, d)
    <3>1. CASE d = 2
      BY <2>2, <2>3, <3>1 DEF RoundsUp
    <3>2. CASE d > 2
      BY <2>1, <2>2, <3>2 DEF RoundsUp
    <3>3. QED
      BY <2>1, <3>1, <3>2
  <2>5. Significand(N - 1, d) = P
    BY <1>2, <2>2, <2>4 DEF Significand
  <2>6. QED
    BY <2>5 DEF d
<1>9. Float64(N - 1, 1) = <<N, 1>>
  <2>1. Scaled(N - 1, 1, k) = <<N - 1, 2^e>>
    <3>1. ~(k >= 0) /\ -k = e
      BY <1>1, <1>7
    <3>2. Scaled(N - 1, 1, k) = <<N - 1, 1 * 2^e>>
      BY <3>1 DEF Scaled
    <3>3. QED
      BY <1>3, <3>2
  <2>2. Float64(N - 1, 1) = <<P * 2^e, 1>>
    <3>1. ~(k >= 0) /\ -k = e /\ ~(N - 1 >= 1 * 2^IntBits)
      BY <1>1, <1>4, <1>5, <1>7, PowerExceeds, AmountsAssumption DEF InScale
    <3>2. QED
      BY <1>8, <2>1, <3>1, Float64Unfolds DEF k
  <2>3. QED
    BY <1>2, <1>3, <2>2
<1>10. Round(<<N, 1>>) = N
  <2>1. Round(<<N, 1>>) = (2 * N + 1) \div 2
    BY DEF Round
  <2>2. QED
    BY <1>4, <2>1
<1>11. MaxInt64 = N - 1
  BY DEF MaxInt64, N
<1>12. QED
  BY <1>4, <1>9, <1>10, <1>11 DEF Limit

\* Whatever a client sends, a stored amount is a number of cents that an int64
\* holds.
THEOREM CentsFitInt64 == \A t \in Int : Cents(t) \in 0 .. MaxInt64
<1>1. MaxInt64 \in Nat
  BY PowerExceeds, AmountsAssumption, IntBits - 1 \in Nat DEF MaxInt64
<1>2. Limit - 1 = MaxInt64
  BY <1>1, LimitIsOneMore
<1>3. QED
  BY <1>1, <1>2 DEF Cents, InRange, Rejected

\* P below the integer limit, so that what follows is about amounts in range.
LEMMA PBelowLimit == 2 * P <= 2^(IntBits - 1) /\ Limit = 2^(IntBits - 1) /\ Limit \in Nat
<1>1. 2^(Mantissa + 1) = 2 * P
  BY AmountsAssumption, PowerDoubles DEF P
<1>2. 2^(Mantissa + 1) <= 2^(IntBits - 1) /\ 2^(IntBits - 1) \in Nat
  BY AmountsAssumption, PowerGrows, PowerExceeds, Mantissa + 1 \in Nat, IntBits - 1 \in Nat,
     Mantissa + 1 <= IntBits - 1
<1>3. QED
  BY <1>1, <1>2, LimitIsOneMore DEF MaxInt64

\* A whole number of cents below a quarter of P, 2^51 of them for a float64, is
\* stored as it was sent.
THEOREM WholeCentsAreKept == \A c \in 1 .. 2^(Mantissa - 2) - 1 : Cents(10 * c) = c
<1> SUFFICES ASSUME NEW c \in 1 .. 2^(Mantissa - 2) - 1
             PROVE  Cents(10 * c) = c
  OBVIOUS
<1>1. P \in Nat /\ P >= 64
  BY PIsGreat
<1>2. P = 4 * 2^(Mantissa - 2) /\ 2^(Mantissa - 2) \in Nat
  <2>1. Mantissa - 2 \in Nat /\ 2 + (Mantissa - 2) = Mantissa
    BY AmountsAssumption
  <2>2. 2^(2 + (Mantissa - 2)) = 2^2 * 2^(Mantissa - 2)
    BY <2>1, PowerOfSum
  <2>3. 2^2 = 4
    OBVIOUS
  <2>4. QED
    BY <2>1, <2>2, <2>3, PowerExceeds DEF P
<1>3. c \in Nat /\ c > 0 /\ 4 * c <= P - 4
  BY <1>2
<1> DEFINE t == 10 * c
           r == RoundedCents(t)
<1>4. t \in Nat /\ t > 0 /\ t < 10 * 2^(IntBits - 1)
  BY <1>1, <1>3, PBelowLimit
<1>5. /\ r \in Nat
      /\ ((10 * r - t) * P) * P <= (5 * P) * P + t * (2 * P + 1)
      /\ ((t - 10 * r) * P) * P <= (5 * P) * P + t * (2 * P + 1)
  <2> HIDE DEF t
  <2>1. QED
    BY <1>4, CentsError, FirstIsClose, SecondIsClose
<1> HIDE DEF r
<1>6. 10 * r - t = 10 * (r - c) /\ t - 10 * r = 10 * (c - r) /\ r - c \in Int /\ c - r \in Int
  BY <1>3, <1>5
<1>7. r - c <= 0 /\ c - r <= 0
  BY <1>3, <1>5, <1>6, WithinACent
<1>8. r = c
  BY <1>3, <1>5, <1>7
<1>9. InRange(r)
  BY <1>1, <1>3, <1>8, PBelowLimit DEF InRange
<1>10. QED
  BY <1>4, <1>8, <1>9 DEF Cents, r, RoundedCents

\* Below the 32nd part of P, 2^48 cents for a float64, cents returns a nearest
\* cent, which is none, or Rejected, for less than half a cent only.
THEOREM NearestCentIsStored ==
  \A t \in Nat \ {0} :
    t \div 10 < 2^(Mantissa - 5) => 10 * Cents(t) - t <= 5 /\ t - 10 * Cents(t) <= 5
<1> SUFFICES ASSUME NEW t \in Nat \ {0}, t \div 10 < 2^(Mantissa - 5)
             PROVE  10 * Cents(t) - t <= 5 /\ t - 10 * Cents(t) <= 5
  OBVIOUS
<1>1. P \in Nat /\ P >= 64
  BY PIsGreat
<1>2. P = 32 * 2^(Mantissa - 5) /\ 2^(Mantissa - 5) \in Nat
  <2>1. Mantissa - 5 \in Nat /\ 5 + (Mantissa - 5) = Mantissa
    BY AmountsAssumption
  <2>2. 2^(5 + (Mantissa - 5)) = 2^5 * 2^(Mantissa - 5)
    BY <2>1, PowerOfSum
  <2>3. 2^5 = 32
    OBVIOUS
  <2>4. QED
    BY <2>1, <2>2, <2>3, PowerExceeds DEF P
<1>3. 32 * t < 10 * P
  <2>1. t < 10 * (t \div 10) + 10 /\ t \div 10 \in Int
    OBVIOUS
  <2>2. QED
    BY <1>2, <2>1
<1> DEFINE r == RoundedCents(t)
<1>4. t < 10 * 2^(IntBits - 1)
  BY <1>1, <1>3, PBelowLimit
<1>5. /\ r \in Nat
      /\ ((10 * r - t) * P) * P <= (5 * P) * P + t * (2 * P + 1)
      /\ ((t - 10 * r) * P) * P <= (5 * P) * P + t * (2 * P + 1)
  BY <1>4, CentsError, FirstIsClose, SecondIsClose
<1> HIDE DEF r
<1>6. 10 * r - t <= 5 /\ t - 10 * r <= 5
  BY <1>3, <1>5, WithinHalfACent, 10 * r - t \in Int, t - 10 * r \in Int
<1>7. r = 0 \/ InRange(r)
  BY <1>1, <1>3, <1>5, <1>6, PBelowLimit DEF InRange
<1>8. Cents(t) = r
  BY <1>7 DEF Cents, Rejected, r, RoundedCents
<1>9. QED
  BY <1>6, <1>8

\* An accepted amount, however great, is stored within half a cent and three
\* parts in P of it: no amount is too great and stored as another all the same.
THEOREM AcceptedAmountsAreClose ==
  \A t \in Nat \ {0} :
    Cents(t) # Rejected =>
      /\ (10 * Cents(t) - t) * P <= 5 * P + 3 * t
      /\ (t - 10 * Cents(t)) * P <= 5 * P + 3 * t
<1> SUFFICES ASSUME NEW t \in Nat \ {0}, Cents(t) # Rejected
             PROVE  /\ (10 * Cents(t) - t) * P <= 5 * P + 3 * t
                    /\ (t - 10 * Cents(t)) * P <= 5 * P + 3 * t
  OBVIOUS
<1> DEFINE N == 2^IntBits
           x == Float64(t, 1000)
           y == TimesHundred(x)
           r == RoundedCents(t)
<1>1. P \in Nat /\ P >= 64
  BY PIsGreat
<1>2. InRange(r) /\ Cents(t) = r
  BY DEF Cents, RoundedCents
<1>3. N \in Nat /\ Limit <= N /\ Limit \in Nat
  <2>1. IntBits \in Nat /\ IntBits - 1 \in Nat /\ IntBits - 1 <= IntBits
    BY AmountsAssumption
  <2>2. QED
    BY <2>1, PowerExceeds, PowerGrows, PBelowLimit
<1>4. y # <<N, 1>>
  <2> SUFFICES ASSUME y = <<N, 1>>
               PROVE  FALSE
    OBVIOUS
  <2>1. r = (2 * N + 1) \div 2
    BY DEF RoundedCents, Round
  <2> HIDE DEF N, r
  <2>2. r = N
    BY <1>3, <2>1
  <2>3. QED
    BY <1>2, <1>3, <2>2 DEF InRange
<1>5. t < 1000 * N
  <2> SUFFICES ASSUME t >= 1000 * N
               PROVE  FALSE
    BY <1>3
  <2>1. x = <<N, 1>>
    BY Float64Unfolds
  <2>2. y = Float64(100 * N, 1)
    BY <2>1 DEF TimesHundred
  <2>3. 100 * N >= 1 * N
    BY <1>3
  <2>4. Float64(100 * N, 1) = <<N, 1>>
    BY <2>3, Float64Unfolds
  <2>5. QED
    BY <1>4, <2>2, <2>4
<1>6. IsCloseTo(x, t, 1000)
  <2>1. 1000 <= t * 2^(2 * Mantissa + 1)
    BY PIsGreat
  <2>2. QED
    BY <1>5, <2>1, Float64IsClose DEF InScale
<1> HIDE DEF x
<1>7. IsCloseTo(y, 100 * x[1], x[2])
  <2>1. /\ x[1] \in Nat /\ x[2] \in Nat /\ x[1] > 0 /\ x[2] > 0
        /\ x[2] <= (100 * x[1]) * 2^(2 * Mantissa + 1)
    BY <1>6, FirstIsRough
  <2>2. ~(100 * x[1] >= x[2] * N)
    <3>1. 100 * x[1] >= x[2] * N => Float64(100 * x[1], x[2]) = <<N, 1>>
      BY Float64Unfolds
    <3>2. QED
      BY <1>4, <3>1 DEF TimesHundred
  <2>3. InScale(100 * x[1], x[2])
    BY <1>3, <2>1, <2>2 DEF InScale
  <2>4. QED
    BY <2>3, Float64IsClose DEF TimesHundred
<1>8. /\ r \in Nat
      /\ ((10 * r - t) * P) * P <= (5 * P) * P + t * (2 * P + 1)
      /\ ((t - 10 * r) * P) * P <= (5 * P) * P + t * (2 * P + 1)
  BY <1>6, <1>7, CentsError DEF x
<1>9. (5 * P) * P + t * (2 * P + 1) <= (5 * P + 3 * t) * P
  <2>1. t * (2 * P + 1) <= t * (3 * P)
    BY <1>1, ScaleByLess
  <2>2. (5 * P + 3 * t) * P = (5 * P) * P + t * (3 * P)
    BY <1>1
  <2>3. QED
    BY <1>1, <2>1, <2>2
<1>10. ASSUME NEW i \in Int, (i * P) * P <= (5 * P) * P + t * (2 * P + 1)
       PROVE  i * P <= 5 * P + 3 * t
  <2>1. (i * P) * P <= (5 * P + 3 * t) * P
    <3>1. (i * P) * P \in Int /\ (5 * P) * P + t * (2 * P + 1) \in Int /\ (5 * P + 3 * t) * P \in Int
      BY <1>1
    <3>2. QED
      BY <1>9, <1>10, <3>1
  <2>2. QED
    BY <1>1, <2>1, ScaleByLess, i * P \in Int, 5 * P + 3 * t \in Int
<1> HIDE DEF r
<1>11. QED
  BY <1>2, <1>8, <1>10, 10 * r - t \in Int, t - 10 * r \in Int
=============================================================================
