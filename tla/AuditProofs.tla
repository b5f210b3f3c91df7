---------------------------- MODULE AuditProofs ----------------------------
(***************************************************************************)
(* The Payment Summary agrees with the Processors, and the rows with the   *)
(* requests, for any finite set of Payments and any amounts.  Totals are   *)
(* folds over sets: the first half of the module proves about them what    *)
(* addition is expected to do.                                             *)
(***************************************************************************)
EXTENDS Audit, AmountsProofs

-----------------------------------------------------------------------------
(***************************************************************************)
(* SumFunctionOnSet is a recursion over the subsets of its set: one        *)
(* element is chosen, and the rest is summed up.                           *)
(***************************************************************************)
Chosen(S) == CHOOSE x \in S : TRUE

\* What the recursion makes of the sums g of smaller sets.
Unfolded(f, g, S) == IF S = {} THEN 0 ELSE f[Chosen(S)] + g[S \ {Chosen(S)}]

IsSum(g, f, S) == g = [s \in SUBSET S |-> Unfolded(f, g, s)]

LEMMA ChosenIsIn ==
  ASSUME NEW S, S # {}
  PROVE  Chosen(S) \in S
BY DEF Chosen

LEMMA RestIsSmaller ==
  ASSUME NEW S, IsFiniteSet(S), NEW x \in S
  PROVE  /\ IsFiniteSet(S \ {x})
         /\ Cardinality(S) \in Nat
         /\ Cardinality(S \ {x}) \in Nat
         /\ Cardinality(S \ {x}) = Cardinality(S) - 1
BY FS_RemoveElement, FS_CardinalityType

LEMMA SumUnfolds ==
  ASSUME NEW f, NEW S
  PROVE  SumFunctionOnSet(f, S) = (CHOOSE g : IsSum(g, f, S))[S]
BY DEF SumFunctionOnSet, FoldFunctionOnSet, MapThenFoldSet, IsSum, Unfolded, Chosen

\* The recursion is well founded on a finite set, so that there are such sums.
LEMMA SumExists ==
  ASSUME NEW f, NEW S, IsFiniteSet(S)
  PROVE  \E g : IsSum(g, f, S)
<1> DEFINE UpTo(g, n) == /\ g = [s \in SUBSET S |-> g[s]]
                         /\ \A s \in SUBSET S : Cardinality(s) < n => g[s] = Unfolded(f, g, s)
           reached == {n \in Nat : \E g : UpTo(g, n)}
<1>1. \A s \in SUBSET S : IsFiniteSet(s) /\ Cardinality(s) \in Nat
  BY FS_Subset, FS_CardinalityType
<1>2. 0 \in reached
  <2>1. UpTo([s \in SUBSET S |-> 0], 0)
    BY <1>1
  <2>2. QED
    BY <2>1
<1>3. ASSUME NEW n \in Nat, n \in reached
      PROVE  n + 1 \in reached
  <2>1. PICK g : UpTo(g, n)
    BY <1>3
  <2> DEFINE h == [s \in SUBSET S |-> Unfolded(f, g, s)]
  <2>2. \A s \in SUBSET S : Cardinality(s) < n => h[s] = g[s]
    BY <2>1
  <2>3. ASSUME NEW s \in SUBSET S, Cardinality(s) < n + 1
        PROVE  h[s] = Unfolded(f, h, s)
    <3>1. CASE s = {}
      BY <3>1 DEF Unfolded
    <3>2. CASE s # {}
      <4>1. /\ Chosen(s) \in s /\ s \ {Chosen(s)} \in SUBSET S
            /\ Cardinality(s \ {Chosen(s)}) < n
        BY <1>1, <2>3, <3>2, ChosenIsIn, RestIsSmaller
      <4>2. h[s \ {Chosen(s)}] = g[s \ {Chosen(s)}]
        BY <2>2, <4>1
      <4>3. QED
        BY <3>2, <4>2 DEF Unfolded
    <3>3. QED
      BY <3>1, <3>2
  <2>4. h = [s \in SUBSET S |-> h[s]]
    OBVIOUS
  <2> HIDE DEF h
  <2>5. UpTo(h, n + 1)
    BY <2>3, <2>4
  <2> HIDE DEF UpTo
  <2>6. QED
    BY <2>5
<1>4. Cardinality(S) + 1 \in Nat
  BY FS_CardinalityType
<1> HIDE DEF reached
<1>5. Cardinality(S) + 1 \in reached
  BY <1>2, <1>3, <1>4, Induction
<1>6. PICK g : UpTo(g, Cardinality(S) + 1)
  BY <1>5 DEF reached
<1>7. \A s \in SUBSET S : Cardinality(s) < Cardinality(S) + 1
  BY <1>1, FS_Subset, FS_CardinalityType
<1>8. IsSum(g, f, S)
  BY <1>6, <1>7 DEF IsSum
<1>9. QED
  BY <1>8

\* They depend only on the values of the elements, not on the set around them.
LEMMA SumsAgree ==
  ASSUME NEW f, NEW g, NEW S, IsSum(g, f, S),
         NEW e, NEW h, NEW T, IsSum(h, e, T),
         NEW U, U \subseteq S, U \subseteq T, IsFiniteSet(U), \A x \in U : f[x] = e[x]
  PROVE  g[U] = h[U]
<1> DEFINE agreed == {n \in Nat : \A u \in SUBSET U : Cardinality(u) = n => g[u] = h[u]}
<1>1. \A u \in SUBSET U : IsFiniteSet(u) /\ Cardinality(u) \in Nat
  BY FS_Subset, FS_CardinalityType
<1>2. \A u \in SUBSET U : g[u] = Unfolded(f, g, u) /\ h[u] = Unfolded(e, h, u)
  BY DEF IsSum
<1>3. 0 \in agreed
  <2>1. \A u \in SUBSET U : Cardinality(u) = 0 => u = {}
    BY <1>1, FS_EmptySet
  <2>2. QED
    BY <1>2, <2>1 DEF Unfolded
<1>4. ASSUME NEW n \in Nat, n \in agreed
      PROVE  n + 1 \in agreed
  <2>1. ASSUME NEW u \in SUBSET U, Cardinality(u) = n + 1
        PROVE  g[u] = h[u]
    <3>1. u # {}
      BY <2>1, FS_EmptySet
    <3>2. /\ Chosen(u) \in u /\ u \ {Chosen(u)} \in SUBSET U
          /\ Cardinality(u \ {Chosen(u)}) = n
      BY <1>1, <2>1, <3>1, ChosenIsIn, RestIsSmaller
    <3>3. g[u \ {Chosen(u)}] = h[u \ {Chosen(u)}]
      BY <1>4, <3>2
    <3>4. f[Chosen(u)] = e[Chosen(u)]
      BY <3>2
    <3>5. QED
      BY <1>2, <3>1, <3>3, <3>4 DEF Unfolded
  <2>2. QED
    BY <2>1
<1> HIDE DEF agreed
<1>5. Cardinality(U) \in agreed
  BY <1>1, <1>3, <1>4, Induction
<1>6. QED
  BY <1>5 DEF agreed

LEMMA SumIsASum ==
  ASSUME NEW f, NEW S, IsFiniteSet(S)
  PROVE  \E g : IsSum(g, f, S) /\ SumFunctionOnSet(f, S) = g[S]
<1> DEFINE g == CHOOSE g : IsSum(g, f, S)
<1>1. IsSum(g, f, S)
  BY SumExists
<1>2. SumFunctionOnSet(f, S) = g[S]
  BY SumUnfolds
<1> HIDE DEF g
<1>3. QED
  BY <1>1, <1>2

\* Functions that agree on a set have the same sum over it.
LEMMA SameSum ==
  ASSUME NEW f, NEW e, NEW S, IsFiniteSet(S), \A x \in S : f[x] = e[x]
  PROVE  SumFunctionOnSet(f, S) = SumFunctionOnSet(e, S)
<1>1. PICK g : IsSum(g, f, S) /\ SumFunctionOnSet(f, S) = g[S]
  BY SumIsASum
<1>2. PICK h : IsSum(h, e, S) /\ SumFunctionOnSet(e, S) = h[S]
  BY SumIsASum
<1>3. g[S] = h[S]
  BY <1>1, <1>2, SumsAgree
<1>4. QED
  BY <1>1, <1>2, <1>3

LEMMA SumOfNothing ==
  ASSUME NEW f
  PROVE  SumFunctionOnSet(f, {}) = 0
<1>1. PICK g : IsSum(g, f, {}) /\ SumFunctionOnSet(f, {}) = g[{}]
  BY SumIsASum, FS_EmptySet
<1>2. QED
  BY <1>1 DEF IsSum, Unfolded

LEMMA SumOfChosen ==
  ASSUME NEW f, NEW S, IsFiniteSet(S), S # {}
  PROVE  SumFunctionOnSet(f, S) = f[Chosen(S)] + SumFunctionOnSet(f, S \ {Chosen(S)})
<1> DEFINE rest == S \ {Chosen(S)}
<1>1. IsFiniteSet(rest)
  BY ChosenIsIn, RestIsSmaller
<1>2. PICK g : IsSum(g, f, S) /\ SumFunctionOnSet(f, S) = g[S]
  BY SumIsASum
<1>3. PICK h : IsSum(h, f, rest) /\ SumFunctionOnSet(f, rest) = h[rest]
  BY <1>1, SumIsASum
<1>4. g[rest] = h[rest]
  BY <1>1, <1>2, <1>3, SumsAgree
<1>5. g[S] = f[Chosen(S)] + g[rest]
  BY <1>2 DEF IsSum, Unfolded
<1>6. QED
  BY <1>2, <1>3, <1>4, <1>5

LEMMA SumIsNatural ==
  ASSUME NEW f, NEW S, IsFiniteSet(S), \A x \in S : f[x] \in Nat
  PROVE  SumFunctionOnSet(f, S) \in Nat
<1> DEFINE typed == {n \in Nat : \A s \in SUBSET S : Cardinality(s) = n => SumFunctionOnSet(f, s) \in Nat}
<1>1. \A s \in SUBSET S : IsFiniteSet(s) /\ Cardinality(s) \in Nat
  BY FS_Subset, FS_CardinalityType
<1>2. 0 \in typed
  <2>1. \A s \in SUBSET S : Cardinality(s) = 0 => s = {}
    BY <1>1, FS_EmptySet
  <2>2. QED
    BY <2>1, SumOfNothing
<1>3. ASSUME NEW n \in Nat, n \in typed
      PROVE  n + 1 \in typed
  <2>1. ASSUME NEW s \in SUBSET S, Cardinality(s) = n + 1
        PROVE  SumFunctionOnSet(f, s) \in Nat
    <3>1. s # {}
      BY <2>1, FS_EmptySet
    <3>2. /\ Chosen(s) \in s /\ s \ {Chosen(s)} \in SUBSET S
          /\ Cardinality(s \ {Chosen(s)}) = n
      BY <1>1, <2>1, <3>1, ChosenIsIn, RestIsSmaller
    <3>3. SumFunctionOnSet(f, s \ {Chosen(s)}) \in Nat /\ f[Chosen(s)] \in Nat
      BY <1>3, <3>2
    <3>4. SumFunctionOnSet(f, s) = f[Chosen(s)] + SumFunctionOnSet(f, s \ {Chosen(s)})
      BY <1>1, <3>1, SumOfChosen
    <3>5. QED
      BY <3>3, <3>4
  <2>2. QED
    BY <2>1
<1> HIDE DEF typed
<1>4. Cardinality(S) \in typed
  BY <1>1, <1>2, <1>3, Induction
<1>5. QED
  BY <1>4 DEF typed

\* Whichever element the recursion chooses, any one may be taken out first.
LEMMA SumOfRest ==
  ASSUME NEW f, NEW S, IsFiniteSet(S), \A x \in S : f[x] \in Nat, NEW y \in S
  PROVE  SumFunctionOnSet(f, S) = f[y] + SumFunctionOnSet(f, S \ {y})
<1> DEFINE free == {n \in Nat : \A s \in SUBSET S : \A x \in s :
                     Cardinality(s) = n =>
                       SumFunctionOnSet(f, s) = f[x] + SumFunctionOnSet(f, s \ {x})}
<1>1. \A s \in SUBSET S : IsFiniteSet(s) /\ Cardinality(s) \in Nat
  BY FS_Subset, FS_CardinalityType
<1>2. 0 \in free
  <2>1. \A s \in SUBSET S : Cardinality(s) = 0 => s = {}
    BY <1>1, FS_EmptySet
  <2>2. QED
    BY <2>1
<1>3. ASSUME NEW n \in Nat, n \in free
      PROVE  n + 1 \in free
  <2>1. ASSUME NEW s \in SUBSET S, NEW x \in s, Cardinality(s) = n + 1
        PROVE  SumFunctionOnSet(f, s) = f[x] + SumFunctionOnSet(f, s \ {x})
    <3> DEFINE c == Chosen(s)
               rest == s \ {c}
    <3>1. c \in s /\ SumFunctionOnSet(f, s) = f[c] + SumFunctionOnSet(f, rest)
      BY <1>1, ChosenIsIn, SumOfChosen
    <3> HIDE DEF c
    <3>2. CASE c = x
      BY <3>1, <3>2
    <3>3. CASE c # x
      <4>1. /\ rest \in SUBSET S /\ Cardinality(rest) = n /\ x \in rest
            /\ s \ {x} \in SUBSET S /\ Cardinality(s \ {x}) = n /\ c \in s \ {x}
            /\ rest \ {x} = (s \ {x}) \ {c}
        BY <1>1, <2>1, <3>1, <3>3, RestIsSmaller
      <4>2. SumFunctionOnSet(f, rest) = f[x] + SumFunctionOnSet(f, rest \ {x})
        BY <1>3, <4>1
      <4>3. SumFunctionOnSet(f, s \ {x}) = f[c] + SumFunctionOnSet(f, rest \ {x})
        BY <1>3, <4>1
      <4>4. f[c] \in Nat /\ f[x] \in Nat /\ SumFunctionOnSet(f, rest \ {x}) \in Nat
        <5>1. IsFiniteSet(rest \ {x}) /\ \A z \in rest \ {x} : f[z] \in Nat
          BY <1>1, <4>1
        <5>2. QED
          BY <3>1, <5>1, SumIsNatural
      <4>5. QED
        BY <3>1, <4>2, <4>3, <4>4
    <3>4. QED
      BY <3>2, <3>3
  <2>2. QED
    BY <2>1
<1> HIDE DEF free
<1>4. Cardinality(S) \in free
  BY <1>1, <1>2, <1>3, Induction
<1>5. QED
  BY <1>4 DEF free

\* The sum over a disjoint union.
LEMMA SumOfUnion ==
  ASSUME NEW f, NEW A, NEW B, IsFiniteSet(A), IsFiniteSet(B), A \cap B = {},
         \A x \in A \cup B : f[x] \in Nat
  PROVE  SumFunctionOnSet(f, A \cup B) = SumFunctionOnSet(f, A) + SumFunctionOnSet(f, B)
<1> DEFINE adds == {n \in Nat : \A b \in SUBSET B :
                     Cardinality(b) = n =>
                       SumFunctionOnSet(f, A \cup b) = SumFunctionOnSet(f, A) + SumFunctionOnSet(f, b)}
<1>1. \A b \in SUBSET B : /\ IsFiniteSet(b) /\ Cardinality(b) \in Nat
                          /\ IsFiniteSet(A \cup b)
                          /\ SumFunctionOnSet(f, b) \in Nat
  BY FS_Subset, FS_CardinalityType, FS_Union, SumIsNatural
<1>2. SumFunctionOnSet(f, A) \in Nat
  BY SumIsNatural
<1>3. 0 \in adds
  <2>1. \A b \in SUBSET B : Cardinality(b) = 0 => b = {}
    BY <1>1, FS_EmptySet
  <2>2. A \cup {} = A
    OBVIOUS
  <2>3. QED
    BY <1>2, <2>1, <2>2, SumOfNothing
<1>4. ASSUME NEW n \in Nat, n \in adds
      PROVE  n + 1 \in adds
  <2>1. ASSUME NEW b \in SUBSET B, Cardinality(b) = n + 1
        PROVE  SumFunctionOnSet(f, A \cup b) = SumFunctionOnSet(f, A) + SumFunctionOnSet(f, b)
    <3>1. PICK x \in b : TRUE
      BY <2>1, FS_EmptySet
    <3> DEFINE rest == b \ {x}
    <3>2. rest \in SUBSET B /\ Cardinality(rest) = n
      <4>1. IsFiniteSet(b)
        BY <1>1
      <4>2. Cardinality(rest) = Cardinality(b) - 1
        BY <3>1, <4>1, RestIsSmaller
      <4>3. QED
        BY <2>1, <4>2
    <3>3. (A \cup b) \ {x} = A \cup rest
      BY <3>1
    <3>4. SumFunctionOnSet(f, A \cup b) = f[x] + SumFunctionOnSet(f, A \cup rest)
      <4>1. x \in A \cup b /\ \A z \in A \cup b : f[z] \in Nat
        OBVIOUS
      <4>2. IsFiniteSet(A \cup b)
        BY <1>1
      <4>3. SumFunctionOnSet(f, A \cup b) = f[x] + SumFunctionOnSet(f, (A \cup b) \ {x})
        BY <4>1, <4>2, SumOfRest
      <4>4. QED
        BY <3>3, <4>3
    <3>5. SumFunctionOnSet(f, b) = f[x] + SumFunctionOnSet(f, rest)
      <4>1. IsFiniteSet(b) /\ \A z \in b : f[z] \in Nat
        BY <1>1
      <4>2. QED
        BY <4>1, SumOfRest
    <3>6. SumFunctionOnSet(f, A \cup rest) = SumFunctionOnSet(f, A) + SumFunctionOnSet(f, rest)
      BY <1>4, <3>2
    <3>7. f[x] \in Nat /\ SumFunctionOnSet(f, rest) \in Nat
      BY <1>1, <3>1, <3>2
    <3>8. QED
      BY <1>2, <3>4, <3>5, <3>6, <3>7
  <2>2. QED
    BY <2>1
<1> HIDE DEF adds
<1>5. Cardinality(B) \in adds
  BY <1>1, <1>3, <1>4, Induction
<1>6. QED
  BY <1>5 DEF adds

-----------------------------------------------------------------------------
(***************************************************************************)
(* Decimal numbers.                                                        *)
(***************************************************************************)
\* The digits of a number of cents say that number.
LEMMA DigitsReadBack ==
  ASSUME NEW cents \in Nat
  PROVE  100 * (cents \div 100) + 10 * ((cents % 100) \div 10) + (cents % 10) = cents
<1>1. PICK q \in Nat, r \in 0 .. 99 : q = cents \div 100 /\ r = cents % 100
  OBVIOUS
<1>2. cents = 100 * q + r
  <2>1. cents = (cents \div 100) * 100 + (cents % 100)
    OBVIOUS
  <2>2. QED
    BY <1>1, <2>1
<1>3. r = (r \div 10) * 10 + (r % 10)
  OBVIOUS
<1>4. cents % 10 = r % 10
  BY <1>2
<1>5. r \div 10 \in Int /\ r % 10 \in Int
  OBVIOUS
<1>6. QED
  BY <1>1, <1>2, <1>3, <1>4, <1>5

LEMMA ProcessorReadsBack ==
  ASSUME NEW cents \in Nat
  PROVE  ReadNumber(ProcessorNumber(cents)) = cents
BY DigitsReadBack DEF ReadNumber, ProcessorNumber

LEMMA SummaryReadsBack ==
  ASSUME NEW cents \in Nat
  PROVE  ReadNumber(SummaryNumber(cents)) = cents
<1>1. (cents % 100) % 10 = cents % 10
  OBVIOUS
<1>2. QED
  BY <1>1, DigitsReadBack DEF ReadNumber, SummaryNumber

LEMMA CentsAreNatural ==
  ASSUME NEW thousandths
  PROVE  Cents(thousandths) \in Nat
BY DEF Cents, Rejected, InRange

-----------------------------------------------------------------------------
(***************************************************************************)
(* The inductive invariant: what a Processor was told is what the row      *)
(* says, from the one request it recorded until after the completion.      *)
(***************************************************************************)
ToldTheRow ==
  \A p \in Payments :
    chargedBy[p] # {} =>
      /\ p \in accepted
      /\ told[p] = [amount |-> ProcessorNumber(amount[p]), requestedAt |-> requestedAt[p]]

ChargedOnce == \A p \in Payments : \A s, t \in chargedBy[p] : s = t

CountedForTheCharge == \A p \in Payments : processedBy[p] # None => processedBy[p] \in chargedBy[p]

AuditInv ==
  /\ LifecycleTypeOK
  /\ amount \in [Payments -> Nat]
  /\ requestedAt = [p \in Payments |-> requestedAt[p]]
  /\ told = [p \in Payments |-> told[p]]
  /\ ToldTheRow /\ ChargedOnce /\ CountedForTheCharge

LEMMA InitHasAuditInv == AuditInit => AuditInv
BY DEF AuditInit, AuditInv, LifecycleInit, LifecycleTypeOK, ToldTheRow, ChargedOnce, CountedForTheCharge

LEMMA PostKeepsAuditInv ==
  ASSUME AuditInv, NEW p \in Payments, NEW t \in Offered[p], PostPayment(p, t)
  PROVE  AuditInv'
<1>1. Decoded[t] \in Nat
  BY CentsAreNatural DEF Decoded
<1>2. UNCHANGED told
  BY DEF PostPayment
<1>3. CASE UNCHANGED <<lifecycleVars, amount, requestedAt>>
  BY <1>2, <1>3 DEF AuditInv, LifecycleTypeOK, lifecycleVars, ToldTheRow, ChargedOnce, CountedForTheCharge
<1>4. CASE /\ AcceptOnce(p)
           /\ amount' = [amount EXCEPT ![p] = Decoded[t]]
           /\ requestedAt' = [requestedAt EXCEPT ![p] = now]
  <2>1. /\ p \notin accepted /\ accepted' = accepted \cup {p}
        /\ UNCHANGED <<chargedBy, processedBy>>
    BY <1>4 DEF AcceptOnce
  <2>2. LifecycleTypeOK' /\ ChargedOnce' /\ CountedForTheCharge'
    BY <2>1 DEF AuditInv, LifecycleTypeOK, ChargedOnce, CountedForTheCharge
  <2>3. /\ amount' \in [Payments -> Nat]
        /\ requestedAt' = [q \in Payments |-> requestedAt'[q]]
        /\ told' = [q \in Payments |-> told'[q]]
    BY <1>1, <1>2, <1>4 DEF AuditInv
  <2>4. ToldTheRow'
    <3>1. ASSUME NEW q \in Payments, chargedBy'[q] # {}
          PROVE  /\ q \in accepted'
                 /\ told'[q] = [amount |-> ProcessorNumber(amount'[q]), requestedAt |-> requestedAt'[q]]
      <4>1. q # p /\ q \in accepted
        BY <2>1, <3>1 DEF AuditInv, ToldTheRow
      <4>2. amount'[q] = amount[q] /\ requestedAt'[q] = requestedAt[q]
        BY <1>4, <4>1 DEF AuditInv
      <4>3. QED
        BY <1>2, <2>1, <3>1, <4>1, <4>2 DEF AuditInv, ToldTheRow
    <3>2. QED
      BY <3>1 DEF ToldTheRow
  <2>5. QED
    BY <2>2, <2>3, <2>4 DEF AuditInv
<1>5. QED
  BY <1>3, <1>4 DEF PostPayment, InsertPayment

LEMMA ProcessKeepsAuditInv ==
  ASSUME AuditInv, NEW p \in Payments, NEW s \in Services, Process(p, s)
  PROVE  AuditInv'
<1>1. /\ p \in accepted /\ chargedBy[p] = {}
      /\ chargedBy' = [chargedBy EXCEPT ![p] = {s}]
      /\ UNCHANGED <<accepted, processedBy, amount, requestedAt>>
      /\ told' = [told EXCEPT ![p] =
                   [amount |-> ProcessorNumber(amount[p]), requestedAt |-> requestedAt[p]]]
  BY DEF Process, ChargeOnce
<1>2. LifecycleTypeOK'
  BY <1>1 DEF AuditInv, LifecycleTypeOK
<1>3. /\ amount' \in [Payments -> Nat]
      /\ requestedAt' = [q \in Payments |-> requestedAt'[q]]
      /\ told' = [q \in Payments |-> told'[q]]
  BY <1>1 DEF AuditInv
<1>4. \A q \in Payments : chargedBy'[q] = IF q = p THEN {s} ELSE chargedBy[q]
  BY <1>1 DEF AuditInv, LifecycleTypeOK
<1>5. ChargedOnce' /\ CountedForTheCharge'
  BY <1>1, <1>4 DEF AuditInv, ChargedOnce, CountedForTheCharge
<1>6. ToldTheRow'
  <2>1. ASSUME NEW q \in Payments, chargedBy'[q] # {}
        PROVE  /\ q \in accepted'
               /\ told'[q] = [amount |-> ProcessorNumber(amount'[q]), requestedAt |-> requestedAt'[q]]
    <3>1. CASE q = p
      <4>1. told'[p] = [amount |-> ProcessorNumber(amount[p]), requestedAt |-> requestedAt[p]]
        BY <1>1 DEF AuditInv
      <4>2. QED
        BY <1>1, <3>1, <4>1
    <3>2. CASE q # p
      <4>1. told'[q] = told[q] /\ chargedBy[q] # {}
        BY <1>1, <1>4, <2>1, <3>2 DEF AuditInv
      <4>2. QED
        BY <1>1, <4>1 DEF AuditInv, ToldTheRow
    <3>3. QED
      BY <3>1, <3>2
  <2>2. QED
    BY <2>1 DEF ToldTheRow
<1>7. QED
  BY <1>2, <1>3, <1>5, <1>6 DEF AuditInv

LEMMA CompleteKeepsAuditInv ==
  ASSUME AuditInv, NEW p \in Payments, NEW s \in Services, Complete(p, s)
  PROVE  AuditInv'
<1>1. /\ s \in chargedBy[p]
      /\ processedBy' = [processedBy EXCEPT ![p] = s]
      /\ UNCHANGED <<accepted, chargedBy, amount, requestedAt, told>>
  BY DEF Complete, CountOnce
<1>2. LifecycleTypeOK' /\ CountedForTheCharge'
  BY <1>1 DEF AuditInv, LifecycleTypeOK, CountedForTheCharge
<1>3. ToldTheRow' /\ ChargedOnce'
  BY <1>1 DEF AuditInv, ToldTheRow, ChargedOnce
<1>4. QED
  BY <1>1, <1>2, <1>3 DEF AuditInv

LEMMA NextKeepsAuditInv ==
  ASSUME AuditInv, [AuditNext]_auditVars
  PROVE  AuditInv'
<1>1. CASE \E p \in Payments : \E t \in Offered[p] : PostPayment(p, t)
  BY <1>1, PostKeepsAuditInv
<1>2. CASE \E p \in Payments, s \in Services : Process(p, s) \/ Complete(p, s)
  BY <1>2, ProcessKeepsAuditInv, CompleteKeepsAuditInv
<1>3. CASE Tick \/ UNCHANGED auditVars
  BY <1>3 DEF Tick, auditVars, lifecycleVars, AuditInv, LifecycleTypeOK, ToldTheRow, ChargedOnce,
              CountedForTheCharge
<1>4. QED
  BY <1>1, <1>2, <1>3 DEF AuditNext

-----------------------------------------------------------------------------
(***************************************************************************)
(* Every row holds what cents made of the one request that was accepted.   *)
(***************************************************************************)
RowsAreAccepted ==
  \A p \in Payments :
    IF p \in accepted
    THEN /\ asked[p] \in Offered[p] /\ amount[p] = Cents(asked[p]) /\ amount[p] # Rejected
         /\ requestedAt[p] \in Times
    ELSE amount[p] = 0 /\ asked[p] = 0

NobodyElseWasTold == \A p \in Payments : chargedBy[p] = {} => told[p] = Nothing

RowInv ==
  /\ now \in Times
  /\ amount \in [Payments -> 0 .. MaxInt64]
  /\ requestedAt \in [Payments -> {0} \cup Times]
  /\ asked = [p \in Payments |-> asked[p]]
  /\ RowsAreAccepted /\ NobodyElseWasTold

LEMMA InitHasRowInv == AuditInit => RowInv
<1>1. MaxInt64 \in Nat
  BY PowerExceeds, AmountsAssumption, IntBits - 1 \in Nat DEF MaxInt64
<1>2. 1 \in Times
  BY AuditAssumption DEF Times
<1>3. QED
  BY <1>1, <1>2 DEF AuditInit, RowInv, LifecycleInit, RowsAreAccepted, NobodyElseWasTold

LEMMA PostKeepsRowInv ==
  ASSUME AuditInv, RowInv, NEW p \in Payments, NEW t \in Offered[p], PostPayment(p, t)
  PROVE  RowInv'
<1>1. Decoded[t] = Cents(t) /\ Cents(t) \in 0 .. MaxInt64 /\ Cents(t) # Rejected
  BY CentsFitInt64, AuditAssumption DEF Decoded, PostPayment
<1>2. UNCHANGED <<now, told>> /\ asked' = [asked EXCEPT ![p] = IF p \in accepted THEN @ ELSE t]
  BY DEF PostPayment
<1>3. CASE p \in accepted /\ UNCHANGED <<lifecycleVars, amount, requestedAt>>
  <2>1. \A q \in Payments : asked'[q] = asked[q]
    BY <1>2, <1>3 DEF RowInv
  <2>2. UNCHANGED <<now, amount, requestedAt, accepted, chargedBy, told>>
    BY <1>2, <1>3 DEF lifecycleVars
  <2>3. asked' = [q \in Payments |-> asked'[q]]
    BY <1>2 DEF RowInv
  <2>4. QED
    BY <2>1, <2>2, <2>3 DEF RowInv, RowsAreAccepted, NobodyElseWasTold
<1>4. CASE /\ AcceptOnce(p)
           /\ amount' = [amount EXCEPT ![p] = Decoded[t]]
           /\ requestedAt' = [requestedAt EXCEPT ![p] = now]
  <2>1. p \notin accepted /\ accepted' = accepted \cup {p} /\ UNCHANGED chargedBy
    BY <1>4 DEF AcceptOnce
  <2>2. /\ now' \in Times
        /\ amount' \in [Payments -> 0 .. MaxInt64]
        /\ requestedAt' \in [Payments -> {0} \cup Times]
        /\ asked' = [q \in Payments |-> asked'[q]]
    BY <1>1, <1>2, <1>4 DEF RowInv
  <2>3. /\ asked'[p] = t /\ amount'[p] = Cents(t) /\ requestedAt'[p] = now
        /\ \A q \in Payments : q # p =>
             asked'[q] = asked[q] /\ amount'[q] = amount[q] /\ requestedAt'[q] = requestedAt[q]
    BY <1>1, <1>2, <1>4, <2>1 DEF RowInv
  <2>4. RowsAreAccepted'
    BY <1>1, <2>1, <2>3 DEF RowInv, RowsAreAccepted
  <2>5. NobodyElseWasTold'
    BY <1>2, <2>1 DEF RowInv, NobodyElseWasTold
  <2>6. QED
    BY <2>2, <2>4, <2>5 DEF RowInv
<1>5. QED
  BY <1>3, <1>4 DEF PostPayment, InsertPayment

LEMMA ProcessorsKeepRowInv ==
  ASSUME AuditInv, RowInv, NEW p \in Payments, NEW s \in Services, Process(p, s) \/ Complete(p, s)
  PROVE  RowInv'
<1>1. UNCHANGED <<accepted, now, amount, requestedAt, asked>>
  BY DEF Process, Complete, ChargeOnce, CountOnce
<1>2. NobodyElseWasTold'
  <2>1. CASE Process(p, s)
    BY <2>1 DEF Process, ChargeOnce, AuditInv, LifecycleTypeOK, RowInv, NobodyElseWasTold
  <2>2. CASE Complete(p, s)
    BY <2>2 DEF Complete, CountOnce, RowInv, NobodyElseWasTold
  <2>3. QED
    BY <2>1, <2>2
<1>3. QED
  BY <1>1, <1>2 DEF RowInv, RowsAreAccepted

LEMMA NextKeepsRowInv ==
  ASSUME AuditInv, RowInv, [AuditNext]_auditVars
  PROVE  RowInv'
<1>1. CASE \E p \in Payments : \E t \in Offered[p] : PostPayment(p, t)
  BY <1>1, PostKeepsRowInv
<1>2. CASE \E p \in Payments, s \in Services : Process(p, s) \/ Complete(p, s)
  BY <1>2, ProcessorsKeepRowInv
<1>3. CASE Tick
  BY <1>3, AuditAssumption DEF Tick, lifecycleVars, Times, RowInv, RowsAreAccepted, NobodyElseWasTold
<1>4. CASE UNCHANGED auditVars
  BY <1>4 DEF auditVars, lifecycleVars, RowInv, RowsAreAccepted, NobodyElseWasTold
<1>5. QED
  BY <1>1, <1>2, <1>3, <1>4 DEF AuditNext

LEMMA InvImpliesTypes == AuditInv /\ RowInv => AuditTypeOK
<1> SUFFICES ASSUME AuditInv, RowInv
             PROVE  AuditTypeOK
  OBVIOUS
<1>1. ASSUME NEW p \in Payments
      PROVE  /\ p \in accepted <=> amount[p] > 0
             /\ told[p] # Nothing => told[p].requestedAt \in Times
             /\ asked[p] \in Offered[p] \cup {0}
  <2>1. amount[p] \in 0 .. MaxInt64
    BY DEF RowInv
  <2>2. p \in accepted <=> amount[p] > 0
    BY <2>1 DEF RowInv, RowsAreAccepted, Rejected
  <2>3. told[p] # Nothing => told[p].requestedAt \in Times
    BY DEF AuditInv, ToldTheRow, RowInv, RowsAreAccepted, NobodyElseWasTold
  <2>4. asked[p] \in Offered[p] \cup {0}
    BY DEF RowInv, RowsAreAccepted
  <2>5. QED
    BY <2>2, <2>3, <2>4
<1>2. QED
  BY <1>1 DEF AuditTypeOK, AuditInv, RowInv

LEMMA InvImpliesExact == AuditInv /\ RowInv => AmountsAreExact
<1> SUFFICES ASSUME AuditInv, RowInv, NEW p \in accepted
             PROVE  /\ asked[p] % 10 = 0 /\ asked[p] \div 10 < 2^(Mantissa - 2) =>
                         10 * amount[p] = asked[p]
                    /\ asked[p] \div 10 < 2^(Mantissa - 5) => /\ 10 * amount[p] - asked[p] <= 5
                                                              /\ asked[p] - 10 * amount[p] <= 5
                    /\ (10 * amount[p] - asked[p]) * 2^Mantissa <= 5 * 2^Mantissa + 3 * asked[p]
                    /\ (asked[p] - 10 * amount[p]) * 2^Mantissa <= 5 * 2^Mantissa + 3 * asked[p]
  BY DEF AmountsAreExact
<1> DEFINE t == asked[p]
<1>1. /\ p \in Payments /\ t \in Int /\ amount[p] = Cents(t) /\ Cents(t) # Rejected
  BY AuditAssumption DEF AuditInv, LifecycleTypeOK, RowInv, RowsAreAccepted
<1> HIDE DEF t
<1>2. t \in Nat \ {0}
  BY <1>1 DEF Cents
<1>3. ASSUME t % 10 = 0, t \div 10 < 2^(Mantissa - 2)
      PROVE  10 * Cents(t) = t
  <2> DEFINE c == t \div 10
  <2>1. t = 10 * c /\ c \in Nat /\ c >= 1
    BY <1>2, <1>3
  <2>2. 2^(Mantissa - 2) \in Nat
    BY AmountsAssumption, PowerExceeds, Mantissa - 2 \in Nat
  <2>3. c \in 1 .. 2^(Mantissa - 2) - 1
    BY <1>3, <2>1, <2>2
  <2>4. Cents(10 * c) = c
    BY <2>3, WholeCentsAreKept
  <2> HIDE DEF c
  <2>5. QED
    BY <2>1, <2>4
<1>4. t \div 10 < 2^(Mantissa - 5) => 10 * Cents(t) - t <= 5 /\ t - 10 * Cents(t) <= 5
  BY <1>2, NearestCentIsStored
<1>5. /\ (10 * Cents(t) - t) * 2^Mantissa <= 5 * 2^Mantissa + 3 * t
      /\ (t - 10 * Cents(t)) * 2^Mantissa <= 5 * 2^Mantissa + 3 * t
  BY <1>1, <1>2, AcceptedAmountsAreClose DEF P
<1>6. QED
  BY <1>1, <1>3, <1>4, <1>5 DEF t

-----------------------------------------------------------------------------
(***************************************************************************)
(* The summary.                                                            *)
(***************************************************************************)
\* What a Processor has recorded for a window is counted or on its way, and
\* never both.
LEMMA RecordsSplit ==
  ASSUME AuditInv, NEW s \in Services, NEW from, NEW to
  PROVE  /\ CountedFor(s, from, to) \cup Uncounted(s, from, to) = Recorded(s, from, to)
         /\ CountedFor(s, from, to) \cap Uncounted(s, from, to) = {}
<1>1. s # None
  BY DomainAssumption
<1>2. ASSUME NEW p \in Payments, s \in chargedBy[p]
      PROVE  told[p].requestedAt = requestedAt[p]
  BY <1>2 DEF AuditInv, ToldTheRow
<1>3. \A p \in Payments : processedBy[p] = s => s \in chargedBy[p]
  BY <1>1 DEF AuditInv, CountedForTheCharge
<1>4. \A p \in Payments : s \in chargedBy[p] => processedBy[p] \in {s, None}
  BY DEF AuditInv, CountedForTheCharge, ChargedOnce
<1>5. CountedFor(s, from, to) =
        {p \in Payments : /\ s \in chargedBy[p] /\ processedBy[p] = s
                          /\ InWindow(told[p].requestedAt, from, to)}
  BY <1>2, <1>3 DEF CountedFor
<1>6. QED
  BY <1>1, <1>4, <1>5 DEF Recorded, Uncounted

\* A Processor was told the amount of the row.
LEMMA AmountTold ==
  ASSUME AuditInv, NEW s \in Services, NEW from, NEW to, NEW p \in Recorded(s, from, to)
  PROVE  ReadNumber(told[p].amount) = amount[p] /\ amount[p] \in Nat
<1>1. p \in Payments /\ told[p].amount = ProcessorNumber(amount[p])
  BY DEF Recorded, AuditInv, ToldTheRow
<1>2. amount[p] \in Nat
  BY <1>1 DEF AuditInv
<1>3. QED
  BY <1>1, <1>2, ProcessorReadsBack

\* The rows and sums of one Processor's answer, whether or not they fit.
LEMMA AnswerAgrees ==
  ASSUME AuditInv, NEW from, NEW to, NEW s \in Services
  PROVE  LET reply == ResponseFrom(PaymentSummary(from, to))[s]
         IN /\ reply.totalRequests + Cardinality(Uncounted(s, from, to)) =
                 Cardinality(Recorded(s, from, to))
            /\ ReadNumber(reply.totalAmount) + ToldCents(Uncounted(s, from, to)) =
                 ToldCents(Recorded(s, from, to))
            /\ ToldCents(Recorded(s, from, to) \ Uncounted(s, from, to)) =
                 TotalCents(CountedFor(s, from, to))
<1> DEFINE reply == ResponseFrom(PaymentSummary(from, to))[s]
           rows == CountedFor(s, from, to)
           recorded == Recorded(s, from, to)
           uncounted == Uncounted(s, from, to)
           toldCents == [p \in Payments |-> ReadNumber(told[p].amount)]
<1>1. rows \cup uncounted = recorded /\ rows \cap uncounted = {}
  BY RecordsSplit
<1>2. IsFiniteSet(rows) /\ IsFiniteSet(uncounted)
  <2>1. rows \in SUBSET Payments /\ uncounted \in SUBSET Payments
    BY DEF CountedFor, Uncounted, Recorded
  <2>2. QED
    BY <2>1, FS_Subset, AuditAssumption
<1>3. \A p \in recorded : toldCents[p] = amount[p] /\ amount[p] \in Nat
  <2>1. \A p \in recorded : p \in Payments
    BY DEF Recorded
  <2>2. QED
    BY <2>1, AmountTold
<1>4. reply = [totalRequests |-> Cardinality(rows), totalAmount |-> SummaryNumber(TotalCents(rows))]
  BY DEF ResponseFrom, PaymentSummary
<1> HIDE DEF rows, recorded, uncounted, toldCents, reply
<1>5. Cardinality(rows) + Cardinality(uncounted) = Cardinality(recorded)
  <2>1. Cardinality(rows \cup uncounted) =
          Cardinality(rows) + Cardinality(uncounted) - Cardinality(rows \cap uncounted)
    BY <1>2, FS_Union
  <2>2. Cardinality({}) = 0 /\ Cardinality(rows) \in Nat /\ Cardinality(uncounted) \in Nat
    BY <1>2, FS_EmptySet, FS_CardinalityType
  <2>3. Cardinality(recorded) = Cardinality(rows) + Cardinality(uncounted) - Cardinality({})
    BY <1>1, <2>1, Zenon
  <2>4. QED
    BY <2>2, <2>3
<1>6. SumFunctionOnSet(toldCents, rows) = SumFunctionOnSet(amount, rows)
  <2>1. \A p \in rows : toldCents[p] = amount[p]
    BY <1>1, <1>3
  <2>2. QED
    BY <1>2, <2>1, SameSum
<1>7. SumFunctionOnSet(toldCents, recorded) =
        SumFunctionOnSet(toldCents, rows) + SumFunctionOnSet(toldCents, uncounted)
  <2>1. \A p \in rows \cup uncounted : toldCents[p] \in Nat
    BY <1>1, <1>3
  <2>2. QED
    BY <1>1, <1>2, <2>1, SumOfUnion
<1>8. ReadNumber(reply.totalAmount) = SumFunctionOnSet(amount, rows)
  <2>1. SumFunctionOnSet(amount, rows) \in Nat
    <3>1. \A p \in rows : amount[p] \in Nat
      BY <1>1, <1>3
    <3>2. QED
      BY <1>2, <3>1, SumIsNatural
  <2>2. QED
    BY <1>4, <2>1, SummaryReadsBack DEF TotalCents
<1>9. ToldCents(recorded) = SumFunctionOnSet(toldCents, recorded)
      /\ ToldCents(uncounted) = SumFunctionOnSet(toldCents, uncounted)
  BY DEF ToldCents, toldCents
<1>10. reply.totalRequests = Cardinality(rows)
  BY <1>4
<1>11. /\ reply.totalRequests + Cardinality(uncounted) = Cardinality(recorded)
       /\ ReadNumber(reply.totalAmount) + ToldCents(uncounted) = ToldCents(recorded)
  BY <1>5, <1>6, <1>7, <1>8, <1>9, <1>10
<1>12. ToldCents(recorded \ uncounted) = TotalCents(rows)
  <2>1. recorded \ uncounted = rows
    BY <1>1
  <2>2. QED
    BY <1>6, <2>1 DEF ToldCents, TotalCents, toldCents
<1>13. QED
  BY <1>11, <1>12 DEF recorded, uncounted, reply, rows

LEMMA InvImpliesSummary == AuditInv => SummaryMatchesProcessors
<1> SUFFICES ASSUME AuditInv, NEW from \in Bounds, NEW to \in Bounds
             PROVE  SummaryMatchesProcessors!(from, to)
  BY DEF SummaryMatchesProcessors
<1>1. SummaryFails(from, to) <=>
        \E s \in Services : ToldCents(Recorded(s, from, to) \ Uncounted(s, from, to)) > MaxInt64
  BY AnswerAgrees DEF SummaryFails
<1>2. QED
  BY <1>1, AnswerAgrees

-----------------------------------------------------------------------------
(***************************************************************************)
(* The theorems.                                                           *)
(***************************************************************************)
\* A Processor is told once, by one request, what the row says, and the row
\* keeps saying it.
THEOREM AuditInvariant == AuditSpec => []AuditInv
<1>1. AuditInit => AuditInv
  BY InitHasAuditInv
<1>2. AuditInv /\ [AuditNext]_auditVars => AuditInv'
  BY NextKeepsAuditInv
<1>3. QED
  BY <1>1, <1>2, PTL DEF AuditSpec

\* For every window and every Processor, the numbers and the sums that GET
\* /payments-summary answers, and the Payments whose completion is on its way,
\* make up what the Processor has recorded; it answers with an error exactly when
\* a sum would not fit.
THEOREM SummaryAgrees == AuditSpec => []SummaryMatchesProcessors
<1>1. AuditInv => SummaryMatchesProcessors
  BY InvImpliesSummary
<1>2. QED
  BY <1>1, AuditInvariant, PTL

\* A row holds, in cents, the amount of the one request that was accepted, and
\* nobody is told of a Payment but by its charge.
THEOREM RowInvariant == AuditSpec => []RowInv
<1>1. AuditInit => RowInv
  BY InitHasRowInv
<1>2. AuditInv /\ RowInv /\ [AuditNext]_auditVars => RowInv'
  BY NextKeepsRowInv
<1>3. QED
  BY <1>1, <1>2, AuditInvariant, PTL DEF AuditSpec

\* A row exists exactly for an accepted Payment, its amount is positive and fits
\* an int64, and amounts, times and requests have their types.
THEOREM AuditTypeCorrect == AuditSpec => []AuditTypeOK
<1>1. AuditInv /\ RowInv => AuditTypeOK
  BY InvImpliesTypes
<1>2. QED
  BY <1>1, AuditInvariant, RowInvariant, PTL

\* Whichever requests a Payment was submitted with, its row holds the nearest
\* cent to the amount of the accepted one, and exactly that amount if it was a
\* whole number of cents, although it was rounded to binary twice; amounts too
\* great for that are close.
THEOREM ExactAmounts == AuditSpec => []AmountsAreExact
<1>1. AuditInv /\ RowInv => AmountsAreExact
  BY InvImpliesExact
<1>2. QED
  BY <1>1, AuditInvariant, RowInvariant, PTL
=============================================================================
