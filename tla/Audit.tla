-------------------------------- MODULE Audit --------------------------------
(***************************************************************************)
(* The Payment Summary against what the Processors know: amounts and       *)
(* acceptance times on their way from POST /payments through the row to a  *)
(* Processor, and the totals of GET /payments-summary over the rows.       *)
(*                                                                         *)
(* The course of a Payment itself is taken from PaymentLifecycle, which    *)
(* PaymentSystem implements.                                               *)
(***************************************************************************)
EXTENDS PaymentLifecycle, Amounts, FiniteSetsExt

CONSTANTS
  Offered,   \* of each Payment, the amounts clients may submit it with, in thousandths
  MaxTime    \* bound on the database clock

ASSUME AuditAssumption ==
  /\ IsFiniteSet(Payments)
  /\ \A p \in Payments : Offered[p] \subseteq Int
  /\ MaxTime \in Nat \ {0}

Times == 1 .. MaxTime

VARIABLES
  now,           \* now() of the database
  amount,        \* payments.amount, 0 while there is no row
  requestedAt,   \* payments.requested_at, 0 while there is no row
  told,          \* what each Processor that has recorded a Payment was told about it
  asked          \* history: the amount in the request that was accepted

auditVars == <<lifecycleVars, now, amount, requestedAt, told, asked>>

Nothing == [amount |-> ProcessorNumber(0), requestedAt |-> 0]

AuditTypeOK ==
  /\ LifecycleTypeOK
  /\ now \in Times
  /\ amount \in [Payments -> 0 .. MaxInt64]
  /\ requestedAt \in [Payments -> {0} \cup Times]
  /\ \A p \in Payments :
       /\ p \in accepted <=> amount[p] > 0
       /\ told[p] # Nothing => told[p].requestedAt \in Times
       /\ asked[p] \in Offered[p] \cup {0}

AuditInit ==
  /\ LifecycleInit
  /\ now = 1
  /\ amount = [p \in Payments |-> 0]
  /\ requestedAt = [p \in Payments |-> 0]
  /\ told = [p \in Payments |-> Nothing]
  /\ asked = [p \in Payments |-> 0]

\* Mutant: ON CONFLICT DO UPDATE SET amount.
InsertOrUpdate(p, cents) ==
  \/ /\ AcceptOnce(p)
     /\ amount' = [amount EXCEPT ![p] = cents]
     /\ requestedAt' = [requestedAt EXCEPT ![p] = now]
  \/ /\ p \in accepted
     /\ amount' = [amount EXCEPT ![p] = cents]
     /\ UNCHANGED <<lifecycleVars, requestedAt>>

\* Store.Accept: the row keeps the amount and the time of the first request.
InsertPayment(p, cents) ==
  \/ /\ AcceptOnce(p)
     /\ amount' = [amount EXCEPT ![p] = cents]
     /\ requestedAt' = [requestedAt EXCEPT ![p] = now]
  \/ /\ p \in accepted
     /\ UNCHANGED <<lifecycleVars, amount, requestedAt>>

\* decodePayment of every amount that is offered.
Decoded == [t \in UNION {Offered[p] : p \in Payments} |-> Cents(t)]

\* POST /payments; an amount that cents rejects is answered 400 and changes
\* nothing.
PostPayment(p, thousandths) ==
  /\ Decoded[thousandths] # Rejected
  /\ InsertPayment(p, Decoded[thousandths])
  /\ asked' = [asked EXCEPT ![p] = IF p \in accepted THEN @ ELSE thousandths]
  /\ UNCHANGED <<now, told>>

\* Client.Process sends the stored amount and acceptance time, whichever
\* attempt it is, and the Processor records them with the Payment.
Process(p, s) ==
  /\ ChargeOnce(p, s)
  /\ told' = [told EXCEPT ![p] =
       [amount |-> ProcessorNumber(amount[p]), requestedAt |-> requestedAt[p]]]
  /\ UNCHANGED <<now, amount, requestedAt, asked>>

Complete(p, s) ==
  /\ CountOnce(p, s)
  /\ UNCHANGED <<now, amount, requestedAt, told, asked>>

Tick ==
  /\ now < MaxTime
  /\ now' = now + 1
  /\ UNCHANGED <<lifecycleVars, amount, requestedAt, told, asked>>

AuditNext ==
  \/ \E p \in Payments : \E t \in Offered[p] : PostPayment(p, t)
  \/ \E p \in Payments, s \in Services : Process(p, s) \/ Complete(p, s)
  \/ Tick

AuditSpec == AuditInit /\ [][AuditNext]_auditVars

-----------------------------------------------------------------------------
(***************************************************************************)
(* GET /payments-summary.                                                  *)
(***************************************************************************)
Bounds == Times \cup {None}   \* a query parameter, or its absence

\* Both bounds are inclusive, and a missing one switches the other off.
InWindow(at, from, to) == from # None /\ to # None => from <= at /\ at <= to

CountedFor(s, from, to) ==
  {p \in Payments : processedBy[p] = s /\ InWindow(requestedAt[p], from, to)}

TotalCents(rows) == SumFunctionOnSet(amount, rows)

\* The NUMERIC sum is scanned into an int64: the request fails as a whole.
SummaryFails(from, to) ==
  \E s \in Services : TotalCents(CountedFor(s, from, to)) > MaxInt64

PaymentSummary(from, to) ==
  [s \in Services |->
     LET rows == CountedFor(s, from, to)
     IN [requests |-> Cardinality(rows), cents |-> TotalCents(rows)]]

ResponseFrom(result) ==
  [s \in Services |->
     [totalRequests |-> result[s].requests, totalAmount |-> SummaryNumber(result[s].cents)]]

-----------------------------------------------------------------------------
\* What Processor s itself has recorded for a window.
Recorded(s, from, to) ==
  {p \in Payments : s \in chargedBy[p] /\ InWindow(told[p].requestedAt, from, to)}

\* Those of them whose completion is still on its way.
Uncounted(s, from, to) == {p \in Recorded(s, from, to) : processedBy[p] = None}

\* What the Processors were told of the given Payments, in cents.
ToldCents(payments) == SumFunctionOnSet([p \in Payments |-> ReadNumber(told[p].amount)], payments)

\* For every window, the summary that a client reads and the Payments whose
\* completion is still on its way make up exactly what the Processor itself has
\* recorded for that window: same number, same money, no Payment in another
\* window, none counted in part, however often a Payment was submitted again with
\* another amount.  The request fails exactly when the completed part of one
\* Processor's own money is more than an int64 holds: no total wraps around, and
\* one Processor's overflow withholds the other's total too.
SummaryMatchesProcessors ==
  \A from, to \in Bounds :
    IF \E s \in Services : ToldCents(Recorded(s, from, to) \ Uncounted(s, from, to)) > MaxInt64
    THEN SummaryFails(from, to)
    ELSE /\ ~SummaryFails(from, to)
         /\ \A s \in Services :
              LET reply == ResponseFrom(PaymentSummary(from, to))[s]
              IN /\ reply.totalRequests + Cardinality(Uncounted(s, from, to)) =
                      Cardinality(Recorded(s, from, to))
                 /\ ReadNumber(reply.totalAmount) + ToldCents(Uncounted(s, from, to)) =
                      ToldCents(Recorded(s, from, to))

\* "cents rounds the JSON amount to its nearest cent" (handler.go) although it
\* goes through binary floating point twice: a whole number of cents is stored
\* exactly as long as it is below 2^51 (two bits less than the significand),
\* fractions of a cent are rounded to a nearest cent below 2^48, and no amount is
\* so great that it is accepted as one that differs by more than half a cent and
\* three parts in 2^53.
AmountsAreExact ==
  \A p \in accepted :
    /\ asked[p] % 10 = 0 /\ asked[p] \div 10 < 2^(Mantissa - 2) => 10 * amount[p] = asked[p]
    /\ asked[p] \div 10 < 2^(Mantissa - 5) => /\ 10 * amount[p] - asked[p] <= 5
                                              /\ asked[p] - 10 * amount[p] <= 5
    /\ (10 * amount[p] - asked[p]) * 2^Mantissa <= 5 * 2^Mantissa + 3 * asked[p]
    /\ (asked[p] - 10 * amount[p]) * 2^Mantissa <= 5 * 2^Mantissa + 3 * asked[p]
=============================================================================
