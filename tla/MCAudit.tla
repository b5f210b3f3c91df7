------------------------------- MODULE MCAudit -------------------------------
(***************************************************************************)
(* A TLC instance of Audit: one Payment takes many amounts around which    *)
(* something may happen, another a few to make totals with.                *)
(***************************************************************************)
EXTENDS Audit

CONSTANTS p1, p2

\* Fractions of small cents, whole numbers of cents, the range limit, and amounts
\* beyond the range, of the cents and of the JSON number.
ManyAmounts ==
  (-2 .. 90) \cup {10 * n : n \in 10 .. 70} \cup (5098 .. 5122) \cup {11000, 1024000}

AFewAmounts == {150, 2550}

OfferedAmounts == [p \in Payments |-> IF p = p1 THEN ManyAmounts ELSE AFewAmounts]
=============================================================================
