---------------------------- MODULE MCLeaseTiming ----------------------------
(***************************************************************************)
(* A TLC instance of LeaseTiming.                                          *)
(***************************************************************************)
EXTENDS LeaseTiming, TLC

CONSTANTS w1, w2, w3

Configured(claimExpiry, processorTimeout, ackWait) ==
  [claimExpiry |-> claimExpiry, processorTimeout |-> processorTimeout, ackWait |-> ackWait]

\* The defaults; a lease just long enough with redeliveries inside an attempt;
\* an AckWait just long enough with leases that run out; both too short; an
\* AckWait that outlasts everything; and one that FromEnv rejects.
SomeConfigurations == {
  Configured(20, 10, 15),
  Configured(6, 2, 1),
  Configured(2, 2, 6),
  Configured(3, 5, 2),
  Configured(2, 2, 12),
  Configured(0, 2, 1)}

Symmetry == Permutations(Workers)
=============================================================================
