-------------------------- MODULE PaymentLifecycle --------------------------
(***************************************************************************)
(* What the program promises about each Payment, without outbox, stream,   *)
(* leases or workers: an accepted Payment is charged by at most one        *)
(* Processor, and it is counted as processed, once and for ever, only      *)
(* after and only for the Processor that charged it.                       *)
(***************************************************************************)
EXTENDS Domain

VARIABLES
  accepted,     \* Payments the program has taken on
  chargedBy,    \* of each Payment, the Processors that have recorded it
  processedBy   \* the Processor it is counted for, or None

lifecycleVars == <<accepted, chargedBy, processedBy>>

LifecycleTypeOK ==
  /\ accepted \in SUBSET Payments
  /\ chargedBy \in [Payments -> SUBSET Services]
  /\ processedBy \in [Payments -> Services \cup {None}]

LifecycleInit ==
  /\ accepted = {}
  /\ chargedBy = [p \in Payments |-> {}]
  /\ processedBy = [p \in Payments |-> None]

AcceptOnce(p) ==
  /\ p \notin accepted
  /\ accepted' = accepted \cup {p}
  /\ UNCHANGED <<chargedBy, processedBy>>

ChargeOnce(p, s) ==
  /\ p \in accepted
  /\ chargedBy[p] = {}
  /\ chargedBy' = [chargedBy EXCEPT ![p] = {s}]
  /\ UNCHANGED <<accepted, processedBy>>

CountOnce(p, s) ==
  /\ processedBy[p] = None
  /\ s \in chargedBy[p]
  /\ processedBy' = [processedBy EXCEPT ![p] = s]
  /\ UNCHANGED <<accepted, chargedBy>>

LifecycleNext ==
  \E p \in Payments :
    \/ AcceptOnce(p)
    \/ \E s \in Services : ChargeOnce(p, s) \/ CountOnce(p, s)

LifecycleSpec == LifecycleInit /\ [][LifecycleNext]_lifecycleVars
=============================================================================
