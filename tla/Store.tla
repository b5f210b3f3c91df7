-------------------------------- MODULE Store --------------------------------
(***************************************************************************)
(* The PostgreSQL tables payments and payment_outbox (init.sql) and the    *)
(* statements internal/database/postgres.go runs on them.  Every statement *)
(* is one transaction that locks the single row it writes, so each is one  *)
(* atomic step; a caller that does not learn the outcome is modelled by    *)
(* the calling component.                                                  *)
(*                                                                         *)
(* A claim's expiry timestamp is abstracted to one bit, "claim_expires_at  *)
(* <= now()", which time may set at any moment after the claim: no         *)
(* relation between a claim's length and its holder's pace is assumed.     *)
(***************************************************************************)
EXTENDS Domain

CONSTANTS
  Workers,      \* claim owners of payments: one per run of processing's runWorker
  Dispatchers,  \* claim owners of outbox rows: one per run of outbox's runWorker
  Mortal        \* the owners that may stop for good: their instance crashes or shuts down

ASSUME OwnersAssumption ==
  /\ None \notin Workers \cup Dispatchers
  /\ Mortal \subseteq Workers \cup Dispatchers

VARIABLES
  processingState,         \* payments.processing_state, "absent" when there is no row
  processorAssignment,     \* payments.processor_assignment
  processingClaimedBy,     \* payments.processing_claimed_by
  processingClaimExpired,  \* payments.processing_claim_expires_at <= now()
  processedByService,      \* payments.processed_by_service
  outboxState,             \* payment_outbox.state, "absent" when there is no row
  outboxClaimedBy,         \* payment_outbox.claimed_by
  outboxClaimExpired       \* payment_outbox.claim_expires_at <= now()

paymentVars == <<processingState, processorAssignment, processingClaimedBy,
                 processingClaimExpired, processedByService>>
outboxVars  == <<outboxState, outboxClaimedBy, outboxClaimExpired>>
storeVars   == <<paymentVars, outboxVars>>

PaymentColumnsTypeOK ==
  /\ processingState \in [Payments -> {"absent", "pending", "processing", "completed"}]
  /\ processorAssignment \in [Payments -> Services \cup {None}]
  /\ processingClaimedBy \in [Payments -> Workers \cup {None}]
  /\ processingClaimExpired \in [Payments -> BOOLEAN]
  /\ processedByService \in [Payments -> Services \cup {None}]

OutboxColumnsTypeOK ==
  /\ outboxState \in [Payments -> {"absent", "pending", "dispatching", "dispatched"}]
  /\ outboxClaimedBy \in [Payments -> Dispatchers \cup {None}]
  /\ outboxClaimExpired \in [Payments -> BOOLEAN]

StoreTypeOK == PaymentColumnsTypeOK /\ OutboxColumnsTypeOK

StoreInit ==
  /\ processingState        = [p \in Payments |-> "absent"]
  /\ processorAssignment    = [p \in Payments |-> None]
  /\ processingClaimedBy    = [p \in Payments |-> None]
  /\ processingClaimExpired = [p \in Payments |-> FALSE]
  /\ processedByService     = [p \in Payments |-> None]
  /\ outboxState            = [p \in Payments |-> "absent"]
  /\ outboxClaimedBy        = [p \in Payments |-> None]
  /\ outboxClaimExpired     = [p \in Payments |-> FALSE]

Accepted(p)  == processingState[p] # "absent"
Completed(p) == processingState[p] = "completed"

(***************************************************************************)
(* Writing the state and claim columns of one row.                         *)
(***************************************************************************)
SetOutbox(p, state, owner) ==
  /\ outboxState'        = [outboxState EXCEPT ![p] = state]
  /\ outboxClaimedBy'    = [outboxClaimedBy EXCEPT ![p] = owner]
  /\ outboxClaimExpired' = [outboxClaimExpired EXCEPT ![p] = FALSE]

SetProcessing(p, state, owner) ==
  /\ processingState'        = [processingState EXCEPT ![p] = state]
  /\ processingClaimedBy'    = [processingClaimedBy EXCEPT ![p] = owner]
  /\ processingClaimExpired' = [processingClaimExpired EXCEPT ![p] = FALSE]

(***************************************************************************)
(* Store.Accept: both rows or, on a Correlation ID conflict, neither.      *)
(***************************************************************************)
InsertPayment(p) ==
  \/ /\ ~Accepted(p)
     /\ processingState' = [processingState EXCEPT ![p] = "pending"]
     /\ outboxState'     = [outboxState EXCEPT ![p] = "pending"]
     /\ UNCHANGED <<processorAssignment, processingClaimedBy, processingClaimExpired,
                    processedByService, outboxClaimedBy, outboxClaimExpired>>
  \/ /\ Accepted(p)
     /\ UNCHANGED storeVars

(***************************************************************************)
(* The outbox statements.                                                  *)
(***************************************************************************)
\* Mutant: a claim is never taken over.
OutboxClaimableOnce(p) == outboxState[p] = "pending"

OutboxClaimable(p) ==
  \/ outboxState[p] = "pending"
  \/ outboxState[p] = "dispatching" /\ outboxClaimExpired[p]

OwnsOutbox(p, d) == outboxState[p] = "dispatching" /\ outboxClaimedBy[p] = d

ClaimOutboxRow(p, d) ==
  /\ OutboxClaimable(p)
  /\ SetOutbox(p, "dispatching", d)

\* Mutants: released by identifier alone; put into the wrong state.
ReleaseOutboxRowById(p, d) == SetOutbox(p, "pending", None)
ReleaseOutboxRowAsDispatched(p, d) ==
  \/ OwnsOutbox(p, d) /\ SetOutbox(p, "dispatched", None)
  \/ ~OwnsOutbox(p, d) /\ UNCHANGED outboxVars

ReleaseOutboxRow(p, d) ==
  \/ OwnsOutbox(p, d) /\ SetOutbox(p, "pending", None)
  \/ ~OwnsOutbox(p, d) /\ UNCHANGED outboxVars

\* Mutant: no check of the claim's owner.
MarkOutboxRowByAnyone(p, d) ==
  \/ outboxState[p] = "dispatching" /\ SetOutbox(p, "dispatched", None)
  \/ outboxState[p] # "dispatching" /\ UNCHANGED outboxVars

MarkOutboxRowDispatched(p, d) ==
  \/ OwnsOutbox(p, d) /\ SetOutbox(p, "dispatched", None)
  \/ ~OwnsOutbox(p, d) /\ UNCHANGED outboxVars

OutboxClaimExpires(p) ==
  /\ outboxState[p] = "dispatching"
  /\ ~outboxClaimExpired[p]
  /\ outboxClaimExpired' = [outboxClaimExpired EXCEPT ![p] = TRUE]
  /\ UNCHANGED <<paymentVars, outboxState, outboxClaimedBy>>

(***************************************************************************)
(* The payments statements.                                                *)
(***************************************************************************)
\* Mutant: a lease is never taken over.
PaymentClaimableOnce(p) == processingState[p] = "pending"

PaymentClaimable(p) ==
  \/ processingState[p] = "pending"
  \/ processingState[p] = "processing" /\ processingClaimExpired[p]

\* Mutant: the arguments of COALESCE swapped.
AssignmentLatest(p, selected) == IF selected # None THEN selected ELSE processorAssignment[p]

\* COALESCE(payment.processor_assignment, $4)
AssignmentOr(p, selected) ==
  IF processorAssignment[p] # None THEN processorAssignment[p] ELSE selected

ClaimStatus(p, selected) ==
  CASE PaymentClaimable(p) /\ AssignmentOr(p, selected) # None -> "claimed"
    [] Completed(p) -> "completed"
    [] Accepted(p) /\ ~Completed(p) /\ AssignmentOr(p, selected) = None -> "unassigned"
    [] OTHER -> "notClaimable"

ClaimPaymentRow(p, w, selected) ==
  \/ /\ ClaimStatus(p, selected) = "claimed"
     /\ SetProcessing(p, "processing", w)
     /\ processorAssignment' = [processorAssignment EXCEPT ![p] = AssignmentOr(p, selected)]
     /\ UNCHANGED processedByService
  \/ /\ ClaimStatus(p, selected) # "claimed"
     /\ UNCHANGED paymentVars

OwnsPayment(p, w) == processingState[p] = "processing" /\ processingClaimedBy[p] = w

\* Mutants: no check of the claim's owner; the assignment is given up.
ReleasePaymentRowByAnyone(p, w) ==
  \/ /\ processingState[p] = "processing"
     /\ SetProcessing(p, "pending", None)
     /\ UNCHANGED <<processorAssignment, processedByService>>
  \/ /\ processingState[p] # "processing"
     /\ UNCHANGED paymentVars
ReleasePaymentRowUnassigned(p, w) ==
  \/ /\ OwnsPayment(p, w)
     /\ SetProcessing(p, "pending", None)
     /\ processorAssignment' = [processorAssignment EXCEPT ![p] = None]
     /\ UNCHANGED processedByService
  \/ /\ ~OwnsPayment(p, w)
     /\ UNCHANGED paymentVars

ReleasePaymentRow(p, w) ==
  \/ /\ OwnsPayment(p, w)
     /\ SetProcessing(p, "pending", None)
     /\ UNCHANGED <<processorAssignment, processedByService>>
  \/ /\ ~OwnsPayment(p, w)
     /\ UNCHANGED paymentVars

\* The WHERE clause of CompletePayment; its result is whether the row matched.
MayComplete(p, w, service) == OwnsPayment(p, w) /\ processorAssignment[p] = service

CompletePaymentRow(p, w, service) ==
  \/ /\ MayComplete(p, w, service)
     /\ SetProcessing(p, "completed", None)
     /\ processedByService' = [processedByService EXCEPT ![p] = service]
     /\ UNCHANGED processorAssignment
  \/ /\ ~MayComplete(p, w, service)
     /\ UNCHANGED paymentVars

PaymentClaimExpires(p) ==
  /\ processingState[p] = "processing"
  /\ ~processingClaimExpired[p]
  /\ processingClaimExpired' = [processingClaimExpired EXCEPT ![p] = TRUE]
  /\ UNCHANGED <<processingState, processorAssignment, processingClaimedBy,
                 processedByService, outboxVars>>
=============================================================================
