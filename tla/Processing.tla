----------------------------- MODULE Processing -----------------------------
(***************************************************************************)
(* internal/processing/workers.go: processing workers take a work          *)
(* reference from the stream, claim its Payment under a lease, submit it   *)
(* to its assigned Processor, record the confirmation and only then        *)
(* acknowledge the reference.  internal/processor/default.go decides what  *)
(* a Processor's answer means.                                             *)
(*                                                                         *)
(* A worker is one run of runWorker with its own nuid.  Each blocking call *)
(* is one step.                                                            *)
(***************************************************************************)
EXTENDS Store, WorkStream

VARIABLES
  workerPc,       \* the call each worker makes next
  workerMessage,  \* its delivery
  workerService,  \* what Select returned; after a claim, the assigned Processor
  submitted,      \* Payments some request for which was sent to each Processor
  recorded        \* Payments each Processor has recorded

workerVars    == <<workerPc, workerMessage, workerService>>
processorVars == <<submitted, recorded>>

WorkerPcs == {"receive", "select", "claim", "submit", "await", "passive",
              "release", "complete", "ack", "nak", "stopped"}

WorkerTypeOK ==
  /\ workerPc \in [Workers -> WorkerPcs]
  /\ workerMessage \in [Workers -> Messages \cup {None}]
  /\ workerService \in [Workers -> Services \cup {None}]
  /\ submitted \in [Services -> SUBSET Payments]
  /\ recorded \in [Services -> SUBSET Payments]
  /\ \A w \in Workers :
       workerPc[w] \notin {"receive", "stopped"} => workerMessage[w] \in Messages

WorkerInit ==
  /\ workerPc = [w \in Workers |-> "receive"]
  /\ workerMessage = [w \in Workers |-> None]
  /\ workerService = [w \in Workers |-> None]
  /\ submitted = [s \in Services |-> {}]
  /\ recorded = [s \in Services |-> {}]

WorkerPayment(w) == Reference(workerMessage[w])

Working(w, from, to) ==
  /\ workerPc[w] = from
  /\ workerPc' = [workerPc EXCEPT ![w] = to]

Holding == UNCHANGED <<workerMessage, workerService>>

\* The loop's continue: delivery and selection are forgotten.
Drop(w) ==
  /\ workerMessage' = [workerMessage EXCEPT ![w] = None]
  /\ workerService' = [workerService EXCEPT ![w] = None]

-----------------------------------------------------------------------------
Receive(w, m) ==
  /\ Working(w, "receive", "select")
  /\ DeliverMessage(m)
  /\ workerMessage' = [workerMessage EXCEPT ![w] = m]
  /\ UNCHANGED <<storeVars, workerService, processorVars>>

\* The stream hands m out to a fetch that has already given up.
DeliveryLost(m) ==
  /\ DeliverMessage(m)
  /\ UNCHANGED <<storeVars, workerVars, processorVars>>

\* Select reads the local availability cache, which knows s or nothing to be
\* selectable; the claim that uses the answer is a later step.
Select(w, s) ==
  /\ Working(w, "select", "claim")
  /\ workerService' = [workerService EXCEPT ![w] = s]
  /\ UNCHANGED <<storeVars, streamVars, workerMessage, processorVars>>

\* Mutants: whatever was not claimed is acknowledged; nothing that was not is.
AfterClaimAck(status)   == IF status = "claimed" THEN "submit" ELSE "ack"
AfterClaimRetry(status) == IF status = "claimed" THEN "submit" ELSE "nak"

AfterClaim(status) ==
  CASE status = "claimed"   -> "submit"
    [] status = "completed" -> "ack"
    [] OTHER                -> "nak"

\* Mutant: the worker goes on with its own selection.
ClaimPaymentAsSelected(w) ==
  LET p == WorkerPayment(w)
      selected == workerService[w]
  IN  /\ Working(w, "claim", AfterClaim(ClaimStatus(p, selected)))
      /\ ClaimPaymentRow(p, w, selected)
      /\ UNCHANGED <<outboxVars, streamVars, workerMessage, workerService, processorVars>>

ClaimPayment(w) ==
  LET p == WorkerPayment(w)
      selected == workerService[w]
  IN  /\ Working(w, "claim", AfterClaim(ClaimStatus(p, selected)))
      /\ ClaimPaymentRow(p, w, selected)
      /\ workerService' = [workerService EXCEPT ![w] = AssignmentOr(p, selected)]
      /\ UNCHANGED <<outboxVars, streamVars, workerMessage, processorVars>>

\* The claim errs at the worker, before or after the database committed it.
ClaimPaymentFails(w) ==
  /\ Working(w, "claim", "nak")
  /\ Holding
  /\ \/ ClaimPaymentRow(WorkerPayment(w), w, workerService[w])
     \/ UNCHANGED paymentVars
  /\ UNCHANGED <<outboxVars, streamVars, processorVars>>

\* Client.Process sends its request, which may reach the Processor at any
\* later time, even after the worker has given up on it, or never.
Submit(w) ==
  /\ Working(w, "submit", "await")
  /\ Holding
  /\ submitted' = [submitted EXCEPT ![workerService[w]] = @ \cup {WorkerPayment(w)}]
  /\ UNCHANGED <<storeVars, streamVars, recorded>>

\* A Processor records a Payment once: a repeated request is answered with 422.
ProcessorRecords(s, p) ==
  /\ p \in submitted[s] \ recorded[s]
  /\ recorded' = [recorded EXCEPT ![s] = @ \cup {p}]
  /\ UNCHANGED <<storeVars, streamVars, workerVars, submitted>>

\* Mutant: any status below 500 confirms.
ConfirmedByAnyStatus(w) ==
  /\ Working(w, "await", "complete")
  /\ Holding
  /\ UNCHANGED <<storeVars, streamVars, processorVars>>

\* ProcessConfirmed: 200, or 422 for a Payment that an earlier request left.
Confirmed(w) ==
  /\ Working(w, "await", "complete")
  /\ WorkerPayment(w) \in recorded[workerService[w]]
  /\ Holding
  /\ UNCHANGED <<storeVars, streamVars, processorVars>>

\* ProcessUnavailable: a 5xx or the deadline, whatever became of the request.
Unavailable(w) ==
  /\ Working(w, "await", "passive")
  /\ Holding
  /\ UNCHANGED <<storeVars, streamVars, processorVars>>

\* ProcessRetryable: any other transport error or status.
Retryable(w) ==
  /\ Working(w, "await", "release")
  /\ Holding
  /\ UNCHANGED <<storeVars, streamVars, processorVars>>

\* The availability service records the failure; an error is only logged.
RecordPassiveFailure(w) ==
  /\ Working(w, "passive", "release")
  /\ Holding
  /\ UNCHANGED <<storeVars, streamVars, processorVars>>

\* The first half of releaseAndNak: lost claim and error alike lead to the nak.
ReleasePayment(w) ==
  /\ Working(w, "release", "nak")
  /\ Holding
  /\ \/ ReleasePaymentRow(WorkerPayment(w), w)
     \/ UNCHANGED paymentVars
  /\ UNCHANGED <<outboxVars, streamVars, processorVars>>

CompletePayment(w) ==
  LET p == WorkerPayment(w)
      s == workerService[w]
  IN  /\ Working(w, "complete", IF MayComplete(p, w, s) THEN "ack" ELSE "nak")
      /\ Holding
      /\ CompletePaymentRow(p, w, s)
      /\ UNCHANGED <<outboxVars, streamVars, processorVars>>

\* Mutant: the delivery is acknowledged whatever CompletePayment returned.
CompletePaymentErrorIgnored(w) ==
  /\ Working(w, "complete", "ack")
  /\ Holding
  /\ \/ CompletePaymentRow(WorkerPayment(w), w, workerService[w])
     \/ UNCHANGED paymentVars
  /\ UNCHANGED <<outboxVars, streamVars, processorVars>>

\* The completion errs at the worker, before or after it was committed.
CompletePaymentFails(w) ==
  /\ Working(w, "complete", "nak")
  /\ Holding
  /\ \/ CompletePaymentRow(WorkerPayment(w), w, workerService[w])
     \/ UNCHANGED paymentVars
  /\ UNCHANGED <<outboxVars, streamVars, processorVars>>

\* AckSync returns: the stream has removed the message, or it errs.
Ack(w) ==
  /\ Working(w, "ack", "receive")
  /\ Drop(w)
  /\ \/ AckMessage(workerMessage[w])
     \/ UNCHANGED streamVars
  /\ UNCHANGED <<storeVars, processorVars>>

\* The nak is published without waiting and may be lost.
Nak(w) ==
  /\ Working(w, "nak", "receive")
  /\ Drop(w)
  /\ \/ NakMessage(workerMessage[w])
     \/ UNCHANGED streamVars
  /\ UNCHANGED <<storeVars, processorVars>>

StopWorker(w) ==
  /\ w \in Mortal
  /\ workerPc[w] # "stopped"
  /\ workerPc' = [workerPc EXCEPT ![w] = "stopped"]
  /\ Drop(w)
  /\ UNCHANGED <<storeVars, streamVars, processorVars>>

WorkerStep(w) ==
  \/ \E m \in Messages : Receive(w, m)
  \/ \E s \in Services \cup {None} : Select(w, s)
  \/ ClaimPayment(w)
  \/ ClaimPaymentFails(w)
  \/ Submit(w)
  \/ Confirmed(w)
  \/ Unavailable(w)
  \/ Retryable(w)
  \/ RecordPassiveFailure(w)
  \/ ReleasePayment(w)
  \/ CompletePayment(w)
  \/ CompletePaymentFails(w)
  \/ Ack(w)
  \/ Nak(w)
  \/ StopWorker(w)

\* The database clock, the stream's consumer and the Processors.
ProcessingEnvironment ==
  \/ \E p \in Payments : /\ PaymentClaimExpires(p)
                         /\ UNCHANGED <<streamVars, workerVars, processorVars>>
  \/ \E m \in Messages : /\ RedeliveryTimer(m)
                         /\ UNCHANGED <<storeVars, workerVars, processorVars>>
  \/ \E m \in Messages : DeliveryLost(m)
  \/ \E s \in Services, p \in Payments : ProcessorRecords(s, p)

ProcessingNext == (\E w \in Workers : WorkerStep(w)) \/ ProcessingEnvironment
=============================================================================
