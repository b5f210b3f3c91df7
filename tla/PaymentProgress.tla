-------------------------- MODULE PaymentProgress --------------------------
(***************************************************************************)
(* What the payment system eventually does, and under which assumptions.   *)
(* Every loop of the program retries for ever after its configured delay,  *)
(* so an owner that has not stopped keeps taking steps.  Calls may fail,   *)
(* replies get lost and attempts overrun their leases any finite number of *)
(* times, in any order; from some moment on they do not, for otherwise     *)
(* nothing could be promised at all.                                       *)
(***************************************************************************)
EXTENDS PaymentSystem

(***************************************************************************)
(* Attempts that outlive their lease.  The default configuration waits     *)
(* 10 s for a Processor and 2 s for a publication against leases of 20 s   *)
(* and 5 s.                                                                *)
(***************************************************************************)
PaymentLeaseOverrun(p) ==
  /\ PaymentClaimExpires(p)
  /\ \E w \in Workers :
       /\ workerPc[w] \in {"submit", "await", "passive", "release", "complete"}
       /\ OwnsPayment(p, w)
       /\ WorkerPayment(w) = p

OutboxLeaseOverrun(p) ==
  /\ OutboxClaimExpires(p)
  /\ \E d \in Dispatchers :
       /\ dispatcherPc[d] \in {"publish", "release", "mark"}
       /\ OwnsOutbox(p, d)
       /\ dispatcherPayment[d] = p

Fault ==
  \/ \E p \in Payments : PaymentLeaseOverrun(p) \/ OutboxLeaseOverrun(p)
  \/ \E d \in Dispatchers :
       ClaimOutboxReplyLost(d) \/ PublishFails(d) \/ MarkOutboxFails(d)
  \/ \E m \in Messages : DeliveryLost(m)
  \/ \E w \in Workers :
       \/ Select(w, None)
       \/ ClaimPaymentFails(w)
       \/ Unavailable(w)
       \/ Retryable(w)
       \/ CompletePaymentFails(w)
       \/ Ack(w) /\ UNCHANGED streamVars

(***************************************************************************)
(* Owners keep running, clocks keep ticking, a Processor deals with the    *)
(* requests it got, and the consumer passes over no message for ever.      *)
(***************************************************************************)
ProgressFairness ==
  /\ \A d \in Dispatchers :
       WF_vars(DispatcherStep(d) /\ UNCHANGED <<workerVars, processorVars, answered>>)
  /\ \A w \in Workers :
       WF_vars(WorkerStep(w) /\ UNCHANGED <<dispatcherVars, answered>>)
  /\ \A p \in Payments :
       /\ WF_vars(PaymentClaimExpires(p) /\ UNCHANGED
                    <<streamVars, dispatcherVars, workerVars, processorVars, answered>>)
       /\ WF_vars(OutboxClaimExpires(p) /\ UNCHANGED
                    <<streamVars, dispatcherVars, workerVars, processorVars, answered>>)
       /\ WF_vars((\E s \in Services : ProcessorRecords(s, p)) /\ UNCHANGED <<dispatcherVars, answered>>)
  /\ \A m \in Messages :
       /\ WF_vars(RedeliveryTimer(m) /\ UNCHANGED
                    <<storeVars, dispatcherVars, workerVars, processorVars, answered>>)
       /\ SF_vars((\E w \in Workers : Receive(w, m)) /\ UNCHANGED <<dispatcherVars, answered>>)

ProgressSpec == Spec /\ ProgressFairness /\ <>[][~Fault]_vars

-----------------------------------------------------------------------------
\* Every accepted Payment is eventually completed: no crash between two calls,
\* lost reply, expired lease, lost ack or nak leaves it stuck for good.
AcceptedCompletes == \A p \in Payments : Accepted(p) ~> Completed(p)

\* Every outbox row is eventually dispatched and is then never claimed again.
OutboxDrains == \A p \in Payments : Accepted(p) ~> [](outboxState[p] = "dispatched")

\* Every message is eventually removed, also a redundant copy of a reference
\* whose Payment another delivery has completed.
StreamDrains == \A m \in Messages : InStream(m) ~> messageState[m] = "acked"
=============================================================================
