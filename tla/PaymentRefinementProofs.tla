---------------------- MODULE PaymentRefinementProofs ----------------------
(***************************************************************************)
(* PaymentSystem implements PaymentLifecycle, and no step of it takes back *)
(* a decision: step by step, from the inductive invariant.                 *)
(***************************************************************************)
EXTENDS PaymentSafetyProofs

\* The mapped variables of PaymentLifecycle.
Taken    == {p \in Payments : Accepted(p)}
Chargers == [p \in Payments |-> {s \in Services : p \in recorded[s]}]

LEMMA MappedInit == Init => Lifecycle!LifecycleInit
BY DEF Init, StoreInit, WorkerInit, Lifecycle!LifecycleInit, Accepted

LEMMA MappedStutter ==
  ASSUME \A p \in Payments : Accepted(p)' <=> Accepted(p),
         UNCHANGED recorded, UNCHANGED processedByService
  PROVE  UNCHANGED Lifecycle!lifecycleVars
<1>1. Taken' = Taken
  BY DEF Taken
<1>2. Chargers' = Chargers
  BY DEF Chargers
<1>3. QED
  BY <1>1, <1>2 DEF Taken, Chargers, Lifecycle!lifecycleVars

LEMMA MappedAccept ==
  ASSUME TypeOK, NEW p \in Payments, Accept(p)
  PROVE  Lifecycle!AcceptOnce(p) \/ UNCHANGED Lifecycle!lifecycleVars
<1>1. CASE Accepted(p)
  BY <1>1, MappedStutter DEF Accept, InsertPayment, storeVars, paymentVars, processorVars, Accepted
<1>2. CASE ~Accepted(p)
  <2>1. /\ processingState' = [processingState EXCEPT ![p] = "pending"]
        /\ UNCHANGED processedByService /\ UNCHANGED recorded
    BY <1>2 DEF Accept, InsertPayment, processorVars
  <2>2. Taken' = Taken \cup {p}
    BY <2>1 DEF Taken, Accepted, TypeOK, StoreTypeOK, PaymentColumnsTypeOK
  <2>3. Chargers' = Chargers
    BY <2>1 DEF Chargers
  <2>4. p \notin Taken
    BY <1>2 DEF Taken
  <2>5. QED
    BY <2>1, <2>2, <2>3, <2>4 DEF Taken, Chargers, Lifecycle!AcceptOnce
<1>3. QED
  BY <1>1, <1>2

LEMMA MappedCharge ==
  ASSUME TypeOK, IInv, NEW s \in Services, NEW p \in Payments, ProcessorRecords(s, p)
  PROVE  Lifecycle!ChargeOnce(p, s)
<1>1. p \in submitted[s] /\ p \notin recorded[s]
  BY DEF ProcessorRecords
<1>2. p \in Taken
  BY <1>1 DEF Taken, IInv, RequestsFollowAssignment
<1>3. Chargers[p] = {}
  BY <1>1 DEF Chargers, IInv, RequestsFollowAssignment
<1>4. Chargers' = [Chargers EXCEPT ![p] = {s}]
  <2>1. \A q \in Payments, t \in Services :
          q \in recorded'[t] <=> q \in recorded[t] \/ (q = p /\ t = s)
    BY DEF ProcessorRecords, TypeOK, WorkerTypeOK
  <2>2. \A q \in Payments : Chargers'[q] = IF q = p THEN {s} ELSE Chargers[q]
    BY <1>3, <2>1 DEF Chargers
  <2>3. QED
    BY <2>2 DEF Chargers
<1>5. Taken' = Taken /\ UNCHANGED processedByService
  BY DEF ProcessorRecords, storeVars, paymentVars, Taken, Accepted
<1>6. QED
  BY <1>2, <1>3, <1>4, <1>5 DEF Taken, Chargers, Lifecycle!ChargeOnce

LEMMA MappedCompletion ==
  ASSUME TypeOK, IInv, NEW w \in Workers, CompletePayment(w) \/ CompletePaymentFails(w)
  PROVE  \/ \E p \in Payments, s \in Services : Lifecycle!CountOnce(p, s)
         \/ UNCHANGED Lifecycle!lifecycleVars
<1>1. PICK p \in Payments, s \in Services :
        /\ p = WorkerPayment(w) /\ s = workerService[w]
        /\ p \in recorded[s]
  BY DEF TypeOK, WorkerTypeOK, WorkerPayment, Reference, Messages, Working, IInv,
         WorkersHoldWork, CompletePayment, CompletePaymentFails
<1>2. /\ CompletePaymentRow(p, w, s) \/ UNCHANGED paymentVars
      /\ UNCHANGED recorded
  BY <1>1 DEF CompletePayment, CompletePaymentFails, processorVars
<1>3. \A q \in Payments : Accepted(q)' <=> Accepted(q)
  BY <1>2, CompletionEffects
<1>4. CASE CompletePaymentRow(p, w, s) /\ MayComplete(p, w, s)
  <2>1. processedByService' = [processedByService EXCEPT ![p] = s]
    BY <1>4 DEF CompletePaymentRow
  <2>2. processedByService[p] = None
    BY <1>4 DEF MayComplete, OwnsPayment, Completed, IInv, RowsAgree
  <2>3. Taken' = Taken /\ Chargers' = Chargers /\ s \in Chargers[p]
    BY <1>1, <1>2, <1>3 DEF Taken, Chargers
  <2>4. QED
    BY <2>1, <2>2, <2>3 DEF Taken, Chargers, Lifecycle!CountOnce
<1>5. CASE UNCHANGED paymentVars
  BY <1>2, <1>3, <1>5, MappedStutter DEF paymentVars
<1>6. QED
  BY <1>2, <1>4, <1>5 DEF CompletePaymentRow

LEMMA MappedStep ==
  ASSUME TypeOK, IInv, [Next]_vars
  PROVE  [Lifecycle!LifecycleNext]_(Lifecycle!lifecycleVars)
<1>1. CASE \E p \in Payments : Accept(p)
  BY <1>1, MappedAccept DEF Lifecycle!LifecycleNext, Lifecycle!Services, Services
<1>2. CASE \E s \in Services, p \in Payments : ProcessorRecords(s, p)
  <2>1. PICK s \in Services, p \in Payments : ProcessorRecords(s, p)
    BY <1>2
  <2>2. Lifecycle!ChargeOnce(p, s)
    BY <2>1, MappedCharge
  <2>3. QED
    BY <2>2 DEF Lifecycle!LifecycleNext, Lifecycle!Services, Services
<1>3. CASE \E w \in Workers : CompletePayment(w) \/ CompletePaymentFails(w)
  <2>1. \/ \E p \in Payments, s \in Services : Lifecycle!CountOnce(p, s)
        \/ UNCHANGED Lifecycle!lifecycleVars
    BY <1>3, MappedCompletion
  <2>2. QED
    BY <2>1 DEF Lifecycle!LifecycleNext, Lifecycle!Services, Services
<1>4. ASSUME NEW w \in Workers, ClaimPayment(w) \/ ClaimPaymentFails(w) \/ ReleasePayment(w)
      PROVE  UNCHANGED Lifecycle!lifecycleVars
  <2>1. WorkerPayment(w) \in Payments /\ workerService[w] \in Services \cup {None}
    BY <1>4 DEF TypeOK, WorkerTypeOK, WorkerPayment, Reference, Messages, Working,
                ClaimPayment, ClaimPaymentFails, ReleasePayment
  <2>2. /\ \/ ClaimPaymentRow(WorkerPayment(w), w, workerService[w])
           \/ ReleasePaymentRow(WorkerPayment(w), w)
           \/ UNCHANGED paymentVars
        /\ UNCHANGED recorded
    BY <1>4 DEF ClaimPayment, ClaimPaymentFails, ReleasePayment, processorVars
  <2>3. QED
    BY <2>1, <2>2, ClaimEffects, MappedStutter
<1>5. CASE \E p \in Payments : PaymentClaimExpires(p) /\ UNCHANGED processorVars
  BY <1>5, MappedStutter DEF PaymentClaimExpires, processorVars, Accepted
<1>6. CASE UNCHANGED paymentVars /\ UNCHANGED recorded
  BY <1>6, MappedStutter DEF paymentVars, Accepted
<1>7. QED
  BY <1>1, <1>2, <1>3, <1>4, <1>5, <1>6
  DEF Next, OutboxNext, DispatcherStep, ClaimOutbox, ClaimOutboxReplyLost, PublishAcked,
      PublishFails, ReleaseOutbox, MarkOutboxDispatched, MarkOutboxFails, StopDispatcher,
      OutboxEnvironment, OutboxClaimExpires, ProcessingNext, WorkerStep, Receive, Select,
      Submit, Confirmed, Unavailable, Retryable, RecordPassiveFailure, Ack, Nak, StopWorker,
      ProcessingEnvironment, DeliveryLost, vars, storeVars, processorVars

\* Every behaviour of the system is a behaviour of the lifecycle it promises.
THEOREM LifecycleImplemented == Spec => ImplementsLifecycle
<1>1. Init => Lifecycle!LifecycleInit
  BY MappedInit
<1>2. TypeOK /\ IInv /\ [Next]_vars => [Lifecycle!LifecycleNext]_(Lifecycle!lifecycleVars)
  BY MappedStep
<1>3. QED
  BY <1>1, <1>2, TypeCorrect, InvariantHolds, PTL
  DEF Spec, ImplementsLifecycle, Lifecycle!LifecycleSpec

(***************************************************************************)
(* Action properties                                                       *)
(***************************************************************************)
LEMMA DispatchLasts ==
  ASSUME TypeOK, IInv, [Next]_vars, NEW p \in Payments, outboxState[p] = "dispatched"
  PROVE  outboxState'[p] = "dispatched"
<1>1. CASE UNCHANGED outboxVars
  BY <1>1 DEF outboxVars
<1>2. ASSUME NEW q \in Payments, NEW d \in Dispatchers,
             \/ ClaimOutboxRow(q, d) \/ ReleaseOutboxRow(q, d) \/ MarkOutboxRowDispatched(q, d)
      PROVE  outboxState'[p] = "dispatched"
  BY <1>2, OutboxEffects
<1>3. ASSUME NEW d \in Dispatchers, ReleaseOutbox(d) \/ MarkOutboxDispatched(d)
      PROVE  outboxState'[p] = "dispatched"
  <2>1. dispatcherPayment[d] \in Payments
    BY <1>3 DEF ReleaseOutbox, MarkOutboxDispatched, Dispatching, TypeOK, DispatcherTypeOK
  <2>2. QED
    BY <1>1, <1>2, <1>3, <2>1 DEF ReleaseOutbox, MarkOutboxDispatched
<1>4. ASSUME NEW q \in Payments, Accept(q)
      PROVE  outboxState'[p] = "dispatched"
  BY <1>4, <1>1 DEF Accept, InsertPayment, storeVars, TypeOK, StoreTypeOK, OutboxColumnsTypeOK,
                    IInv, RowsAgree
<1>5. CASE \E q \in Payments : OutboxClaimExpires(q)
  BY <1>5 DEF OutboxClaimExpires
<1>6. QED
  BY <1>1, <1>2, <1>3, <1>4, <1>5
  DEF Next, OutboxNext, DispatcherStep, ClaimOutbox, ClaimOutboxReplyLost, PublishAcked,
      PublishFails, MarkOutboxFails, StopDispatcher, OutboxEnvironment, LatePublication,
      DuplicateWindowPasses, ProcessingNext, WorkerStep, Receive, Select, ClaimPayment,
      ClaimPaymentFails, Submit, Confirmed, Unavailable, Retryable, RecordPassiveFailure,
      ReleasePayment, CompletePayment, CompletePaymentFails, Ack, Nak, StopWorker,
      ProcessingEnvironment, PaymentClaimExpires, DeliveryLost, ProcessorRecords, vars, storeVars

\* No step takes back an assignment, a completion, its Processor or a dispatch.
THEOREM DecisionsStayFinal == Spec => DecisionsAreFinal
<1>1. TypeOK /\ IInv /\ [Next]_vars =>
        [\A p \in Payments :
           /\ processorAssignment[p] # None => processorAssignment'[p] = processorAssignment[p]
           /\ Completed(p) => Completed(p)' /\ processedByService'[p] = processedByService[p]
           /\ outboxState[p] = "dispatched" => outboxState'[p] = "dispatched"]_vars
  BY StepLasts, DispatchLasts DEF Lasting
<1>2. QED
  BY <1>1, TypeCorrect, InvariantHolds, PTL DEF Spec, DecisionsAreFinal

LEMMA LeaseStep ==
  ASSUME TypeOK, [Next]_vars, NEW p \in Payments, NEW w \in Workers,
         OwnsPayment(p, w), ~processingClaimExpired[p], ~OwnsPayment(p, w)'
  PROVE  /\ workerPc[w] \in {"release", "complete"}
         /\ WorkerPayment(w) = p
         /\ workerPc'[w] # workerPc[w]
<1> USE DEF TypeOK, StoreTypeOK, PaymentColumnsTypeOK, OwnsPayment
<1>1. ~UNCHANGED paymentVars
  BY DEF paymentVars
<1>2. \A q \in Payments : ~Accept(q) /\ ~PaymentClaimExpires(q)
  BY <1>1 DEF Accept, InsertPayment, Accepted, storeVars, PaymentClaimExpires
<1>3. \A q \in Payments, v \in Workers, s \in Services \cup {None} : ~ClaimPaymentRow(q, v, s)
  BY <1>1, ClaimOutcomes DEF ClaimPaymentRow, SetProcessing, PaymentClaimable
<1>4. ASSUME NEW v \in Workers,
             ReleasePayment(v) \/ CompletePayment(v) \/ CompletePaymentFails(v)
      PROVE  v = w /\ WorkerPayment(v) = p
  <2>1. WorkerPayment(v) \in Payments
    BY <1>4 DEF WorkerTypeOK, WorkerPayment, Reference, Messages, Working, ReleasePayment,
                CompletePayment, CompletePaymentFails
  <2>2. OwnsPayment(WorkerPayment(v), v) /\ \E state : SetProcessing(WorkerPayment(v), state, None)
    BY <1>1, <1>4 DEF ReleasePayment, CompletePayment, CompletePaymentFails, ReleasePaymentRow,
                      CompletePaymentRow, MayComplete
  <2>3. QED
    BY <2>1, <2>2 DEF SetProcessing
<1>5. PICK v \in Workers : \/ ClaimPayment(v) \/ ClaimPaymentFails(v) \/ ReleasePayment(v)
                           \/ CompletePayment(v) \/ CompletePaymentFails(v)
  BY <1>1, <1>2
  DEF Next, OutboxNext, DispatcherStep, ClaimOutbox, ClaimOutboxReplyLost, PublishAcked,
      PublishFails, ReleaseOutbox, MarkOutboxDispatched, MarkOutboxFails, StopDispatcher,
      OutboxEnvironment, OutboxClaimExpires, ProcessingNext, WorkerStep, Receive, Select,
      Submit, Confirmed, Unavailable, Retryable, RecordPassiveFailure, Ack, Nak, StopWorker,
      ProcessingEnvironment, DeliveryLost, ProcessorRecords, vars, storeVars
<1>6. ~ClaimPayment(v) /\ ~ClaimPaymentFails(v)
  <2>1. ASSUME ClaimPayment(v) \/ ClaimPaymentFails(v) PROVE FALSE
    <3>1. WorkerPayment(v) \in Payments /\ workerService[v] \in Services \cup {None}
      BY <2>1 DEF WorkerTypeOK, WorkerPayment, Reference, Messages, Working, ClaimPayment,
                  ClaimPaymentFails
    <3>2. QED
      BY <1>1, <1>3, <2>1, <3>1 DEF ClaimPayment, ClaimPaymentFails
  <2>2. QED
    BY <2>1
<1>7. v = w /\ WorkerPayment(w) = p
  BY <1>4, <1>5, <1>6
<1>8. QED
  BY <1>5, <1>6, <1>7 DEF ReleasePayment, CompletePayment, CompletePaymentFails, Working,
                          WorkerTypeOK

\* Only its holder ends a live payment lease.
THEOREM HoldersEndLeases == Spec => OnlyHolderEndsLease
<1>1. TypeOK /\ [Next]_vars =>
        [\A p \in Payments, w \in Workers :
           /\ OwnsPayment(p, w)
           /\ ~processingClaimExpired[p]
           /\ ~OwnsPayment(p, w)'
           => /\ workerPc[w] \in {"release", "complete"}
              /\ WorkerPayment(w) = p
              /\ workerPc'[w] # workerPc[w]]_vars
  BY LeaseStep
<1>2. QED
  BY <1>1, TypeCorrect, PTL DEF Spec, OnlyHolderEndsLease

LEMMA OutboxClaimStep ==
  ASSUME TypeOK, IInv, [Next]_vars, NEW p \in Payments, NEW d \in Dispatchers,
         OwnsOutbox(p, d), ~outboxClaimExpired[p], ~OwnsOutbox(p, d)'
  PROVE  /\ dispatcherPc[d] \in {"release", "mark"}
         /\ dispatcherPayment[d] = p
         /\ dispatcherPc'[d] # dispatcherPc[d]
<1> USE DEF TypeOK, StoreTypeOK, OutboxColumnsTypeOK, OwnsOutbox
<1>1. ~UNCHANGED outboxVars
  BY DEF outboxVars
<1>2. ASSUME NEW q \in Payments
      PROVE  ~OutboxClaimExpires(q) /\ ~Accept(q)
  <2>1. ~OutboxClaimExpires(q)
    BY DEF OutboxClaimExpires
  <2>2. CASE Accepted(q)
    BY <1>1, <2>1, <2>2 DEF Accept, InsertPayment, storeVars
  <2>3. CASE ~Accepted(q)
    BY <2>1, <2>3 DEF Accept, InsertPayment, IInv, RowsAgree
  <2>4. QED
    BY <2>2, <2>3
<1>3. \A q \in Payments, e \in Dispatchers : ~ClaimOutboxRow(q, e)
  BY DEF ClaimOutboxRow, SetOutbox, OutboxClaimable
<1>4. PICK e \in Dispatchers : ReleaseOutbox(e) \/ MarkOutboxDispatched(e)
  BY <1>1, <1>2, <1>3
  DEF Next, OutboxNext, DispatcherStep, ClaimOutbox, ClaimOutboxReplyLost, PublishAcked,
      PublishFails, MarkOutboxFails, StopDispatcher, OutboxEnvironment, LatePublication,
      DuplicateWindowPasses, ProcessingNext, WorkerStep, Receive, Select, ClaimPayment,
      ClaimPaymentFails, Submit, Confirmed, Unavailable, Retryable, RecordPassiveFailure,
      ReleasePayment, CompletePayment, CompletePaymentFails, Ack, Nak, StopWorker,
      ProcessingEnvironment, PaymentClaimExpires, DeliveryLost, ProcessorRecords, vars, storeVars
<1>5. dispatcherPayment[e] \in Payments
  BY <1>4 DEF ReleaseOutbox, MarkOutboxDispatched, Dispatching, DispatcherTypeOK
<1>6. OwnsOutbox(dispatcherPayment[e], e) /\ \E state : SetOutbox(dispatcherPayment[e], state, None)
  BY <1>1, <1>4 DEF ReleaseOutbox, MarkOutboxDispatched, ReleaseOutboxRow, MarkOutboxRowDispatched
<1>7. e = d /\ dispatcherPayment[d] = p
  BY <1>5, <1>6 DEF SetOutbox
<1>8. QED
  BY <1>4, <1>7 DEF ReleaseOutbox, MarkOutboxDispatched, Dispatching, DispatcherTypeOK

\* Only its holder ends a live outbox claim.
THEOREM HoldersEndOutboxClaims == Spec => OnlyHolderEndsOutboxClaim
<1>1. TypeOK /\ IInv /\ [Next]_vars =>
        [\A p \in Payments, d \in Dispatchers :
           /\ OwnsOutbox(p, d)
           /\ ~outboxClaimExpired[p]
           /\ ~OwnsOutbox(p, d)'
           => /\ dispatcherPc[d] \in {"release", "mark"}
              /\ dispatcherPayment[d] = p
              /\ dispatcherPc'[d] # dispatcherPc[d]]_vars
  BY OutboxClaimStep
<1>2. QED
  BY <1>1, TypeCorrect, InvariantHolds, PTL DEF Spec, OnlyHolderEndsOutboxClaim
=============================================================================
