------------------------ MODULE PaymentSafetyProofs ------------------------
(***************************************************************************)
(* PaymentSystem is type correct, IInv is an inductive invariant of it,    *)
(* and the safety properties follow from it, for every set of Payments and *)
(* owners and every bound of the stream.                                   *)
(***************************************************************************)
EXTENDS PaymentInvariant, TLAPS

(***************************************************************************)
(* Database statements and stream operations keep their tables typed.      *)
(***************************************************************************)
LEMMA OutboxStatementTypes ==
  ASSUME OutboxColumnsTypeOK, NEW p \in Payments, NEW d \in Dispatchers
  PROVE  /\ ClaimOutboxRow(p, d) => OutboxColumnsTypeOK'
         /\ ReleaseOutboxRow(p, d) => OutboxColumnsTypeOK'
         /\ MarkOutboxRowDispatched(p, d) => OutboxColumnsTypeOK'
<1> USE DEF OutboxColumnsTypeOK, outboxVars
<1>1. ClaimOutboxRow(p, d) => OutboxColumnsTypeOK'
  BY DEF ClaimOutboxRow, SetOutbox
<1>2. ReleaseOutboxRow(p, d) => OutboxColumnsTypeOK'
  BY DEF ReleaseOutboxRow, SetOutbox
<1>3. MarkOutboxRowDispatched(p, d) => OutboxColumnsTypeOK'
  BY DEF MarkOutboxRowDispatched, SetOutbox
<1>4. QED
  BY <1>1, <1>2, <1>3

LEMMA SetProcessingTypes ==
  ASSUME PaymentColumnsTypeOK, NEW p \in Payments,
         NEW state \in {"pending", "processing", "completed"},
         NEW owner \in Workers \cup {None},
         SetProcessing(p, state, owner)
  PROVE  /\ processingState' \in [Payments -> {"absent", "pending", "processing", "completed"}]
         /\ processingClaimedBy' \in [Payments -> Workers \cup {None}]
         /\ processingClaimExpired' \in [Payments -> BOOLEAN]
BY DEF PaymentColumnsTypeOK, SetProcessing

LEMMA PaymentStatementTypes ==
  ASSUME PaymentColumnsTypeOK, NEW p \in Payments, NEW w \in Workers,
         NEW s \in Services \cup {None}
  PROVE  /\ ClaimPaymentRow(p, w, s) => PaymentColumnsTypeOK'
         /\ ReleasePaymentRow(p, w) => PaymentColumnsTypeOK'
         /\ CompletePaymentRow(p, w, s) => PaymentColumnsTypeOK'
<1>1. UNCHANGED paymentVars => PaymentColumnsTypeOK'
  BY DEF paymentVars, PaymentColumnsTypeOK
<1>2. ASSUME SetProcessing(p, "processing", w),
             processorAssignment' = [processorAssignment EXCEPT ![p] = AssignmentOr(p, s)],
             UNCHANGED processedByService
      PROVE  PaymentColumnsTypeOK'
  <2>1. AssignmentOr(p, s) \in Services \cup {None}
    BY DEF AssignmentOr, PaymentColumnsTypeOK
  <2>2. processorAssignment' \in [Payments -> Services \cup {None}]
    BY <1>2, <2>1 DEF PaymentColumnsTypeOK
  <2>3. QED
    BY <1>2, <2>2, SetProcessingTypes DEF PaymentColumnsTypeOK
<1>3. ASSUME SetProcessing(p, "pending", None),
             UNCHANGED <<processorAssignment, processedByService>>
      PROVE  PaymentColumnsTypeOK'
  BY <1>3, SetProcessingTypes DEF PaymentColumnsTypeOK
<1>4. ASSUME SetProcessing(p, "completed", None),
             processedByService' = [processedByService EXCEPT ![p] = s],
             UNCHANGED processorAssignment
      PROVE  PaymentColumnsTypeOK'
  <2>1. processedByService' \in [Payments -> Services \cup {None}]
    BY <1>4 DEF PaymentColumnsTypeOK
  <2>2. QED
    BY <1>4, <2>1, SetProcessingTypes DEF PaymentColumnsTypeOK
<1>5. QED
  BY <1>1, <1>2, <1>3, <1>4 DEF ClaimPaymentRow, ReleasePaymentRow, CompletePaymentRow

LEMMA PublicationTypes ==
  ASSUME StreamTypeOK, NEW p \in Payments
  PROVE  /\ UNCHANGED late /\ StoreMessage(p) => StreamTypeOK'
         /\ DuplicateWindowPasses(p) => StreamTypeOK'
<1>1. UNCHANGED late /\ StoreMessage(p) => StreamTypeOK'
  <2>1. \A c \in 1 .. MaxCopies :
          [messageState EXCEPT ![<<p, c>>] = "stored"] \in [Messages -> MessageStates]
    BY DEF StreamTypeOK, Messages, MessageStates
  <2>2. QED
    BY <2>1 DEF StreamTypeOK, StoreMessage
<1>2. DuplicateWindowPasses(p) => StreamTypeOK'
  BY DEF StreamTypeOK, DuplicateWindowPasses
<1>3. QED
  BY <1>1, <1>2

LEMMA DeliveryTypes ==
  ASSUME StreamTypeOK, NEW m \in Messages
  PROVE  /\ DeliverMessage(m) => StreamTypeOK'
         /\ AckMessage(m) => StreamTypeOK'
         /\ NakMessage(m) => StreamTypeOK'
         /\ RedeliveryTimer(m) => StreamTypeOK'
<1> USE DEF StreamTypeOK, MessageStates, AckPendingStates
<1>1. DeliverMessage(m) => StreamTypeOK'
  BY DEF DeliverMessage
<1>2. AckMessage(m) => StreamTypeOK'
  BY DEF AckMessage
<1>3. NakMessage(m) => StreamTypeOK'
  BY DEF NakMessage
<1>4. RedeliveryTimer(m) => StreamTypeOK'
  BY DEF RedeliveryTimer
<1>5. QED
  BY <1>1, <1>2, <1>3, <1>4

\* What a step leaves alone stays typed.
LEMMA UntouchedTypes ==
  ASSUME TypeOK
  PROVE  /\ UNCHANGED paymentVars => PaymentColumnsTypeOK'
         /\ UNCHANGED outboxVars => OutboxColumnsTypeOK'
         /\ UNCHANGED storeVars => StoreTypeOK'
         /\ UNCHANGED streamVars => StreamTypeOK'
         /\ UNCHANGED dispatcherVars => DispatcherTypeOK'
         /\ UNCHANGED <<workerVars, processorVars>> => WorkerTypeOK'
         /\ UNCHANGED answered => answered' \in SUBSET Payments
<1> USE DEF TypeOK, StoreTypeOK
<1>1. UNCHANGED paymentVars => PaymentColumnsTypeOK'
  BY DEF paymentVars, PaymentColumnsTypeOK
<1>2. UNCHANGED outboxVars => OutboxColumnsTypeOK'
  BY DEF outboxVars, OutboxColumnsTypeOK
<1>3. UNCHANGED storeVars => StoreTypeOK'
  BY <1>1, <1>2 DEF storeVars
<1>4. UNCHANGED streamVars => StreamTypeOK'
  BY DEF streamVars, StreamTypeOK
<1>5. UNCHANGED dispatcherVars => DispatcherTypeOK'
  BY DEF dispatcherVars, DispatcherTypeOK
<1>6. UNCHANGED <<workerVars, processorVars>> => WorkerTypeOK'
  BY DEF workerVars, processorVars, WorkerTypeOK
<1>7. QED
  BY <1>1, <1>2, <1>3, <1>4, <1>5, <1>6

(***************************************************************************)
(* The steps of the whole system                                           *)
(***************************************************************************)
LEMMA AcceptTypes ==
  ASSUME TypeOK, NEW p \in Payments, Accept(p)
  PROVE  TypeOK'
<1>1. StoreTypeOK'
  <2>1. CASE ~Accepted(p)
    BY <2>1 DEF Accept, InsertPayment, TypeOK, StoreTypeOK, PaymentColumnsTypeOK,
                OutboxColumnsTypeOK
  <2>2. CASE Accepted(p)
    BY <2>2, UntouchedTypes DEF Accept, InsertPayment
  <2>3. QED
    BY <2>1, <2>2
<1>2. answered' \in SUBSET Payments
  BY DEF Accept, TypeOK
<1>3. QED
  BY <1>1, <1>2, UntouchedTypes DEF Accept, TypeOK

LEMMA DispatcherTypes ==
  ASSUME TypeOK, NEW d \in Dispatchers, DispatcherStep(d),
         UNCHANGED <<workerVars, processorVars, answered>>
  PROVE  TypeOK'
<1>1. DispatcherTypeOK'
  BY DEF DispatcherStep, TypeOK, DispatcherTypeOK, dispatcherVars, Dispatching, KeepPayment,
         DropPayment, ClaimOutbox, ClaimOutboxReplyLost, PublishAcked, PublishFails,
         ReleaseOutbox, MarkOutboxDispatched, MarkOutboxFails, StopDispatcher
<1>2. StoreTypeOK'
  <2>1. CASE \E p \in Payments : ClaimOutboxRow(p, d) /\ UNCHANGED paymentVars
    BY <2>1, OutboxStatementTypes, UntouchedTypes DEF TypeOK, StoreTypeOK
  <2>2. CASE ReleaseOutbox(d) \/ MarkOutboxDispatched(d)
    <3>1. dispatcherPayment[d] \in Payments
      BY <2>2 DEF TypeOK, DispatcherTypeOK, ReleaseOutbox, MarkOutboxDispatched, Dispatching
    <3>2. QED
      BY <2>2, <3>1, OutboxStatementTypes, UntouchedTypes
      DEF TypeOK, StoreTypeOK, ReleaseOutbox, MarkOutboxDispatched
  <2>3. CASE UNCHANGED storeVars
    BY <2>3, UntouchedTypes
  <2>4. QED
    BY <2>1, <2>2, <2>3 DEF DispatcherStep, ClaimOutbox, ClaimOutboxReplyLost, PublishAcked,
       PublishFails, MarkOutboxFails, StopDispatcher
<1>3. StreamTypeOK'
  <2>1. CASE PublishAcked(d) \/ PublishFails(d)
    <3>1. dispatcherPayment[d] \in Payments
      BY <2>1 DEF TypeOK, DispatcherTypeOK, PublishAcked, PublishFails, Dispatching
    <3>2. CASE PublishAcked(d)
      BY <3>1, <3>2, PublicationTypes DEF PublishAcked, TypeOK
    <3>3. CASE PublishFails(d)
      BY <3>1, <3>3 DEF PublishFails, TypeOK, StreamTypeOK
    <3>4. QED
      BY <2>1, <3>2, <3>3
  <2>2. CASE UNCHANGED streamVars
    BY <2>2, UntouchedTypes
  <2>3. QED
    BY <2>1, <2>2 DEF DispatcherStep, ClaimOutbox, ClaimOutboxReplyLost, ReleaseOutbox,
       MarkOutboxDispatched, MarkOutboxFails, StopDispatcher
<1>4. QED
  BY <1>1, <1>2, <1>3, UntouchedTypes DEF TypeOK

LEMMA WorkerTypes ==
  ASSUME TypeOK, NEW w \in Workers, WorkerStep(w), UNCHANGED <<dispatcherVars, answered>>
  PROVE  TypeOK'
<1> USE DEF TypeOK, WorkerTypeOK, workerVars, processorVars, WorkerPcs, Working, Holding, Drop
<1>1. WorkerTypeOK'
  <2>1. CASE \E m \in Messages : Receive(w, m)
    BY <2>1 DEF Receive
  <2>2. CASE \E s \in Services \cup {None} : Select(w, s)
    BY <2>2 DEF Select
  <2>3. CASE ClaimPayment(w)
    <3>1. WorkerPayment(w) \in Payments
      BY <2>3 DEF ClaimPayment, WorkerPayment, Reference, Messages
    <3>2. AssignmentOr(WorkerPayment(w), workerService[w]) \in Services \cup {None}
      BY <3>1 DEF AssignmentOr, StoreTypeOK, PaymentColumnsTypeOK
    <3>3. \A status : AfterClaim(status) \in {"submit", "ack", "nak"}
      BY DEF AfterClaim
    <3>4. QED
      BY <2>3, <3>2, <3>3 DEF ClaimPayment
  <2>4. CASE ClaimPaymentFails(w)
    BY <2>4 DEF ClaimPaymentFails
  <2>5. CASE Submit(w)
    <3>1. WorkerPayment(w) \in Payments
      BY <2>5 DEF Submit, WorkerPayment, Reference, Messages
    <3>2. QED
      BY <2>5, <3>1 DEF Submit
  <2>6. CASE Confirmed(w) \/ Unavailable(w) \/ Retryable(w) \/ RecordPassiveFailure(w)
    BY <2>6 DEF Confirmed, Unavailable, Retryable, RecordPassiveFailure
  <2>7. CASE ReleasePayment(w) \/ CompletePayment(w) \/ CompletePaymentFails(w)
    BY <2>7 DEF ReleasePayment, CompletePayment, CompletePaymentFails
  <2>8. CASE Ack(w) \/ Nak(w) \/ StopWorker(w)
    BY <2>8 DEF Ack, Nak, StopWorker
  <2>9. QED
    BY <2>1, <2>2, <2>3, <2>4, <2>5, <2>6, <2>7, <2>8 DEF WorkerStep
<1>2. StoreTypeOK'
  <2>1. CASE UNCHANGED storeVars
    BY <2>1, UntouchedTypes
  <2>2. CASE \/ ClaimPayment(w) \/ ClaimPaymentFails(w) \/ ReleasePayment(w)
             \/ CompletePayment(w) \/ CompletePaymentFails(w)
    <3>1. WorkerPayment(w) \in Payments /\ workerService[w] \in Services \cup {None}
      BY <2>2 DEF TypeOK, WorkerTypeOK, WorkerPayment, Reference, Messages, Working,
         ClaimPayment, ClaimPaymentFails, ReleasePayment, CompletePayment, CompletePaymentFails
    <3>2. UNCHANGED outboxVars
      BY <2>2 DEF ClaimPayment, ClaimPaymentFails, ReleasePayment, CompletePayment,
                  CompletePaymentFails
    <3>3. \/ ClaimPaymentRow(WorkerPayment(w), w, workerService[w])
          \/ ReleasePaymentRow(WorkerPayment(w), w)
          \/ CompletePaymentRow(WorkerPayment(w), w, workerService[w])
          \/ UNCHANGED paymentVars
      BY <2>2 DEF ClaimPayment, ClaimPaymentFails, ReleasePayment, CompletePayment,
                  CompletePaymentFails
    <3>4. QED
      BY <3>1, <3>2, <3>3, PaymentStatementTypes, UntouchedTypes DEF TypeOK, StoreTypeOK
  <2>3. QED
    BY <2>1, <2>2 DEF WorkerStep, Receive, Select, Submit, Confirmed, Unavailable, Retryable,
       RecordPassiveFailure, Ack, Nak, StopWorker
<1>3. StreamTypeOK'
  <2>1. CASE UNCHANGED streamVars
    BY <2>1, UntouchedTypes
  <2>2. CASE \E m \in Messages : DeliverMessage(m)
    BY <2>2, DeliveryTypes DEF TypeOK
  <2>3. CASE Ack(w) \/ Nak(w)
    <3>1. workerMessage[w] \in Messages
      BY <2>3 DEF TypeOK, WorkerTypeOK, Ack, Nak, Working
    <3>2. QED
      BY <2>3, <3>1, DeliveryTypes, UntouchedTypes DEF Ack, Nak, TypeOK
  <2>4. QED
    BY <2>1, <2>2, <2>3 DEF WorkerStep, Receive, Select, ClaimPayment, ClaimPaymentFails, Submit,
       Confirmed, Unavailable, Retryable, RecordPassiveFailure, ReleasePayment, CompletePayment,
       CompletePaymentFails, StopWorker
<1>4. QED
  BY <1>1, <1>2, <1>3, UntouchedTypes DEF TypeOK

LEMMA EnvironmentTypes ==
  ASSUME TypeOK,
         \/ /\ OutboxEnvironment
            /\ UNCHANGED <<dispatcherVars, workerVars, processorVars, answered>>
         \/ /\ ProcessingEnvironment
            /\ UNCHANGED <<dispatcherVars, answered>>
  PROVE  TypeOK'
<1>1. StoreTypeOK'
  <2>1. ASSUME NEW p \in Payments PROVE PaymentClaimExpires(p) => StoreTypeOK'
    BY UntouchedTypes DEF TypeOK, StoreTypeOK, PaymentColumnsTypeOK, PaymentClaimExpires
  <2>2. ASSUME NEW p \in Payments PROVE OutboxClaimExpires(p) => StoreTypeOK'
    BY UntouchedTypes DEF TypeOK, StoreTypeOK, OutboxColumnsTypeOK, OutboxClaimExpires
  <2>3. QED
    BY <2>1, <2>2, UntouchedTypes DEF OutboxEnvironment, ProcessingEnvironment, DeliveryLost,
       ProcessorRecords
<1>2. StreamTypeOK'
  BY PublicationTypes, DeliveryTypes, UntouchedTypes
  DEF TypeOK, OutboxEnvironment, ProcessingEnvironment, LatePublication, DeliveryLost,
      ProcessorRecords
<1>3. WorkerTypeOK'
  <2>1. CASE \E s \in Services, p \in Payments : ProcessorRecords(s, p)
    BY <2>1 DEF TypeOK, WorkerTypeOK, ProcessorRecords, workerVars
  <2>2. QED
    BY <2>1, UntouchedTypes DEF OutboxEnvironment, ProcessingEnvironment, DeliveryLost
<1>4. QED
  BY <1>1, <1>2, <1>3, UntouchedTypes DEF TypeOK

LEMMA TypeInitial == Init => TypeOK
BY DEF Init, TypeOK, StoreInit, StoreTypeOK, PaymentColumnsTypeOK, OutboxColumnsTypeOK,
       StreamInit, StreamTypeOK, MessageStates, DispatcherInit, DispatcherTypeOK,
       WorkerInit, WorkerTypeOK, WorkerPcs

LEMMA TypeInductive == TypeOK /\ [Next]_vars => TypeOK'
<1> SUFFICES ASSUME TypeOK, [Next]_vars PROVE TypeOK'
  OBVIOUS
<1>1. CASE \E p \in Payments : Accept(p)
  BY <1>1, AcceptTypes
<1>2. CASE OutboxNext /\ UNCHANGED <<workerVars, processorVars, answered>>
  BY <1>2, DispatcherTypes, EnvironmentTypes DEF OutboxNext
<1>3. CASE ProcessingNext /\ UNCHANGED <<dispatcherVars, answered>>
  BY <1>3, WorkerTypes, EnvironmentTypes DEF ProcessingNext
<1>4. CASE UNCHANGED vars
  BY <1>4, UntouchedTypes DEF vars, TypeOK
<1>5. QED
  BY <1>1, <1>2, <1>3, <1>4 DEF Next

\* In every reachable state every row, message, program counter and request has
\* its type, and a dispatcher or worker whose next call needs a row or a
\* delivery has one.
THEOREM TypeCorrect == Spec => []TypeOK
BY TypeInitial, TypeInductive, PTL DEF Spec

-----------------------------------------------------------------------------
(***************************************************************************)
(* The inductive invariant.  The argument has two halves: Lasting, what no *)
(* step ever undoes, and then, for each part of IInv, the few steps that   *)
(* establish the part anew.                                                *)
(***************************************************************************)
\* What every step leaves true, once it is.
Lasting ==
  /\ \A p \in Payments :
       /\ Accepted(p) => Accepted(p)'
       /\ processorAssignment[p] # None => processorAssignment'[p] = processorAssignment[p]
       /\ Completed(p) => Completed(p)' /\ processedByService'[p] = processedByService[p]
       /\ HandedOver(p) => HandedOver(p)'
  /\ \A s \in Services : submitted[s] \subseteq submitted'[s] /\ recorded[s] \subseteq recorded'[s]
  /\ \A m \in Messages : messageState[m] # "unstored" => messageState'[m] # "unstored"

(***************************************************************************)
(* What the statements do to the rows, as IInv sees them                   *)
(***************************************************************************)

\* The four outcomes of a claim, as the worker is told.
LEMMA ClaimOutcomes ==
  ASSUME NEW p \in Payments, NEW s \in Services \cup {None}
  PROVE  /\ ClaimStatus(p, s) = "claimed" => PaymentClaimable(p) /\ AssignmentOr(p, s) # None
         /\ ClaimStatus(p, s) = "completed" => Completed(p)
BY DEF ClaimStatus

\* A claim or a release decides nothing but the assignment, and that only once.
LEMMA ClaimEffects ==
  ASSUME TypeOK, NEW p \in Payments, NEW w \in Workers, NEW s \in Services \cup {None},
         ClaimPaymentRow(p, w, s) \/ ReleasePaymentRow(p, w) \/ UNCHANGED paymentVars
  PROVE  /\ UNCHANGED processedByService
         /\ \A q \in Payments :
              /\ Accepted(q)' <=> Accepted(q)
              /\ Completed(q)' <=> Completed(q)
              /\ processorAssignment[q] # None =>
                   processorAssignment'[q] = processorAssignment[q]
<1> USE DEF TypeOK, StoreTypeOK, PaymentColumnsTypeOK, Accepted, Completed
<1>1. CASE ClaimPaymentRow(p, w, s) /\ ClaimStatus(p, s) = "claimed"
  BY <1>1, ClaimOutcomes DEF ClaimPaymentRow, SetProcessing, PaymentClaimable, AssignmentOr
<1>2. CASE ReleasePaymentRow(p, w) /\ OwnsPayment(p, w)
  BY <1>2 DEF ReleasePaymentRow, SetProcessing, OwnsPayment
<1>3. CASE UNCHANGED paymentVars
  BY <1>3 DEF paymentVars
<1>4. QED
  BY <1>1, <1>2, <1>3 DEF ClaimPaymentRow, ReleasePaymentRow

\* A completion completes p for its assigned Processor or does nothing.
LEMMA CompletionEffects ==
  ASSUME TypeOK, NEW p \in Payments, NEW w \in Workers, NEW s \in Services,
         CompletePaymentRow(p, w, s) \/ UNCHANGED paymentVars
  PROVE  /\ UNCHANGED processorAssignment
         /\ \A q \in Payments :
              /\ Accepted(q)' <=> Accepted(q)
              /\ \/ /\ Completed(q)' <=> Completed(q)
                    /\ processedByService'[q] = processedByService[q]
                 \/ /\ q = p /\ ~Completed(q) /\ Completed(q)'
                    /\ processorAssignment[q] = s
                    /\ processedByService'[q] = s
<1> USE DEF TypeOK, StoreTypeOK, PaymentColumnsTypeOK, Accepted, Completed
<1>1. CASE CompletePaymentRow(p, w, s) /\ MayComplete(p, w, s)
  BY <1>1 DEF CompletePaymentRow, SetProcessing, MayComplete, OwnsPayment
<1>2. CASE UNCHANGED paymentVars
  BY <1>2 DEF paymentVars
<1>3. QED
  BY <1>1, <1>2 DEF CompletePaymentRow

\* The outbox statements never undo a dispatch and dispatch only p, when marked.
LEMMA OutboxEffects ==
  ASSUME TypeOK, NEW p \in Payments, NEW d \in Dispatchers
  PROVE  /\ ClaimOutboxRow(p, d) \/ ReleaseOutboxRow(p, d) =>
              \A q \in Payments :
                /\ outboxState'[q] = "absent" <=> outboxState[q] = "absent"
                /\ outboxState'[q] = "dispatched" <=> outboxState[q] = "dispatched"
         /\ MarkOutboxRowDispatched(p, d) =>
              \A q \in Payments :
                /\ outboxState'[q] = "absent" <=> outboxState[q] = "absent"
                /\ outboxState'[q] = "dispatched" <=>
                     outboxState[q] = "dispatched" \/ (q = p /\ OwnsOutbox(p, d))
<1> USE DEF TypeOK, StoreTypeOK, OutboxColumnsTypeOK, SetOutbox, OwnsOutbox, outboxVars
<1>1. ASSUME ClaimOutboxRow(p, d) \/ ReleaseOutboxRow(p, d), NEW q \in Payments
      PROVE  /\ outboxState'[q] = "absent" <=> outboxState[q] = "absent"
             /\ outboxState'[q] = "dispatched" <=> outboxState[q] = "dispatched"
  BY <1>1 DEF ClaimOutboxRow, OutboxClaimable, ReleaseOutboxRow
<1>2. ASSUME MarkOutboxRowDispatched(p, d), NEW q \in Payments
      PROVE  /\ outboxState'[q] = "absent" <=> outboxState[q] = "absent"
             /\ outboxState'[q] = "dispatched" <=>
                  outboxState[q] = "dispatched" \/ (q = p /\ OwnsOutbox(p, d))
  BY <1>2 DEF MarkOutboxRowDispatched
<1>3. QED
  BY <1>1, <1>2

(***************************************************************************)
(* What the stream's operations do to the messages                         *)
(***************************************************************************)
LEMMA PublicationEffects ==
  ASSUME TypeOK, NEW p \in Payments, StoreMessage(p)
  PROVE  /\ \A m \in Messages :
              \/ messageState'[m] = messageState[m]
              \/ messageState'[m] = "stored" /\ messageState[m] = "unstored" /\ Reference(m) = p
         /\ p \in duplicateIds \/ Queued(p)'
         /\ duplicateIds' = duplicateIds \cup {p}
<1> USE DEF TypeOK, StreamTypeOK
<1>1. CASE p \in duplicateIds
  BY <1>1 DEF StoreMessage
<1>2. CASE p \notin duplicateIds
  <2>1. PICK c \in 1 .. MaxCopies :
          /\ messageState[<<p, c>>] = "unstored"
          /\ messageState' = [messageState EXCEPT ![<<p, c>>] = "stored"]
    BY <1>2 DEF StoreMessage
  <2>2. <<p, c>> \in Messages /\ Reference(<<p, c>>) = p
    BY DEF Messages, Reference
  <2>3. messageState'[<<p, c>>] = "stored"
    BY <2>1, <2>2
  <2>4. Queued(p)'
    BY <2>2, <2>3 DEF Queued, InStream
  <2>5. \A m \in Messages :
          \/ messageState'[m] = messageState[m]
          \/ messageState'[m] = "stored" /\ messageState[m] = "unstored" /\ Reference(m) = p
    BY <2>1, <2>2
  <2>6. QED
    BY <1>2, <2>4, <2>5 DEF StoreMessage
<1>3. QED
  BY <1>1, <1>2

\* Deliveries, naks and timers move a message about in the stream.
LEMMA DeliveryEffects ==
  ASSUME TypeOK, NEW m \in Messages,
         DeliverMessage(m) \/ NakMessage(m) \/ RedeliveryTimer(m)
  PROVE  /\ \A n \in Messages :
              /\ messageState'[n] = "unstored" <=> messageState[n] = "unstored"
              /\ messageState'[n] = "acked" <=> messageState[n] = "acked"
              /\ InStream(n)' <=> InStream(n)
         /\ UNCHANGED <<duplicateIds, late>>
BY DEF TypeOK, StreamTypeOK, DeliverMessage, NakMessage, RedeliveryTimer, InStream,
       AckPendingStates, MessageStates

LEMMA AcknowledgementEffects ==
  ASSUME TypeOK, NEW m \in Messages, AckMessage(m)
  PROVE  /\ messageState'[m] = "acked"
         /\ \A n \in Messages : n # m => messageState'[n] = messageState[n]
         /\ UNCHANGED <<duplicateIds, late>>
BY DEF TypeOK, StreamTypeOK, AckMessage

(***************************************************************************)
(* No step undoes anything of Lasting                                      *)
(***************************************************************************)

\* What lasts of the payment rows.
RowsLast ==
  \A p \in Payments :
    /\ Accepted(p) => Accepted(p)'
    /\ processorAssignment[p] # None => processorAssignment'[p] = processorAssignment[p]
    /\ Completed(p) => Completed(p)' /\ processedByService'[p] = processedByService[p]

\* What lasts of the messages: one leaves the stream when its Payment is completed.
MessagesLast ==
  \A m \in Messages :
    /\ messageState[m] # "unstored" => messageState'[m] # "unstored"
    /\ InStream(m) => InStream(m)' \/ Completed(Reference(m))

RequestsLast ==
  \A s \in Services : submitted[s] \subseteq submitted'[s] /\ recorded[s] \subseteq recorded'[s]

LEMMA PartsLast == RowsLast /\ MessagesLast /\ RequestsLast => Lasting
<1> SUFFICES ASSUME RowsLast, MessagesLast, RequestsLast
             PROVE  \A p \in Payments : HandedOver(p) => HandedOver(p)'
  BY DEF Lasting, RowsLast, MessagesLast, RequestsLast
<1> TAKE p \in Payments
<1>1. CASE Completed(p)
  BY <1>1 DEF HandedOver, RowsLast
<1>2. ASSUME NEW m \in Messages, Reference(m) = p, InStream(m)
      PROVE  HandedOver(p)'
  <2>1. InStream(m)' \/ Completed(Reference(m))
    BY <1>2 DEF MessagesLast
  <2>2. CASE InStream(m)'
    BY <1>2, <2>2 DEF HandedOver, Queued
  <2>3. CASE Completed(Reference(m))
    <3>1. Completed(p)
      BY <1>2, <2>3 DEF Completed
    <3>2. QED
      BY <3>1, <1>1 DEF HandedOver
  <2>4. QED
    BY <2>1, <2>2, <2>3
<1>3. QED
  BY <1>1, <1>2 DEF HandedOver, Queued

LEMMA UntouchedLasts ==
  /\ UNCHANGED paymentVars => RowsLast
  /\ UNCHANGED messageState => MessagesLast
  /\ UNCHANGED processorVars => RequestsLast
<1>1. UNCHANGED paymentVars => RowsLast
  BY DEF paymentVars, RowsLast, Accepted, Completed
<1>2. UNCHANGED messageState => MessagesLast
  BY DEF MessagesLast, InStream
<1>3. UNCHANGED processorVars => RequestsLast
  BY DEF processorVars, RequestsLast
<1>4. QED
  BY <1>1, <1>2, <1>3

LEMMA RowsLastInStep ==
  ASSUME TypeOK, IInv, [Next]_vars
  PROVE  RowsLast
<1>1. CASE \E p \in Payments : Accept(p)
  BY <1>1 DEF Accept, InsertPayment, RowsLast, Accepted, Completed, TypeOK, StoreTypeOK,
              PaymentColumnsTypeOK, storeVars, paymentVars
<1>2. CASE \E p \in Payments : PaymentClaimExpires(p)
  BY <1>2 DEF PaymentClaimExpires, RowsLast, Accepted, Completed
<1>3. ASSUME NEW w \in Workers, ClaimPayment(w) \/ ClaimPaymentFails(w) \/ ReleasePayment(w)
      PROVE  RowsLast
  <2>1. WorkerPayment(w) \in Payments /\ workerService[w] \in Services \cup {None}
    BY <1>3 DEF TypeOK, WorkerTypeOK, WorkerPayment, Reference, Messages, Working,
                ClaimPayment, ClaimPaymentFails, ReleasePayment
  <2>2. \/ ClaimPaymentRow(WorkerPayment(w), w, workerService[w])
        \/ ReleasePaymentRow(WorkerPayment(w), w)
        \/ UNCHANGED paymentVars
    BY <1>3 DEF ClaimPayment, ClaimPaymentFails, ReleasePayment
  <2>3. QED
    BY <2>1, <2>2, ClaimEffects DEF RowsLast
<1>4. ASSUME NEW w \in Workers, CompletePayment(w) \/ CompletePaymentFails(w)
      PROVE  RowsLast
  <2>1. WorkerPayment(w) \in Payments /\ workerService[w] \in Services
    BY <1>4 DEF TypeOK, WorkerTypeOK, WorkerPayment, Reference, Messages, Working, IInv,
                WorkersHoldWork, CompletePayment, CompletePaymentFails
  <2>2. \/ CompletePaymentRow(WorkerPayment(w), w, workerService[w])
        \/ UNCHANGED paymentVars
    BY <1>4 DEF CompletePayment, CompletePaymentFails
  <2>3. QED
    BY <2>1, <2>2, CompletionEffects DEF RowsLast
<1>5. CASE UNCHANGED paymentVars
  BY <1>5, UntouchedLasts
<1>6. QED
  BY <1>1, <1>2, <1>3, <1>4, <1>5
  DEF Next, OutboxNext, DispatcherStep, ClaimOutbox, ClaimOutboxReplyLost, PublishAcked,
      PublishFails, ReleaseOutbox, MarkOutboxDispatched, MarkOutboxFails, StopDispatcher,
      OutboxEnvironment, OutboxClaimExpires, ProcessingNext, WorkerStep, Receive, Select,
      Submit, Confirmed, Unavailable, Retryable, RecordPassiveFailure, Ack, Nak, StopWorker,
      ProcessingEnvironment, DeliveryLost, ProcessorRecords, vars, storeVars

LEMMA MessagesLastInStep ==
  ASSUME TypeOK, IInv, [Next]_vars
  PROVE  MessagesLast
<1>1. ASSUME NEW p \in Payments, StoreMessage(p)
      PROVE  MessagesLast
  BY <1>1, PublicationEffects DEF MessagesLast, InStream, AckPendingStates
<1>2. ASSUME NEW m \in Messages, DeliverMessage(m) \/ NakMessage(m) \/ RedeliveryTimer(m)
      PROVE  MessagesLast
  BY <1>2, DeliveryEffects DEF MessagesLast
<1>3. ASSUME NEW w \in Workers, Ack(w), AckMessage(workerMessage[w])
      PROVE  MessagesLast
  <2>1. workerMessage[w] \in Messages /\ Completed(Reference(workerMessage[w]))
    BY <1>3 DEF TypeOK, WorkerTypeOK, Ack, Working, IInv, WorkersHoldWork, WorkerPayment
  <2>2. QED
    BY <1>3, <2>1, AcknowledgementEffects DEF MessagesLast, InStream
<1>4. ASSUME NEW w \in Workers, Nak(w), NakMessage(workerMessage[w])
      PROVE  MessagesLast
  <2>1. workerMessage[w] \in Messages
    BY <1>4 DEF TypeOK, WorkerTypeOK, Nak, Working
  <2>2. QED
    BY <1>2, <1>4, <2>1
<1>5. ASSUME NEW d \in Dispatchers, PublishAcked(d)
      PROVE  MessagesLast
  <2>1. dispatcherPayment[d] \in Payments
    BY <1>5 DEF TypeOK, DispatcherTypeOK, PublishAcked, Dispatching
  <2>2. QED
    BY <1>1, <1>5, <2>1 DEF PublishAcked
<1>6. CASE UNCHANGED messageState
  BY <1>6, UntouchedLasts
<1>7. QED
  BY <1>1, <1>2, <1>3, <1>4, <1>5, <1>6
  DEF Next, Accept, OutboxNext, DispatcherStep, ClaimOutbox, ClaimOutboxReplyLost,
      PublishFails, ReleaseOutbox, MarkOutboxDispatched, MarkOutboxFails, StopDispatcher,
      OutboxEnvironment, LatePublication, DuplicateWindowPasses, ProcessingNext, WorkerStep,
      Receive, Select, ClaimPayment, ClaimPaymentFails, Submit, Confirmed, Unavailable,
      Retryable, RecordPassiveFailure, ReleasePayment, CompletePayment, CompletePaymentFails,
      Ack, Nak, StopWorker, ProcessingEnvironment, DeliveryLost, ProcessorRecords, vars,
      streamVars

LEMMA StepLasts ==
  ASSUME TypeOK, IInv, [Next]_vars
  PROVE  Lasting
<1>1. RequestsLast
  <2>1. CASE \E w \in Workers : Submit(w)
    BY <2>1 DEF Submit, RequestsLast, TypeOK, WorkerTypeOK
  <2>2. CASE \E s \in Services, p \in Payments : ProcessorRecords(s, p)
    BY <2>2 DEF ProcessorRecords, RequestsLast, TypeOK, WorkerTypeOK
  <2>3. CASE UNCHANGED processorVars
    BY <2>3, UntouchedLasts
  <2>4. QED
    BY <2>1, <2>2, <2>3
    DEF Next, Accept, OutboxNext, ProcessingNext, WorkerStep, Receive, Select, ClaimPayment,
        ClaimPaymentFails, Confirmed, Unavailable, Retryable, RecordPassiveFailure,
        ReleasePayment, CompletePayment, CompletePaymentFails, Ack, Nak, StopWorker,
        ProcessingEnvironment, DeliveryLost, vars
<1>2. QED
  BY <1>1, RowsLastInStep, MessagesLastInStep, PartsLast

(***************************************************************************)
(* Each part of IInv is kept                                               *)
(***************************************************************************)
LEMMA RequestsKept ==
  ASSUME TypeOK, IInv, [Next]_vars
  PROVE  RequestsFollowAssignment'
<1>1. Lasting
  BY StepLasts
<1>2. SUFFICES ASSUME NEW p \in Payments, NEW s \in Services
               PROVE  /\ p \in recorded'[s] => p \in submitted'[s]
                      /\ p \in submitted'[s] => Accepted(p)' /\ processorAssignment'[p] = s
  BY DEF RequestsFollowAssignment
<1>3. p \in submitted[s] => Accepted(p)' /\ processorAssignment'[p] = s
  BY <1>1, DomainAssumption DEF Lasting, IInv, RequestsFollowAssignment
<1>4. p \in recorded[s] => p \in submitted'[s]
  BY <1>1 DEF Lasting, IInv, RequestsFollowAssignment
<1>5. CASE \E w \in Workers : Submit(w)
  <2>1. PICK w \in Workers : Submit(w)
    BY <1>5
  <2>2. /\ workerMessage[w] \in Messages
        /\ WorkerPayment(w) \in Payments
        /\ workerService[w] \in Services
        /\ processorAssignment[WorkerPayment(w)] = workerService[w]
        /\ Accepted(WorkerPayment(w))
    BY <2>1 DEF Submit, Working, TypeOK, WorkerTypeOK, IInv, WorkersHoldWork, ReferencesAreWork,
                WorkerPayment, Reference, Messages
  <2>3. p \in submitted'[s] =>
          p \in submitted[s] \/ (p = WorkerPayment(w) /\ s = workerService[w])
    BY <2>1, <2>2 DEF Submit, TypeOK, WorkerTypeOK
  <2>4. UNCHANGED recorded /\ UNCHANGED paymentVars
    BY <2>1 DEF Submit, storeVars
  <2>5. QED
    BY <1>3, <1>4, <2>2, <2>3, <2>4 DEF paymentVars, Accepted
<1>6. CASE \E t \in Services, q \in Payments : ProcessorRecords(t, q)
  BY <1>3, <1>4, <1>6 DEF ProcessorRecords, TypeOK, WorkerTypeOK
<1>7. CASE UNCHANGED processorVars
  BY <1>3, <1>4, <1>7 DEF processorVars
<1>8. QED
  BY <1>5, <1>6, <1>7
  DEF Next, Accept, OutboxNext, ProcessingNext, WorkerStep, Receive, Select, ClaimPayment,
      ClaimPaymentFails, Confirmed, Unavailable, Retryable, RecordPassiveFailure,
      ReleasePayment, CompletePayment, CompletePaymentFails, Ack, Nak, StopWorker,
      ProcessingEnvironment, DeliveryLost, vars

LEMMA AnswersKept ==
  ASSUME TypeOK, IInv, [Next]_vars
  PROVE  AnswersAreKept'
<1>1. \A p \in answered : Accepted(p)'
  BY StepLasts DEF Lasting, IInv, AnswersAreKept, TypeOK
<1>2. ASSUME NEW p \in Payments, Accept(p)
      PROVE  \A q \in answered' : Accepted(q)'
  <2>1. Accepted(p)'
    BY <1>2 DEF Accept, InsertPayment, Accepted, TypeOK, StoreTypeOK, PaymentColumnsTypeOK,
                storeVars, paymentVars
  <2>2. QED
    BY <1>1, <1>2, <2>1 DEF Accept
<1>3. (\E p \in Payments : Accept(p)) \/ UNCHANGED answered
  BY DEF Next, vars
<1>4. \A q \in answered' : Accepted(q)'
  BY <1>1, <1>2, <1>3
<1>5. QED
  BY <1>4 DEF AnswersAreKept

LEMMA ReferencesKept ==
  ASSUME TypeOK, IInv, [Next]_vars
  PROVE  ReferencesAreWork'
<1>1. Lasting
  BY StepLasts
<1>2. /\ \A m \in Messages : messageState[m] # "unstored" => Accepted(Reference(m))'
      /\ \A m \in Messages : messageState[m] = "acked" => Completed(Reference(m))'
      /\ \A p \in duplicateIds : HandedOver(p)'
      /\ \A p \in late : Accepted(p)'
  BY <1>1 DEF Lasting, IInv, ReferencesAreWork, TypeOK, StreamTypeOK, Messages, Reference
<1>3. ASSUME NEW p \in Payments, Accepted(p), StoreMessage(p), UNCHANGED late
      PROVE  ReferencesAreWork'
  <2>1. Accepted(p)'
    BY <1>1, <1>3 DEF Lasting
  <2>2. HandedOver(p)'
    BY <1>2, <1>3, PublicationEffects DEF HandedOver
  <2>3. QED
    BY <1>2, <1>3, <2>1, <2>2, PublicationEffects DEF ReferencesAreWork, Accepted
<1>4. ASSUME NEW m \in Messages, DeliverMessage(m) \/ NakMessage(m) \/ RedeliveryTimer(m)
      PROVE  ReferencesAreWork'
  BY <1>2, <1>4, DeliveryEffects DEF ReferencesAreWork
<1>5. ASSUME NEW m \in Messages, AckMessage(m), Accepted(Reference(m)), Completed(Reference(m))
      PROVE  ReferencesAreWork'
  <2>1. Accepted(Reference(m))' /\ Completed(Reference(m))'
    BY <1>1, <1>5 DEF Lasting, Messages, Reference
  <2>2. QED
    BY <1>2, <1>5, <2>1, AcknowledgementEffects DEF ReferencesAreWork
<1>6. ASSUME NEW d \in Dispatchers, PublishAcked(d) \/ PublishFails(d)
      PROVE  ReferencesAreWork'
  <2>1. PICK p \in Payments : p = dispatcherPayment[d] /\ Accepted(p)
    BY <1>6 DEF TypeOK, DispatcherTypeOK, IInv, DispatchersHoldWork, PublishAcked, PublishFails,
                Dispatching
  <2>2. CASE PublishAcked(d)
    BY <1>3, <2>1, <2>2 DEF PublishAcked
  <2>3. CASE PublishFails(d)
    <3>1. Accepted(p)'
      BY <1>1, <2>1 DEF Lasting
    <3>2. /\ late' = late \/ late' = late \cup {p}
          /\ UNCHANGED <<messageState, duplicateIds>>
      BY <2>1, <2>3 DEF PublishFails
    <3>3. QED
      BY <1>2, <3>1, <3>2 DEF ReferencesAreWork
  <2>4. QED
    BY <1>6, <2>2, <2>3
<1>7. ASSUME NEW w \in Workers, Ack(w) \/ Nak(w)
      PROVE  ReferencesAreWork'
  <2>1. workerMessage[w] \in Messages
    BY <1>7 DEF TypeOK, WorkerTypeOK, Ack, Nak, Working
  <2>2. CASE UNCHANGED streamVars
    BY <1>2, <2>2 DEF streamVars, ReferencesAreWork
  <2>3. CASE Nak(w) /\ NakMessage(workerMessage[w])
    BY <1>4, <2>1, <2>3
  <2>4. CASE Ack(w) /\ AckMessage(workerMessage[w])
    <3>1. Accepted(Reference(workerMessage[w])) /\ Completed(Reference(workerMessage[w]))
      BY <2>4 DEF Ack, Working, IInv, WorkersHoldWork, WorkerPayment, Accepted, Completed
    <3>2. QED
      BY <1>5, <2>1, <2>4, <3>1
  <2>5. QED
    BY <1>7, <2>2, <2>3, <2>4 DEF Ack, Nak
<1>8. CASE \E p \in Payments : LatePublication(p) \/ DuplicateWindowPasses(p)
  <2>1. PICK p \in Payments : LatePublication(p) \/ DuplicateWindowPasses(p)
    BY <1>8
  <2>2. CASE LatePublication(p)
    BY <1>3, <2>2 DEF LatePublication, IInv, ReferencesAreWork
  <2>3. CASE DuplicateWindowPasses(p)
    BY <1>2, <2>3 DEF DuplicateWindowPasses, ReferencesAreWork
  <2>4. QED
    BY <2>1, <2>2, <2>3
<1>9. CASE UNCHANGED streamVars
  BY <1>2, <1>9 DEF streamVars, ReferencesAreWork
<1>10. QED
  BY <1>4, <1>6, <1>7, <1>8, <1>9
  DEF Next, Accept, OutboxNext, DispatcherStep, ClaimOutbox, ClaimOutboxReplyLost,
      ReleaseOutbox, MarkOutboxDispatched, MarkOutboxFails, StopDispatcher,
      OutboxEnvironment, ProcessingNext, WorkerStep,
      Receive, Select, ClaimPayment, ClaimPaymentFails, Submit, Confirmed, Unavailable,
      Retryable, RecordPassiveFailure, ReleasePayment, CompletePayment, CompletePaymentFails,
      StopWorker, ProcessingEnvironment, DeliveryLost, ProcessorRecords, vars

LEMMA DispatchersKept ==
  ASSUME TypeOK, IInv, [Next]_vars
  PROVE  DispatchersHoldWork'
<1>1. Lasting
  BY StepLasts
<1>2. SUFFICES ASSUME NEW d \in Dispatchers
               PROVE  /\ dispatcherPc'[d] \in {"publish", "release", "mark"} =>
                           Accepted(dispatcherPayment[d])'
                      /\ dispatcherPc'[d] = "mark" => HandedOver(dispatcherPayment[d])'
  BY DEF DispatchersHoldWork
<1>3. ASSUME NEW p \in Payments, dispatcherPayment'[d] = p, Accepted(p)
      PROVE  Accepted(dispatcherPayment[d])'
  BY <1>1, <1>3 DEF Lasting, Accepted
<1>4. ASSUME NEW p \in Payments, dispatcherPayment'[d] = p, HandedOver(p) \/ Queued(p)'
      PROVE  HandedOver(dispatcherPayment[d])'
  <2>1. HandedOver(p)'
    BY <1>1, <1>4 DEF Lasting, HandedOver
  <2>2. QED
    BY <1>4, <2>1 DEF HandedOver, Queued, Completed
<1>5. CASE dispatcherPc'[d] \in {"claim", "stopped"}
  BY <1>5
<1>6. CASE dispatcherPc'[d] = dispatcherPc[d] /\ dispatcherPayment'[d] = dispatcherPayment[d]
  BY <1>3, <1>4, <1>6 DEF IInv, DispatchersHoldWork, TypeOK, DispatcherTypeOK
<1>7. CASE ClaimOutbox(d)
  <2>1. PICK p \in Payments : /\ ClaimOutboxRow(p, d)
                              /\ dispatcherPayment'[d] = p
                              /\ dispatcherPc'[d] = "publish"
    BY <1>7 DEF ClaimOutbox, Dispatching, TypeOK, DispatcherTypeOK
  <2>2. Accepted(p)
    BY <2>1 DEF ClaimOutboxRow, OutboxClaimable, IInv, RowsAgree
  <2>3. QED
    BY <1>3, <2>1, <2>2
<1>8. CASE PublishAcked(d) \/ PublishFails(d)
  <2>1. PICK p \in Payments : /\ p = dispatcherPayment[d]
                              /\ dispatcherPayment'[d] = p
                              /\ Accepted(p)
    BY <1>8 DEF TypeOK, DispatcherTypeOK, IInv, DispatchersHoldWork, PublishAcked, PublishFails,
                Dispatching, KeepPayment
  <2>2. Accepted(dispatcherPayment[d])'
    BY <1>3, <2>1
  <2>3. CASE PublishAcked(d)
    <3>1. HandedOver(p) \/ Queued(p)'
      BY <2>1, <2>3, PublicationEffects DEF PublishAcked, IInv, ReferencesAreWork
    <3>2. QED
      BY <1>4, <2>1, <2>2, <3>1
  <2>4. CASE PublishFails(d)
    BY <2>2, <2>4 DEF PublishFails, Dispatching, TypeOK, DispatcherTypeOK
  <2>5. QED
    BY <1>8, <2>3, <2>4
<1>9. QED
  <2>1. CASE \E e \in Dispatchers : DispatcherStep(e)
    <3>1. PICK e \in Dispatchers : DispatcherStep(e)
      BY <2>1
    <3>2. CASE e = d
      BY <3>1, <3>2, <1>5, <1>6, <1>7, <1>8
      DEF DispatcherStep, ClaimOutboxReplyLost, ReleaseOutbox, MarkOutboxDispatched,
          MarkOutboxFails, StopDispatcher, Dispatching, dispatcherVars, TypeOK,
          DispatcherTypeOK
    <3>3. CASE e # d
      BY <3>1, <3>3, <1>6
      DEF DispatcherStep, ClaimOutbox, ClaimOutboxReplyLost, PublishAcked, PublishFails,
          ReleaseOutbox, MarkOutboxDispatched, MarkOutboxFails, StopDispatcher, Dispatching,
          KeepPayment, DropPayment, dispatcherVars, TypeOK, DispatcherTypeOK
    <3>4. QED
      BY <3>2, <3>3
  <2>2. CASE UNCHANGED dispatcherVars
    BY <1>6, <2>2 DEF dispatcherVars
  <2>3. QED
    BY <2>1, <2>2 DEF Next, Accept, OutboxNext, ProcessingNext, vars

LEMMA RowsKept ==
  ASSUME TypeOK, IInv, [Next]_vars
  PROVE  RowsAgree'
<1>1. Lasting
  BY StepLasts
<1> DEFINE SameOutbox == \A p \in Payments :
             /\ outboxState'[p] = "absent" <=> outboxState[p] = "absent"
             /\ outboxState'[p] = "dispatched" <=> outboxState[p] = "dispatched"
           SameDecision == \A p \in Payments :
             /\ Accepted(p)' <=> Accepted(p)
             /\ Completed(p)' <=> Completed(p)
             /\ processedByService'[p] = processedByService[p]
             /\ Completed(p) => processorAssignment'[p] = processorAssignment[p]
           CountedRight == \A p \in Payments :
             /\ Completed(p)' => /\ processedByService'[p] \in Services
                                 /\ processedByService'[p] = processorAssignment'[p]
                                 /\ p \in recorded'[processedByService'[p]]
             /\ ~Completed(p)' => processedByService'[p] = None
<1>2. SameDecision => CountedRight
  BY <1>1 DEF Lasting, IInv, RowsAgree
<1>3. SameOutbox /\ SameDecision => RowsAgree'
  BY <1>1, <1>2 DEF Lasting, IInv, RowsAgree
<1>4. UNCHANGED paymentVars => SameDecision
  BY DEF paymentVars, Accepted, Completed
<1>5. UNCHANGED outboxVars => SameOutbox
  BY DEF outboxVars
<1>6. CASE UNCHANGED storeVars
  BY <1>3, <1>4, <1>5, <1>6 DEF storeVars
<1>7. CASE \E p \in Payments : Accept(p) /\ ~Accepted(p)
  <2>1. PICK p \in Payments : Accept(p) /\ ~Accepted(p)
    BY <1>7
  <2>2. /\ processingState' = [processingState EXCEPT ![p] = "pending"]
        /\ outboxState' = [outboxState EXCEPT ![p] = "pending"]
        /\ UNCHANGED <<processedByService, processorAssignment>>
    BY <2>1 DEF Accept, InsertPayment
  <2>3. \A q \in Payments :
          /\ Accepted(q)' <=> outboxState'[q] # "absent"
          /\ Completed(q)' <=> Completed(q)
          /\ outboxState'[q] = "dispatched" => outboxState[q] = "dispatched"
    BY <2>1, <2>2 DEF Accepted, Completed, TypeOK, StoreTypeOK, PaymentColumnsTypeOK,
                      OutboxColumnsTypeOK, IInv, RowsAgree
  <2>4. CountedRight
    BY <1>1, <2>2, <2>3 DEF Lasting, IInv, RowsAgree
  <2>5. QED
    BY <1>1, <2>3, <2>4 DEF Lasting, IInv, RowsAgree
<1>8. ASSUME NEW p \in Payments, NEW d \in Dispatchers, UNCHANGED paymentVars,
             ClaimOutboxRow(p, d) \/ ReleaseOutboxRow(p, d)
      PROVE  RowsAgree'
  BY <1>3, <1>4, <1>8, OutboxEffects
<1>9. ASSUME NEW d \in Dispatchers, ReleaseOutbox(d)
      PROVE  RowsAgree'
  <2>1. dispatcherPayment[d] \in Payments
    BY <1>9 DEF ReleaseOutbox, Dispatching, TypeOK, DispatcherTypeOK
  <2>2. QED
    BY <1>6, <1>8, <1>9, <2>1 DEF ReleaseOutbox, storeVars
<1>10. ASSUME NEW d \in Dispatchers, MarkOutboxDispatched(d)
       PROVE  RowsAgree'
  <2>1. PICK p \in Payments : p = dispatcherPayment[d] /\ HandedOver(p)
    BY <1>10 DEF MarkOutboxDispatched, Dispatching, TypeOK, DispatcherTypeOK, IInv,
                 DispatchersHoldWork
  <2>2. UNCHANGED paymentVars /\ MarkOutboxRowDispatched(p, d)
    BY <1>10, <2>1 DEF MarkOutboxDispatched
  <2>3. \A q \in Payments :
          /\ outboxState'[q] = "absent" <=> outboxState[q] = "absent"
          /\ outboxState'[q] = "dispatched" => outboxState[q] = "dispatched" \/ q = p
    BY <2>2, OutboxEffects
  <2>4. SameDecision
    BY <1>4, <2>2
  <2>5. QED
    BY <1>1, <1>2, <2>1, <2>3, <2>4 DEF Lasting, IInv, RowsAgree
<1>11. ASSUME NEW w \in Workers, ClaimPayment(w) \/ ClaimPaymentFails(w) \/ ReleasePayment(w)
       PROVE  RowsAgree'
  <2>1. WorkerPayment(w) \in Payments /\ workerService[w] \in Services \cup {None}
    BY <1>11 DEF TypeOK, WorkerTypeOK, WorkerPayment, Reference, Messages, Working,
                 ClaimPayment, ClaimPaymentFails, ReleasePayment
  <2>2. /\ \/ ClaimPaymentRow(WorkerPayment(w), w, workerService[w])
           \/ ReleasePaymentRow(WorkerPayment(w), w)
           \/ UNCHANGED paymentVars
        /\ UNCHANGED outboxVars
    BY <1>11 DEF ClaimPayment, ClaimPaymentFails, ReleasePayment
  <2>3. SameDecision
    BY <2>1, <2>2, ClaimEffects, DomainAssumption DEF IInv, RowsAgree
  <2>4. QED
    BY <1>3, <1>5, <2>2, <2>3
<1>12. ASSUME NEW w \in Workers, CompletePayment(w) \/ CompletePaymentFails(w)
       PROVE  RowsAgree'
  <2>1. /\ WorkerPayment(w) \in Payments
        /\ workerService[w] \in Services
        /\ WorkerPayment(w) \in recorded[workerService[w]]
    BY <1>12 DEF TypeOK, WorkerTypeOK, WorkerPayment, Reference, Messages, Working, IInv,
                 WorkersHoldWork, CompletePayment, CompletePaymentFails
  <2>2. /\ \/ CompletePaymentRow(WorkerPayment(w), w, workerService[w])
           \/ UNCHANGED paymentVars
        /\ UNCHANGED outboxVars /\ UNCHANGED recorded
    BY <1>12 DEF CompletePayment, CompletePaymentFails, processorVars
  <2>3. /\ \A q \in Payments : Accepted(q)' <=> Accepted(q)
        /\ CountedRight
    BY <2>1, <2>2, CompletionEffects DEF IInv, RowsAgree
  <2>4. QED
    BY <1>1, <1>5, <2>2, <2>3 DEF Lasting, IInv, RowsAgree
<1>13. CASE \E p \in Payments : PaymentClaimExpires(p) \/ OutboxClaimExpires(p)
  <2>1. SameDecision /\ SameOutbox
    BY <1>4, <1>5, <1>13 DEF PaymentClaimExpires, OutboxClaimExpires, Accepted, Completed
  <2>2. QED
    BY <1>3, <2>1
<1>14. QED
  BY <1>6, <1>7, <1>8, <1>9, <1>10, <1>11, <1>12, <1>13
  DEF Next, Accept, InsertPayment, OutboxNext, DispatcherStep, ClaimOutbox,
      ClaimOutboxReplyLost, PublishAcked, PublishFails, MarkOutboxFails, StopDispatcher,
      OutboxEnvironment, LatePublication, ProcessingNext, WorkerStep, Receive, Select,
      Submit, Confirmed, Unavailable, Retryable, RecordPassiveFailure, Ack, Nak,
      StopWorker, ProcessingEnvironment, DeliveryLost, ProcessorRecords, vars

LEMMA WorkersKept ==
  ASSUME TypeOK, IInv, [Next]_vars
  PROVE  WorkersHoldWork'
<1>1. Lasting
  BY StepLasts
<1> DEFINE Kept(w) ==
      /\ workerPc[w] \notin {"receive", "stopped"} => messageState[workerMessage[w]] # "unstored"
      /\ workerPc[w] \in {"submit", "await", "passive", "release", "complete"} =>
           /\ workerService[w] \in Services
           /\ workerService[w] = processorAssignment[WorkerPayment(w)]
      /\ workerPc[w] = "complete" => WorkerPayment(w) \in recorded[workerService[w]]
      /\ workerPc[w] = "ack" => Completed(WorkerPayment(w))
<1>2. SUFFICES ASSUME NEW w \in Workers PROVE Kept(w)'
  BY DEF WorkersHoldWork
\* A step that leaves w alone, or moves it to a call that needs no more.
<1>3. ASSUME workerMessage'[w] = workerMessage[w], workerService'[w] = workerService[w],
             \/ workerPc'[w] = workerPc[w]
             \/ workerPc[w] = "submit" /\ workerPc'[w] = "await"
             \/ workerPc[w] = "await" /\ workerPc'[w] \in {"passive", "release"}
             \/ workerPc[w] = "passive" /\ workerPc'[w] = "release"
             \/ workerPc[w] \notin {"receive", "stopped"} /\ workerPc'[w] = "nak"
      PROVE  Kept(w)'
  <2>1. CASE workerPc[w] \in {"receive", "stopped"}
    BY <1>3, <2>1
  <2>2. CASE workerPc[w] \notin {"receive", "stopped"}
    <3>1. PICK m \in Messages : m = workerMessage[w]
      BY <2>2 DEF TypeOK, WorkerTypeOK
    <3>2. PICK p \in Payments : p = Reference(m)
      BY DEF Messages, Reference
    <3>3. Kept(w)
      BY DEF IInv, WorkersHoldWork
    <3>4. messageState'[m] # "unstored"
      BY <1>1, <2>2, <3>1, <3>3 DEF Lasting
    <3>5. workerPc'[w] \in {"submit", "await", "passive", "release", "complete"} =>
            /\ workerService[w] \in Services
            /\ workerService[w] = processorAssignment'[p]
      BY <1>1, <1>3, <3>1, <3>2, <3>3, DomainAssumption DEF Lasting, WorkerPayment
    <3>6. workerPc'[w] = "complete" => p \in recorded'[workerService[w]]
      BY <1>1, <1>3, <3>1, <3>2, <3>3 DEF Lasting, WorkerPayment
    <3>7. workerPc'[w] = "ack" => Completed(p)'
      BY <1>1, <1>3, <3>1, <3>2, <3>3 DEF Lasting, WorkerPayment, Completed
    <3>8. QED
      BY <1>3, <3>1, <3>2, <3>4, <3>5, <3>6, <3>7 DEF WorkerPayment, Completed
  <2>3. QED
    BY <2>1, <2>2
<1>4. CASE workerPc'[w] \in {"receive", "stopped"}
  BY <1>4
<1>5. CASE \E m \in Messages : Receive(w, m)
  <2>1. PICK m \in Messages : Receive(w, m)
    BY <1>5
  <2>2. workerPc'[w] = "select" /\ workerMessage'[w] = m
    BY <2>1 DEF Receive, Working, TypeOK, WorkerTypeOK
  <2>3. messageState'[m] # "unstored"
    BY <2>1 DEF Receive, DeliverMessage, TypeOK, StreamTypeOK
  <2>4. QED
    BY <2>2, <2>3
<1>6. ASSUME workerPc[w] \notin {"receive", "stopped"}, workerMessage'[w] = workerMessage[w],
             workerPc'[w] \in {"claim", "nak"}
      PROVE  Kept(w)'
  <2>1. workerMessage[w] \in Messages /\ messageState[workerMessage[w]] # "unstored"
    BY <1>6 DEF TypeOK, WorkerTypeOK, IInv, WorkersHoldWork
  <2>2. QED
    BY <1>1, <1>6, <2>1 DEF Lasting
<1>7. CASE ClaimPayment(w)
  <2>1. PICK m \in Messages, p \in Payments :
          m = workerMessage[w] /\ p = Reference(m) /\ messageState[m] # "unstored"
    BY <1>7 DEF ClaimPayment, Working, TypeOK, WorkerTypeOK, Messages, Reference, IInv,
                WorkersHoldWork
  <2> DEFINE s == workerService[w]
  <2>2. /\ ClaimPaymentRow(p, w, s)
        /\ workerPc'[w] = AfterClaim(ClaimStatus(p, s))
        /\ workerService'[w] = AssignmentOr(p, s)
        /\ workerMessage'[w] = m
        /\ s \in Services \cup {None}
    BY <1>7, <2>1 DEF ClaimPayment, Working, TypeOK, WorkerTypeOK, WorkerPayment
  <2>3. messageState'[m] # "unstored"
    BY <1>1, <2>1 DEF Lasting
  <2>4. CASE ClaimStatus(p, s) = "claimed"
    <3>1. workerPc'[w] = "submit"
      BY <2>2, <2>4 DEF AfterClaim
    <3>2. AssignmentOr(p, s) \in Services /\ processorAssignment'[p] = AssignmentOr(p, s)
      BY <2>2, <2>4, ClaimOutcomes DEF ClaimPaymentRow, AssignmentOr, TypeOK, StoreTypeOK,
                                        PaymentColumnsTypeOK
    <3>3. QED
      BY <2>1, <2>2, <2>3, <3>1, <3>2 DEF WorkerPayment
  <2>5. CASE ClaimStatus(p, s) = "completed"
    <3>1. workerPc'[w] = "ack"
      BY <2>2, <2>5 DEF AfterClaim
    <3>2. Completed(p)'
      BY <1>1, <2>2, <2>5, ClaimOutcomes DEF Lasting
    <3>3. QED
      BY <2>1, <2>2, <2>3, <3>1, <3>2 DEF WorkerPayment, Completed
  <2>6. CASE ClaimStatus(p, s) \notin {"claimed", "completed"}
    <3>1. workerPc'[w] = "nak"
      BY <2>2, <2>6 DEF AfterClaim
    <3>2. QED
      BY <2>2, <2>3, <3>1
  <2>7. QED
    BY <2>4, <2>5, <2>6
<1>8. CASE Confirmed(w) \/ CompletePayment(w)
  <2>1. PICK m \in Messages, p \in Payments :
          m = workerMessage[w] /\ p = Reference(m) /\ messageState[m] # "unstored"
    BY <1>8 DEF Confirmed, CompletePayment, Working, TypeOK, WorkerTypeOK, Messages, Reference,
                IInv, WorkersHoldWork
  <2>2. workerMessage'[w] = m /\ workerService'[w] = workerService[w]
    BY <1>8, <2>1 DEF Confirmed, CompletePayment, Holding
  <2>3. messageState'[m] # "unstored"
    BY <1>1, <2>1 DEF Lasting
  <2>4. CASE Confirmed(w)
    <3>1. workerPc[w] = "await" /\ workerPc'[w] = "complete"
      BY <2>4 DEF Confirmed, Working, TypeOK, WorkerTypeOK
    <3>2. workerService[w] \in Services /\ workerService[w] = processorAssignment[p]
      BY <2>1, <3>1 DEF IInv, WorkersHoldWork, WorkerPayment
    <3>3. p \in recorded'[workerService[w]] /\ processorAssignment'[p] = processorAssignment[p]
      BY <2>1, <2>4 DEF Confirmed, WorkerPayment, processorVars, storeVars, paymentVars
    <3>4. QED
      BY <2>1, <2>2, <2>3, <3>1, <3>2, <3>3 DEF WorkerPayment
  <2>5. CASE CompletePayment(w) /\ MayComplete(p, w, workerService[w])
    <3>1. workerPc'[w] = "ack"
      BY <2>1, <2>5 DEF CompletePayment, Working, TypeOK, WorkerTypeOK, WorkerPayment
    <3>2. Completed(p)'
      BY <2>1, <2>5 DEF CompletePayment, CompletePaymentRow, SetProcessing, WorkerPayment,
                        Completed, TypeOK, StoreTypeOK, PaymentColumnsTypeOK
    <3>3. QED
      BY <2>1, <2>2, <2>3, <3>1, <3>2 DEF WorkerPayment, Completed
  <2>6. CASE CompletePayment(w) /\ ~MayComplete(p, w, workerService[w])
    <3>1. workerPc'[w] = "nak"
      BY <2>1, <2>6 DEF CompletePayment, Working, TypeOK, WorkerTypeOK, WorkerPayment
    <3>2. QED
      BY <2>2, <2>3, <3>1
  <2>7. QED
    BY <1>8, <2>4, <2>5, <2>6
<1>9. CASE \E v \in Workers : v # w /\ WorkerStep(v)
  <2>1. /\ workerMessage'[w] = workerMessage[w]
        /\ workerService'[w] = workerService[w]
        /\ workerPc'[w] = workerPc[w]
    BY <1>9 DEF TypeOK, WorkerTypeOK, WorkerStep, Working, Holding, Drop, workerVars, Receive,
       Select, ClaimPayment, ClaimPaymentFails, Submit, Confirmed, Unavailable, Retryable,
       RecordPassiveFailure, ReleasePayment, CompletePayment, CompletePaymentFails, Ack, Nak,
       StopWorker
  <2>2. QED
    BY <1>3, <2>1
<1>10. CASE WorkerStep(w)
  <2>1. CASE Submit(w) \/ Unavailable(w) \/ Retryable(w) \/ RecordPassiveFailure(w)
    BY <1>3, <2>1 DEF Submit, Unavailable, Retryable, RecordPassiveFailure, Working, Holding,
                      TypeOK, WorkerTypeOK
  <2>2. CASE \/ \E s \in Services \cup {None} : Select(w, s)
             \/ ClaimPaymentFails(w) \/ ReleasePayment(w) \/ CompletePaymentFails(w)
    BY <1>6, <2>2 DEF Select, ClaimPaymentFails, ReleasePayment, CompletePaymentFails, Working,
                      Holding, TypeOK, WorkerTypeOK
  <2>3. CASE Ack(w) \/ Nak(w) \/ StopWorker(w)
    BY <1>4, <2>3 DEF Ack, Nak, StopWorker, Working, TypeOK, WorkerTypeOK
  <2>4. QED
    BY <1>5, <1>7, <1>8, <1>10, <2>1, <2>2, <2>3 DEF WorkerStep
<1>11. CASE UNCHANGED workerVars
  BY <1>3, <1>11 DEF workerVars
<1>12. QED
  BY <1>9, <1>10, <1>11
  DEF Next, Accept, OutboxNext, ProcessingNext, ProcessingEnvironment, DeliveryLost,
      ProcessorRecords, vars

(***************************************************************************)
(* The invariant, and what it is for                                       *)
(***************************************************************************)
LEMMA InvariantInitial == Init => IInv
BY DEF Init, IInv, StoreInit, StreamInit, DispatcherInit, WorkerInit, RowsAgree,
       RequestsFollowAssignment, ReferencesAreWork, DispatchersHoldWork, WorkersHoldWork,
       AnswersAreKept, Accepted, Completed, InStream

LEMMA InvariantInductive == TypeOK /\ IInv /\ [Next]_vars => IInv'
BY RowsKept, RequestsKept, ReferencesKept, DispatchersKept, WorkersKept, AnswersKept DEF IInv

\* Rows, stream, requests and program counters agree in every reachable state,
\* for every number of Payments, workers and dispatchers.
THEOREM InvariantHolds == Spec => []IInv
BY InvariantInitial, InvariantInductive, TypeCorrect, PTL DEF Spec

LEMMA InvariantSuffices ==
  ASSUME TypeOK, IInv
  PROVE  NoLostWork /\ OneProcessor /\ CompletedIsRecorded /\ RemovedIsCompleted
         /\ WorkersFollowAssignment
<1>1. NoLostWork
  <2>1. \A p \in Payments : Accepted(p) =>
          outboxState[p] \in {"pending", "dispatching"} \/ HandedOver(p)
    BY DEF IInv, RowsAgree, TypeOK, StoreTypeOK, OutboxColumnsTypeOK
  <2>2. QED
    BY <2>1 DEF NoLostWork, HandedOver, IInv, AnswersAreKept
<1>2. OneProcessor
  BY DEF OneProcessor, IInv, RequestsFollowAssignment
<1>3. CompletedIsRecorded
  BY DEF CompletedIsRecorded, IInv, RowsAgree
<1>4. RemovedIsCompleted
  BY DEF RemovedIsCompleted, IInv, ReferencesAreWork
<1>5. WorkersFollowAssignment
  BY DEF WorkersFollowAssignment, IInv, WorkersHoldWork
<1>6. QED
  BY <1>1, <1>2, <1>3, <1>4, <1>5

\* An accepted Payment is never lost between outbox, stream and Processor.
THEOREM NeverLost == Spec => []NoLostWork
BY TypeCorrect, InvariantHolds, InvariantSuffices, PTL

\* No Payment is ever sent to two different Processors.
THEOREM AlwaysOneProcessor == Spec => []OneProcessor
BY TypeCorrect, InvariantHolds, InvariantSuffices, PTL

\* The audit counts only what the assigned Processor has recorded.
THEOREM AuditIsTrue == Spec => []CompletedIsRecorded
BY TypeCorrect, InvariantHolds, InvariantSuffices, PTL

\* The stream removes a reference only after durable completion.
THEOREM RemovalFollowsCompletion == Spec => []RemovedIsCompleted
BY TypeCorrect, InvariantHolds, InvariantSuffices, PTL

\* A stale worker still acts on the assignment that was retained.
THEOREM StaleWorkersAgree == Spec => []WorkersFollowAssignment
BY TypeCorrect, InvariantHolds, InvariantSuffices, PTL
=============================================================================
