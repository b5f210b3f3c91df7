---------------------------- MODULE PaymentSystem ----------------------------
(***************************************************************************)
(* The whole path of a Payment through every instance of the program:      *)
(* POST /payments accepts it (intake, acceptance, Store.Accept), a         *)
(* dispatcher hands its reference to the stream (Outbox), a worker takes   *)
(* it to its Processor and completes it (Processing).  The two components  *)
(* share only the database rows and the stream.                            *)
(***************************************************************************)
EXTENDS Outbox, Processing

VARIABLE answered   \* Payments some client has been answered 202 Accepted for

vars == <<storeVars, streamVars, dispatcherVars, workerVars, processorVars, answered>>

TypeOK ==
  /\ StoreTypeOK
  /\ StreamTypeOK
  /\ DispatcherTypeOK
  /\ WorkerTypeOK
  /\ answered \in SUBSET Payments

Init ==
  /\ StoreInit
  /\ StreamInit
  /\ DispatcherInit
  /\ WorkerInit
  /\ answered = {}

\* A valid POST /payments: the transaction commits and is answered 202, or
\* its commit is reported as an error (500) although it took effect.
Accept(p) ==
  /\ InsertPayment(p)
  /\ \/ answered' = answered \cup {p}
     \/ UNCHANGED answered
  /\ UNCHANGED <<streamVars, dispatcherVars, workerVars, processorVars>>

Next ==
  \/ \E p \in Payments : Accept(p)
  \/ OutboxNext /\ UNCHANGED <<workerVars, processorVars, answered>>
  \/ ProcessingNext /\ UNCHANGED <<dispatcherVars, answered>>

Spec == Init /\ [][Next]_vars

-----------------------------------------------------------------------------
(***************************************************************************)
(* Safety                                                                  *)
(***************************************************************************)

\* Some copy of p's reference is in the stream.
Queued(p) == \E m \in Messages : Reference(m) = p /\ InStream(m)

\* A Payment answered 202 is never lost on its way: it is recorded, and until
\* it is completed it is either still due for dispatch in the outbox or its
\* reference is in the stream, whatever stops, fails, expires or is repeated.
NoLostWork ==
  \A p \in Payments :
    /\ p \in answered => Accepted(p)
    /\ Accepted(p) => \/ Completed(p)
                      \/ Queued(p)
                      \/ outboxState[p] \in {"pending", "dispatching"}

\* An ambiguous attempt is never routed differently on retry: no two
\* Processors are ever sent the same Payment (ClaimPayment's COALESCE).
OneProcessor ==
  \A p \in Payments : \A s, t \in Services :
    p \in submitted[s] /\ p \in submitted[t] => s = t

\* The audit never counts a Payment its Processor has not recorded: a
\* completed row names the assigned Processor, and that Processor has it.
CompletedIsRecorded ==
  \A p \in Payments :
    Completed(p) => /\ processedByService[p] \in Services
                    /\ processedByService[p] = processorAssignment[p]
                    /\ p \in recorded[processedByService[p]]

\* "A delivery is acknowledged only by the processing lifecycle after durable
\* terminal completion" (nats.go): the stream drops only completed Payments.
RemovedIsCompleted ==
  \A m \in Messages : messageState[m] = "acked" => Completed(Reference(m))

\* A worker goes on to its Processor with the assignment the row retains, also
\* after its own lease has passed to another worker.
WorkersFollowAssignment ==
  \A w \in Workers :
    workerPc[w] \in {"submit", "await", "passive", "release", "complete"} =>
      workerService[w] = processorAssignment[WorkerPayment(w)]

(***************************************************************************)
(* Action properties                                                       *)
(***************************************************************************)

\* A live payment lease ends only by its holder's own release or completion:
\* a worker whose lease expired and was retaken cannot end the newer one.
OnlyHolderEndsLease ==
  [][\A p \in Payments, w \in Workers :
       /\ OwnsPayment(p, w)
       /\ ~processingClaimExpired[p]
       /\ ~OwnsPayment(p, w)'
       => /\ workerPc[w] \in {"release", "complete"}
          /\ WorkerPayment(w) = p
          /\ workerPc'[w] # workerPc[w]]_vars

\* The same of an outbox claim and its dispatcher.
OnlyHolderEndsOutboxClaim ==
  [][\A p \in Payments, d \in Dispatchers :
       /\ OwnsOutbox(p, d)
       /\ ~outboxClaimExpired[p]
       /\ ~OwnsOutbox(p, d)'
       => /\ dispatcherPc[d] \in {"release", "mark"}
          /\ dispatcherPayment[d] = p
          /\ dispatcherPc'[d] # dispatcherPc[d]]_vars

\* What has been decided about a Payment stays decided, duplicates of the
\* request included: the assignment, the completion and who confirmed it, and
\* the dispatch ("creates neither another Payment nor more work").
DecisionsAreFinal ==
  [][\A p \in Payments :
       /\ processorAssignment[p] # None => processorAssignment'[p] = processorAssignment[p]
       /\ Completed(p) => Completed(p)' /\ processedByService'[p] = processedByService[p]
       /\ outboxState[p] = "dispatched" => outboxState'[p] = "dispatched"]_vars

(***************************************************************************)
(* The system implements PaymentLifecycle: what the rows and the           *)
(* Processors hold is all that its callers can tell.                       *)
(***************************************************************************)
Lifecycle == INSTANCE PaymentLifecycle WITH
  accepted    <- {p \in Payments : Accepted(p)},
  chargedBy   <- [p \in Payments |-> {s \in Services : p \in recorded[s]}],
  processedBy <- processedByService

\* Every behaviour of the system is one of PaymentLifecycle: no interleaving of
\* workers, leases, redeliveries and late requests charges a Payment twice with
\* different Processors, counts it before it is charged, or counts it again.
ImplementsLifecycle == Lifecycle!LifecycleSpec
=============================================================================
