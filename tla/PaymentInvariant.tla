-------------------------- MODULE PaymentInvariant --------------------------
(***************************************************************************)
(* The inductive invariant behind the safety properties of PaymentSystem:  *)
(* what the rows, the stream, the requests and the program counters of     *)
(* dispatchers and workers say about each other in every state.            *)
(***************************************************************************)
EXTENDS PaymentSystem

\* p needs no further dispatch.
HandedOver(p) == Completed(p) \/ Queued(p)

\* Both rows appear together; a processor is recorded with the completion only.
RowsAgree ==
  \A p \in Payments :
    /\ Accepted(p) <=> outboxState[p] # "absent"
    /\ Completed(p) => /\ processedByService[p] \in Services
                       /\ processedByService[p] = processorAssignment[p]
                       /\ p \in recorded[processedByService[p]]
    /\ ~Completed(p) => processedByService[p] = None
    /\ outboxState[p] = "dispatched" => HandedOver(p)

\* Requests went to the assigned Processor only, of accepted Payments only.
RequestsFollowAssignment ==
  \A p \in Payments : \A s \in Services :
    /\ p \in recorded[s] => p \in submitted[s]
    /\ p \in submitted[s] => Accepted(p) /\ processorAssignment[p] = s

\* The stream refers to accepted Payments and has dropped none too early.
ReferencesAreWork ==
  /\ \A m \in Messages :
       /\ messageState[m] # "unstored" => Accepted(Reference(m))
       /\ messageState[m] = "acked" => Completed(Reference(m))
  /\ \A p \in duplicateIds : HandedOver(p)
  /\ \A p \in late : Accepted(p)

DispatchersHoldWork ==
  \A d \in Dispatchers :
    /\ dispatcherPc[d] \in {"publish", "release", "mark"} => Accepted(dispatcherPayment[d])
    /\ dispatcherPc[d] = "mark" => HandedOver(dispatcherPayment[d])

WorkersHoldWork ==
  \A w \in Workers :
    /\ workerPc[w] \notin {"receive", "stopped"} => messageState[workerMessage[w]] # "unstored"
    /\ workerPc[w] \in {"submit", "await", "passive", "release", "complete"} =>
         /\ workerService[w] \in Services
         /\ workerService[w] = processorAssignment[WorkerPayment(w)]
    /\ workerPc[w] = "complete" => WorkerPayment(w) \in recorded[workerService[w]]
    /\ workerPc[w] = "ack" => Completed(WorkerPayment(w))

AnswersAreKept == \A p \in answered : Accepted(p)

IInv ==
  /\ RowsAgree
  /\ RequestsFollowAssignment
  /\ ReferencesAreWork
  /\ DispatchersHoldWork
  /\ WorkersHoldWork
  /\ AnswersAreKept
=============================================================================
