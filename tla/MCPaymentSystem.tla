--------------------------- MODULE MCPaymentSystem ---------------------------
(***************************************************************************)
(* TLC instances of PaymentSystem and PaymentProgress.                     *)
(***************************************************************************)
EXTENDS PaymentProgress, PaymentInvariant, TLC

CONSTANTS p1, p2, w1, w2, d1, d2

Symmetry == Permutations(Payments) \cup Permutations(Workers) \cup Permutations(Dispatchers)

(***************************************************************************)
(* A race: one worker or one dispatcher of the two has stopped, nothing    *)
(* else has happened yet.  RaceBound: the request is answered 202 (no      *)
(* commit is reported as an error), and the duplicate window of a          *)
(* reference passes only beside two dispatchers and a stopped worker.      *)
(***************************************************************************)
WithoutOneOf(owners, running) ==
  {[o \in owners |-> IF o = x THEN "stopped" ELSE running] : x \in owners}

RaceInit ==
  /\ StoreInit
  /\ StreamInit
  /\ answered = {}
  /\ \/ DispatcherInit /\ workerPc \in WithoutOneOf(Workers, "receive")
     \/ WorkerInit     /\ dispatcherPc \in WithoutOneOf(Dispatchers, "claim")
  /\ workerMessage = [w \in Workers |-> None]
  /\ workerService = [w \in Workers |-> None]
  /\ submitted = [s \in Services |-> {}]
  /\ recorded = [s \in Services |-> {}]
  /\ dispatcherPayment = [d \in Dispatchers |-> None]

RaceBound ==
  /\ \A p \in Payments : Accepted(p)' => p \in answered'
  /\ \/ duplicateIds \subseteq duplicateIds'
     \/ /\ \E w \in Workers : workerPc[w] = "stopped"
        /\ \A d \in Dispatchers : dispatcherPc[d] # "stopped"

RaceSpec == RaceInit /\ [][Next /\ RaceBound]_vars

(***************************************************************************)
(* A backlog: every Payment is accepted and dispatched.  The Payments in   *)
(* "done" are completed and gone from the stream; those in "held" were     *)
(* claimed by w2, which stopped for good before or after its request.      *)
(* Instances that start here have no outbox traffic left.                  *)
(***************************************************************************)
Backlog(done, held, copies) ==
  /\ processingState        = [p \in Payments |-> CASE p \in done -> "completed"
                                                    [] p \in held -> "processing"
                                                    [] OTHER     -> "pending"]
  /\ processorAssignment    = [p \in Payments |-> IF p \in done \cup held THEN "default" ELSE None]
  /\ processingClaimedBy    = [p \in Payments |-> IF p \in held THEN w2 ELSE None]
  /\ processingClaimExpired = [p \in Payments |-> FALSE]
  /\ processedByService     = [p \in Payments |-> IF p \in done THEN "default" ELSE None]
  /\ outboxState            = [p \in Payments |-> "dispatched"]
  /\ outboxClaimedBy        = [p \in Payments |-> None]
  /\ outboxClaimExpired     = [p \in Payments |-> FALSE]
  /\ messageState = [m \in Messages |-> CASE m = <<Reference(m), 1>> /\ Reference(m) \in done -> "acked"
                                         [] m = <<Reference(m), 1>> /\ Reference(m) \in held -> "delivered"
                                         [] Reference(m) \notin done /\ m[2] <= copies -> "stored"
                                         [] OTHER -> "unstored"]
  /\ duplicateIds = {}
  /\ late = {}
  /\ DispatcherInit
  /\ workerPc = [w \in Workers |-> IF w = w2 /\ held # {} THEN "stopped" ELSE "receive"]
  /\ workerMessage = [w \in Workers |-> None]
  /\ workerService = [w \in Workers |-> None]
  /\ submitted \in {[s \in Services |-> IF s = "default" THEN done \cup asked ELSE {}] : asked \in SUBSET held}
  /\ recorded = [s \in Services |-> IF s = "default" THEN done ELSE {}]
  /\ answered = Payments

\* One reference stored twice, or two Payments of which one is held.
BacklogInit == Backlog({p2}, {}, 2) \/ Backlog({}, {p1}, 1)

BacklogSpec == BacklogInit /\ [][Next]_vars /\ ProgressFairness /\ <>[][~Fault]_vars
=============================================================================
