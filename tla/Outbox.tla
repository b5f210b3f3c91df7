------------------------------- MODULE Outbox -------------------------------
(***************************************************************************)
(* internal/outbox/dispatcher.go: dispatcher workers claim outbox rows,    *)
(* publish their Payment references to the work stream and record the      *)
(* confirmed publication.                                                  *)
(*                                                                         *)
(* A dispatcher is one run of runWorker, which owns a fresh nuid; a        *)
(* restarted instance brings new dispatchers.  Each blocking call is one   *)
(* step, so every interleaving of calls of different dispatchers is        *)
(* covered.  A statement or call that fails without an effect and leaves   *)
(* the dispatcher where it was is a stuttering step.                       *)
(***************************************************************************)
EXTENDS Store, WorkStream

VARIABLES
  dispatcherPc,       \* the call each dispatcher makes next
  dispatcherPayment   \* the Payment of the row it claimed

dispatcherVars == <<dispatcherPc, dispatcherPayment>>

DispatcherTypeOK ==
  /\ dispatcherPc \in [Dispatchers -> {"claim", "publish", "release", "mark", "stopped"}]
  /\ dispatcherPayment \in [Dispatchers -> Payments \cup {None}]
  /\ \A d \in Dispatchers :
       dispatcherPc[d] \in {"publish", "release", "mark"} => dispatcherPayment[d] \in Payments

DispatcherInit ==
  /\ dispatcherPc = [d \in Dispatchers |-> "claim"]
  /\ dispatcherPayment = [d \in Dispatchers |-> None]

Dispatching(d, from, to) ==
  /\ dispatcherPc[d] = from
  /\ dispatcherPc' = [dispatcherPc EXCEPT ![d] = to]

KeepPayment == UNCHANGED dispatcherPayment

\* The loop's continue: the row is forgotten.
DropPayment(d) == dispatcherPayment' = [dispatcherPayment EXCEPT ![d] = None]

(***************************************************************************)
(* ClaimOutbox takes the claimable row of least Correlation ID that no     *)
(* concurrent statement has locked (FOR UPDATE SKIP LOCKED); row locks are *)
(* not modelled, so any claimable row may be the one.                      *)
(***************************************************************************)
ClaimOutbox(d) ==
  \E p \in Payments :
    /\ Dispatching(d, "claim", "publish")
    /\ ClaimOutboxRow(p, d)
    /\ dispatcherPayment' = [dispatcherPayment EXCEPT ![d] = p]
    /\ UNCHANGED <<paymentVars, streamVars>>

\* Mutant: after an error d goes on as if it had a row.
ClaimOutboxErrorIgnored(d) ==
  \E p \in Payments :
    /\ Dispatching(d, "claim", "publish")
    /\ KeepPayment
    /\ ClaimOutboxRow(p, d)
    /\ UNCHANGED <<paymentVars, streamVars>>

\* The claim commits but its reply is lost: d knows of no row and retries.
ClaimOutboxReplyLost(d) ==
  \E p \in Payments :
    /\ dispatcherPc[d] = "claim"
    /\ ClaimOutboxRow(p, d)
    /\ UNCHANGED <<paymentVars, streamVars, dispatcherVars>>

PublishAcked(d) ==
  /\ Dispatching(d, "publish", "mark")
  /\ KeepPayment
  /\ StoreMessage(dispatcherPayment[d])
  /\ UNCHANGED <<storeVars, late>>

\* Mutant: the row is marked dispatched whatever Publish returned.
PublishErrorIgnored(d) ==
  /\ Dispatching(d, "publish", "mark")
  /\ KeepPayment
  /\ UNCHANGED <<storeVars, streamVars>>

\* The publish times out or errs; the publication is lost or still under way.
PublishFails(d) ==
  /\ Dispatching(d, "publish", "release")
  /\ KeepPayment
  /\ \/ UNCHANGED late
     \/ late' = late \cup {dispatcherPayment[d]}
  /\ UNCHANGED <<storeVars, messageState, duplicateIds>>

\* The release is executed, or fails and leaves the row to its expiry.
ReleaseOutbox(d) ==
  /\ Dispatching(d, "release", "claim")
  /\ DropPayment(d)
  /\ \/ ReleaseOutboxRow(dispatcherPayment[d], d)
     \/ UNCHANGED outboxVars
  /\ UNCHANGED <<paymentVars, streamVars>>

MarkOutboxDispatched(d) ==
  /\ Dispatching(d, "mark", "claim")
  /\ DropPayment(d)
  /\ MarkOutboxRowDispatched(dispatcherPayment[d], d)
  /\ UNCHANGED <<paymentVars, streamVars>>

MarkOutboxFails(d) ==
  /\ Dispatching(d, "mark", "claim")
  /\ DropPayment(d)
  /\ UNCHANGED <<storeVars, streamVars>>

StopDispatcher(d) ==
  /\ d \in Mortal
  /\ dispatcherPc[d] # "stopped"
  /\ dispatcherPc' = [dispatcherPc EXCEPT ![d] = "stopped"]
  /\ DropPayment(d)
  /\ UNCHANGED <<storeVars, streamVars>>

DispatcherStep(d) ==
  \/ ClaimOutbox(d)
  \/ ClaimOutboxReplyLost(d)
  \/ PublishAcked(d)
  \/ PublishFails(d)
  \/ ReleaseOutbox(d)
  \/ MarkOutboxDispatched(d)
  \/ MarkOutboxFails(d)
  \/ StopDispatcher(d)

\* The steps of the database clock and of the stream that the outbox meets.
OutboxEnvironment ==
  \E p \in Payments :
    \/ OutboxClaimExpires(p) /\ UNCHANGED streamVars
    \/ LatePublication(p) /\ UNCHANGED storeVars
    \/ DuplicateWindowPasses(p) /\ UNCHANGED storeVars

OutboxNext ==
  \/ \E d \in Dispatchers : DispatcherStep(d)
  \/ OutboxEnvironment /\ UNCHANGED dispatcherVars
=============================================================================
