----------------------------- MODULE WorkStream -----------------------------
(***************************************************************************)
(* The JetStream work-queue stream and its one durable pull consumer, as   *)
(* internal/messaging/nats.go provisions and uses them: file-backed        *)
(* messages with a Msg-Id duplicate window, explicit acknowledgement, an   *)
(* AckWait, unlimited redelivery (MaxDeliver -1) and a MaxAckPending       *)
(* limit.  The server is external; its behaviour is modelled from those    *)
(* settings.                                                               *)
(*                                                                         *)
(* A stored message is <<p, c>>: the c-th copy of the reference to Payment *)
(* p.  A second copy appears only when p is published again after its      *)
(* duplicate window has passed.  Sequence numbers are never reused.        *)
(***************************************************************************)
EXTENDS Domain, Naturals, FiniteSets

CONSTANTS
  MaxCopies,     \* bound on the copies the stream ever stores of one reference
  MaxAckPending  \* JETSTREAM_MAX_ACK_PENDING

ASSUME StreamAssumption ==
  /\ MaxCopies \in Nat \ {0}
  /\ MaxAckPending \in Nat \ {0}
  /\ None \notin Payments \X (1 .. MaxCopies)

VARIABLES
  messageState,  \* of each message that was, is or may be in the stream
  duplicateIds,  \* Msg-Ids inside the duplicate window
  late           \* references whose publication failed at the publisher but may still arrive

streamVars == <<messageState, duplicateIds, late>>

Messages == Payments \X (1 .. MaxCopies)

\* A delivery carries only the Correlation ID of its Payment.
Reference(m) == m[1]

(***************************************************************************)
(* "unstored"  not published yet             "delivered"  awaiting an ack  *)
(* "stored"    published, never delivered    "delayed"    nak'd, delay on  *)
(* "redeliver" AckWait or nak delay passed   "acked"      removed          *)
(***************************************************************************)
AckPendingStates == {"delivered", "delayed", "redeliver"}
MessageStates == AckPendingStates \cup {"unstored", "stored", "acked"}

InStream(m) == messageState[m] \in AckPendingStates \cup {"stored"}

StreamTypeOK ==
  /\ messageState \in [Messages -> MessageStates]
  /\ duplicateIds \in SUBSET Payments
  /\ late \in SUBSET Payments

StreamInit ==
  /\ messageState = [m \in Messages |-> "unstored"]
  /\ duplicateIds = {}
  /\ late = {}

\* The stream takes a publication: it stores a new message, or acknowledges
\* one whose Msg-Id it has seen inside the window without storing it again.
StoreMessage(p) ==
  \/ /\ p \in duplicateIds
     /\ UNCHANGED <<messageState, duplicateIds>>
  \/ /\ p \notin duplicateIds
     /\ \E c \in 1 .. MaxCopies :
          /\ messageState[<<p, c>>] = "unstored"
          /\ \A b \in 1 .. (c - 1) : messageState[<<p, b>>] # "unstored"
          /\ messageState' = [messageState EXCEPT ![<<p, c>>] = "stored"]
     /\ duplicateIds' = duplicateIds \cup {p}

\* A publication whose publisher has given up (timeout, reconnect buffer).
LatePublication(p) ==
  /\ p \in late
  /\ StoreMessage(p)
  /\ UNCHANGED late

\* Bounded: the window of p may pass only while the model has a copy left.
DuplicateWindowPasses(p) ==
  /\ p \in duplicateIds
  /\ messageState[<<p, MaxCopies>>] = "unstored"
  /\ duplicateIds' = duplicateIds \ {p}
  /\ UNCHANGED <<messageState, late>>

\* The consumer hands m out; whether a worker receives it is the caller's step.
DeliverMessage(m) ==
  /\ \/ messageState[m] = "redeliver"
     \/ /\ messageState[m] = "stored"
        /\ Cardinality({n \in Messages : messageState[n] \in AckPendingStates}) < MaxAckPending
  /\ messageState' = [messageState EXCEPT ![m] = "delivered"]
  /\ UNCHANGED <<duplicateIds, late>>

\* An acknowledgement, of this delivery or of an earlier one of m.
AckMessage(m) ==
  /\ messageState' = [messageState EXCEPT ![m] = "acked"]
  /\ UNCHANGED <<duplicateIds, late>>

\* A nak restarts the delay of a pending delivery; of a message that already
\* waits for redelivery, or is gone, it changes nothing.
NakMessage(m) ==
  /\ \/ /\ messageState[m] \in {"delivered", "delayed"}
        /\ messageState' = [messageState EXCEPT ![m] = "delayed"]
     \/ /\ messageState[m] \notin {"delivered", "delayed"}
        /\ UNCHANGED messageState
  /\ UNCHANGED <<duplicateIds, late>>

\* AckWait or the nak delay of m passes.
RedeliveryTimer(m) ==
  /\ messageState[m] \in {"delivered", "delayed"}
  /\ messageState' = [messageState EXCEPT ![m] = "redeliver"]
  /\ UNCHANGED <<duplicateIds, late>>
=============================================================================
