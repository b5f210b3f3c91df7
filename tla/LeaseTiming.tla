----------------------------- MODULE LeaseTiming -----------------------------
(***************************************************************************)
(* The clocks behind one Payment: its lease (PAYMENT_CLAIM_EXPIRY), the    *)
(* timeout of a request to a Processor (PROCESSOR_TIMEOUT), the AckWait of *)
(* the consumer and the delay of a nak.  internal/config accepts any       *)
(* positive durations and compares none with another; here they are        *)
(* chosen first and a step of the clock makes one second pass.             *)
(*                                                                         *)
(* A worker's call ends before its time is up, and a message that is due   *)
(* goes to an idle worker at once.  Outcomes are those of Processing; some *)
(* Processor is always selectable.                                         *)
(***************************************************************************)
EXTENDS Integers

CONSTANTS
  Workers,
  None,
  Configurations,       \* what the environment variables may say, in seconds
  ProcessingRetryDelay, \* the delay of a nak: 6 s
  Statement,            \* the longest a database call takes (the code sets no limit)
  MaxFaults             \* bound on crashes, failed calls and lost messages

ASSUME LeaseAssumption ==
  /\ Workers # {} /\ None \notin Workers
  /\ Configurations \subseteq [claimExpiry : Int, processorTimeout : Int, ackWait : Int]
  /\ ProcessingRetryDelay \in Nat \ {0} /\ Statement \in Nat \ {0} /\ MaxFaults \in Nat

VARIABLES
  config,       \* the configuration all instances run with
  state,        \* payments.processing_state
  claimedBy,    \* payments.processing_claimed_by; None also for an owner that is gone
  leaseLeft,    \* until payments.processing_claim_expires_at
  pc,           \* the call each worker is in
  callLeft,     \* the longest that call still takes
  inStream,     \* the work reference has not been acknowledged
  dueIn,        \* until the reference may be delivered (again)
  faults,       \* faults so far
  unattended    \* history: how long no worker has been at the Payment, since the last fault

leaseVars == <<config, state, claimedBy, leaseLeft, pc, callLeft, inStream, dueIn, faults, unattended>>

\* A worker in one of these takes itself for the owner of the Payment.
Attempt == {"claimed", "process", "passive", "release", "complete"}
LeasePcs == Attempt \cup {"idle", "claim", "nak", "ack"}

LeaseTypeOK ==
  /\ config \in Configurations
  /\ state \in {"pending", "processing", "completed"}
  /\ claimedBy \in Workers \cup {None}
  /\ claimedBy # None \/ leaseLeft > 0 => state = "processing"
  /\ leaseLeft \in 0 .. config.claimExpiry
  /\ pc \in [Workers -> LeasePcs]
  /\ callLeft \in [Workers -> 0 .. (config.processorTimeout + Statement)]
  /\ inStream \in BOOLEAN
  /\ dueIn \in Nat
  /\ faults \in 0 .. MaxFaults
  /\ unattended \in Nat

PositiveDuration(value) == value > 0

\* What the program starts with: durations are checked one by one.
FromEnv == {c \in Configurations : \A field \in DOMAIN c : PositiveDuration(c[field])}

LeaseInit ==
  /\ config \in FromEnv
  /\ state = "pending"
  /\ claimedBy = None
  /\ leaseLeft = 0
  /\ pc = [w \in Workers |-> "idle"]
  /\ callLeft = [w \in Workers |-> 0]
  /\ inStream = TRUE
  /\ dueIn = 0
  /\ faults = 0
  /\ unattended = 0

\* Worker w goes on from one call to the next, which takes at most the given time.
Calls(w, from, to, time) ==
  /\ pc[w] = from
  /\ pc' = [pc EXCEPT ![w] = to]
  /\ callLeft' = [callLeft EXCEPT ![w] = time]

Goes(w, from, to) == Calls(w, from, to, callLeft[w])

AFault ==
  /\ faults < MaxFaults
  /\ faults' = faults + 1
  /\ unattended' = 0

rowVars    == <<state, claimedBy, leaseLeft>>
messageVars == <<inStream, dueIn>>
faultVars  == <<faults, unattended>>

-----------------------------------------------------------------------------
Row(s, owner, left) ==
  /\ state' = s
  /\ claimedBy' = owner
  /\ leaseLeft' = left

\* Mutants: a lease nobody can take over; one that excludes nobody.
ClaimableWhenPending == state = "pending"
ClaimableAlways      == state \in {"pending", "processing"}

Claimable == state = "pending" \/ (state = "processing" /\ leaseLeft = 0)

\* Mutant: only the state is set back.
ReleaseStateOnly(w) ==
  IF state = "processing" /\ claimedBy = w
  THEN Row("pending", claimedBy, leaseLeft)
  ELSE UNCHANGED rowVars

ReleaseRow(w) ==
  IF state = "processing" /\ claimedBy = w
  THEN Row("pending", None, 0)
  ELSE UNCHANGED rowVars

CompleteRow(w) ==
  IF state = "processing" /\ claimedBy = w
  THEN Row("completed", None, 0)
  ELSE UNCHANGED rowVars

\* Mutant: the consumer is provisioned with the delay of a nak.
DeliverAfterDelay ==
  /\ inStream /\ dueIn = 0
  /\ dueIn' = ProcessingRetryDelay
  /\ UNCHANGED inStream

Deliver ==
  /\ inStream /\ dueIn = 0
  /\ dueIn' = config.ackWait
  /\ UNCHANGED inStream

-----------------------------------------------------------------------------
Receive(w) ==
  /\ Calls(w, "idle", "claim", Statement)
  /\ Deliver
  /\ UNCHANGED <<config, rowVars, faultVars>>

\* The database commits the claim; its reply needs what is left of the call.
ClaimPayment(w) ==
  /\ \/ /\ Claimable
        /\ Goes(w, "claim", "claimed")
        /\ Row("processing", w, config.claimExpiry)
        /\ unattended' = 0
     \/ /\ ~Claimable
        /\ Goes(w, "claim", IF state = "completed" THEN "ack" ELSE "nak")
        /\ UNCHANGED <<rowVars, unattended>>
  /\ UNCHANGED <<config, messageVars, faults>>

Process(w) ==
  /\ Calls(w, "claimed", "process", config.processorTimeout)
  /\ UNCHANGED <<config, rowVars, messageVars, faultVars>>

\* Client.Process returns: confirmed, unavailable or retryable.
Processed(w) ==
  /\ \E next \in {"complete", "passive", "release"} : Calls(w, "process", next, Statement)
  /\ UNCHANGED <<config, rowVars, messageVars, faultVars>>

RecordPassiveFailure(w) ==
  /\ Calls(w, "passive", "release", Statement)
  /\ UNCHANGED <<config, rowVars, messageVars, faultVars>>

ReleasePayment(w) ==
  /\ Goes(w, "release", "nak")
  /\ ReleaseRow(w)
  /\ UNCHANGED <<config, messageVars, faultVars>>

CompletePayment(w) ==
  /\ Goes(w, "complete", IF state = "processing" /\ claimedBy = w THEN "ack" ELSE "nak")
  /\ CompleteRow(w)
  /\ UNCHANGED <<config, messageVars, faultVars>>

\* A pending delivery of the message is delayed; one that is due stays due.
Nak(w) ==
  /\ Calls(w, "nak", "idle", 0)
  /\ dueIn' = IF dueIn > 0 THEN ProcessingRetryDelay ELSE dueIn
  /\ UNCHANGED <<config, rowVars, inStream, faultVars>>

Ack(w) ==
  /\ Calls(w, "ack", "idle", 0)
  /\ inStream' = FALSE
  /\ dueIn' = 0
  /\ UNCHANGED <<config, rowVars, faultVars>>

\* A release or completion errs at the worker, committed or not; a claim also
\* may, and then its lease has an owner that does not know of it.
CallFails(w) ==
  /\ AFault
  /\ \/ Goes(w, "claim", "nak") /\ Claimable /\ Row("processing", w, config.claimExpiry)
     \/ Goes(w, "release", "nak") /\ ReleaseRow(w)
     \/ Goes(w, "complete", "nak") /\ CompleteRow(w)
     \/ (\E call \in {"claim", "release", "complete"} : Goes(w, call, "nak")) /\ UNCHANGED rowVars
  /\ UNCHANGED <<config, messageVars>>

\* The process dies; its worker comes back under another name.
Crash(w) ==
  /\ AFault
  /\ pc[w] # "idle"
  /\ Calls(w, pc[w], "idle", 0)
  /\ claimedBy' = IF claimedBy = w THEN None ELSE claimedBy
  /\ UNCHANGED <<config, state, leaseLeft, messageVars>>

\* A delivery, a nak or an ack gets lost.
MessageLost ==
  /\ AFault
  /\ \/ Deliver /\ UNCHANGED <<pc, callLeft>>
     \/ (\E w \in Workers, call \in {"nak", "ack"} : Calls(w, call, "idle", 0)) /\ UNCHANGED messageVars
  /\ UNCHANGED <<config, rowVars>>

-----------------------------------------------------------------------------
Minus1(n) == IF n > 0 THEN n - 1 ELSE 0

Tick ==
  /\ \A w \in Workers : pc[w] # "idle" => callLeft[w] > 0
  /\ inStream /\ dueIn = 0 => \A w \in Workers : pc[w] # "idle"
  /\ leaseLeft' = Minus1(leaseLeft)
  /\ callLeft' = [w \in Workers |-> Minus1(callLeft[w])]
  /\ dueIn' = Minus1(dueIn)
  /\ unattended' = IF state = "completed" \/ \E w \in Workers : pc[w] \in Attempt
                   THEN 0 ELSE unattended + 1
  /\ UNCHANGED <<config, state, claimedBy, pc, inStream, faults>>

LeaseNext ==
  \/ \E w \in Workers :
       \/ Receive(w) \/ ClaimPayment(w) \/ Process(w) \/ Processed(w)
       \/ RecordPassiveFailure(w) \/ ReleasePayment(w) \/ CompletePayment(w)
       \/ Nak(w) \/ Ack(w) \/ CallFails(w) \/ Crash(w)
  \/ MessageLost
  \/ Tick

LeaseSpec == LeaseInit /\ [][LeaseNext]_leaseVars

-----------------------------------------------------------------------------
\* The longest attempt: the claim's reply, the request, a passive failure, a
\* release.
AttemptTime == config.processorTimeout + 3 * Statement

\* A lease longer than an attempt never runs out under a worker that still
\* works on its Payment, whatever is redelivered, crashes or fails meanwhile:
\* so no two workers are ever at the same Payment.
LeaseOutlivesAttempt ==
  config.claimExpiry > AttemptTime =>
    \A w \in Workers : pc[w] \in Attempt => claimedBy = w /\ leaseLeft > 0

\* An AckWait longer than an attempt means that a reference is with one worker
\* at a time, until its ack or nak is sent, even while leases are too short.
OneDeliveryAtATime ==
  config.ackWait > AttemptTime =>
    \A v, w \in Workers : pc[v] # "idle" /\ pc[w] # "idle" => v = w

\* Whatever the configuration: after its last fault a Payment is not left
\* alone for longer than its lease and one more nak, or one AckWait.
TakeoverInTime ==
  LET byLease   == config.claimExpiry + ProcessingRetryDelay + 2 * Statement
      byAckWait == config.ackWait + Statement
  IN unattended < byLease \/ unattended <= byAckWait
=============================================================================
