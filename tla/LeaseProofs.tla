----------------------------- MODULE LeaseProofs -----------------------------
(***************************************************************************)
(* The timing properties of LeaseTiming, for every number of workers and   *)
(* faults, every set of accepted configurations and every length of calls  *)
(* and delays: no lease or redelivery needs to be tried out.               *)
(***************************************************************************)
EXTENDS LeaseTiming, TLAPS

\* What an attempt may still need after the call that worker w is in.
StillToCome(w) ==
  IF pc[w] \in {"claim", "claimed"} THEN config.processorTimeout + 2 * Statement
  ELSE IF pc[w] = "process" THEN 2 * Statement
  ELSE IF pc[w] = "passive" THEN Statement
  ELSE 0

AttemptLeft(w) == callLeft[w] + StillToCome(w)

\* Only the request to a Processor may take longer than a database call.
CallsAreBounded ==
  \A w \in Workers :
    /\ pc[w] = "process" => callLeft[w] <= config.processorTimeout
    /\ pc[w] # "process" => callLeft[w] <= Statement

\* A lease that was long enough has room for the rest of the attempt.
LeaseCoversAttempt ==
  config.claimExpiry > AttemptTime =>
    \A w \in Workers : pc[w] \in Attempt =>
      /\ claimedBy = w
      /\ leaseLeft >= config.claimExpiry - AttemptTime + AttemptLeft(w)

\* So has the AckWait of the delivery that the one busy worker holds.
DeliveryCoversAttempt ==
  config.ackWait > AttemptTime =>
    \A w \in Workers : pc[w] # "idle" =>
      /\ dueIn >= config.ackWait - AttemptTime + AttemptLeft(w)
      /\ \A v \in Workers : pc[v] # "idle" => v = w

\* The reference is given up for a completed Payment only, and a Payment that
\* is completed or being attempted is not waiting for anybody.
AttendedOrWaiting ==
  /\ ~inStream => state = "completed"
  /\ \A w \in Workers : pc[w] = "ack" => state = "completed"
  /\ \A w \in Workers : pc[w] \in Attempt => unattended = 0
  /\ state = "completed" => unattended = 0

\* How long a Payment may have been alone when its reference is due.
DueInTime(n) ==
  \/ n < config.claimExpiry + ProcessingRetryDelay + Statement
  \/ n <= config.ackWait

\* While a Payment is alone its lease is running out, a worker that could not
\* claim it has little time left for its nak, and either there is such a worker,
\* or one whose claim ends in time, or the reference is due in time.
WaitingEnds ==
  /\ leaseLeft > 0 => unattended + leaseLeft <= config.claimExpiry
  /\ \A w \in Workers : pc[w] = "nak" => unattended + callLeft[w] < config.claimExpiry + Statement
  /\ \/ \E w \in Workers : pc[w] = "nak"
     \/ \E w \in Workers : pc[w] = "claim" /\ DueInTime(unattended + callLeft[w] - Statement)
     \/ DueInTime(unattended + dueIn)

\* The timeouts that a reference waits for.
DelaysAreBounded == dueIn <= config.ackWait \/ dueIn <= ProcessingRetryDelay

LeaseInv ==
  /\ LeaseTypeOK
  /\ config \in FromEnv
  /\ CallsAreBounded
  /\ DelaysAreBounded
  /\ LeaseCoversAttempt
  /\ DeliveryCoversAttempt
  /\ AttendedOrWaiting
  /\ WaitingEnds

-----------------------------------------------------------------------------
(***************************************************************************)
(* What FromEnv accepts, and what one call does to the clocks.             *)
(***************************************************************************)
LEMMA DurationsArePositive ==
  ASSUME config \in FromEnv
  PROVE  /\ config.claimExpiry \in Nat \ {0}
         /\ config.processorTimeout \in Nat \ {0}
         /\ config.ackWait \in Nat \ {0}
         /\ config \in Configurations
         /\ AttemptTime \in Nat
<1>1. config \in [claimExpiry : Int, processorTimeout : Int, ackWait : Int]
  BY LeaseAssumption DEF FromEnv
<1>2. \A field \in {"claimExpiry", "processorTimeout", "ackWait"} : config[field] > 0
  BY <1>1 DEF FromEnv, PositiveDuration
<1>3. QED
  BY <1>1, <1>2, LeaseAssumption DEF FromEnv, AttemptTime

LEMMA CallsMoveOneWorker ==
  ASSUME LeaseTypeOK,
         NEW w \in Workers, NEW from \in LeasePcs, NEW to \in LeasePcs,
         NEW time \in 0 .. (config.processorTimeout + Statement),
         Calls(w, from, to, time), UNCHANGED config
  PROVE  /\ pc' \in [Workers -> LeasePcs]
         /\ pc'[w] = to /\ callLeft'[w] = time
         /\ callLeft' \in [Workers -> 0 .. (config.processorTimeout + Statement)]
         /\ \A v \in Workers \ {w} : pc'[v] = pc[v] /\ callLeft'[v] = callLeft[v]
BY DEF LeaseTypeOK, Calls

-----------------------------------------------------------------------------
(***************************************************************************)
(* Every step keeps the types and the configuration.                       *)
(***************************************************************************)
LEMMA RowTypes ==
  ASSUME LeaseInv, UNCHANGED config, NEW w \in Workers
  PROVE  /\ Row("processing", w, config.claimExpiry) \/ ReleaseRow(w) \/ CompleteRow(w)
              \/ UNCHANGED rowVars =>
              /\ state' \in {"pending", "processing", "completed"}
              /\ claimedBy' \in Workers \cup {None}
              /\ claimedBy' # None \/ leaseLeft' > 0 => state' = "processing"
              /\ leaseLeft' \in 0 .. config'.claimExpiry
BY DurationsArePositive DEF LeaseInv, LeaseTypeOK, Row, ReleaseRow, CompleteRow, rowVars

LEMMA TypeStep ==
  ASSUME LeaseInv, [LeaseNext]_leaseVars
  PROVE  LeaseTypeOK' /\ config' = config
<1> USE DurationsArePositive, LeaseAssumption DEF LeaseInv, LeaseTypeOK
<1>1. ASSUME NEW w \in Workers, Receive(w)
      PROVE  LeaseTypeOK' /\ config' = config
  <2>1. /\ pc' \in [Workers -> LeasePcs]
        /\ callLeft' \in [Workers -> 0 .. (config.processorTimeout + Statement)]
    BY <1>1 DEF Calls, Receive, LeasePcs
  <2>2. QED
    BY <1>1, <2>1 DEF Receive, Deliver, rowVars, faultVars
<1>2. ASSUME NEW w \in Workers, ClaimPayment(w)
      PROVE  LeaseTypeOK' /\ config' = config
  <2>1. /\ pc' \in [Workers -> LeasePcs]
        /\ callLeft' \in [Workers -> 0 .. (config.processorTimeout + Statement)]
    BY <1>2, CallsMoveOneWorker DEF ClaimPayment, Goes, LeasePcs, Attempt
  <2>2. unattended' \in Nat
    BY <1>2 DEF ClaimPayment
  <2>3. QED
    BY <1>2, <2>1, <2>2, RowTypes DEF ClaimPayment, messageVars
<1>3. ASSUME NEW w \in Workers, Process(w) \/ Processed(w) \/ RecordPassiveFailure(w)
      PROVE  LeaseTypeOK' /\ config' = config
  <2>1. /\ pc' \in [Workers -> LeasePcs]
        /\ callLeft' \in [Workers -> 0 .. (config.processorTimeout + Statement)]
    BY <1>3, CallsMoveOneWorker DEF Process, Processed, RecordPassiveFailure, LeasePcs, Attempt
  <2>2. QED
    BY <1>3, <2>1 DEF Process, Processed, RecordPassiveFailure, rowVars, messageVars, faultVars
<1>4. ASSUME NEW w \in Workers, ReleasePayment(w) \/ CompletePayment(w)
      PROVE  LeaseTypeOK' /\ config' = config
  <2>1. /\ pc' \in [Workers -> LeasePcs]
        /\ callLeft' \in [Workers -> 0 .. (config.processorTimeout + Statement)]
    BY <1>4, CallsMoveOneWorker DEF ReleasePayment, CompletePayment, Goes, LeasePcs, Attempt
  <2>2. QED
    BY <1>4, <2>1, RowTypes DEF ReleasePayment, CompletePayment, messageVars, faultVars
<1>5. ASSUME NEW w \in Workers, Nak(w) \/ Ack(w)
      PROVE  LeaseTypeOK' /\ config' = config
  <2>1. /\ pc' \in [Workers -> LeasePcs]
        /\ callLeft' \in [Workers -> 0 .. (config.processorTimeout + Statement)]
    BY <1>5 DEF Calls, Nak, Ack, LeasePcs
  <2>2. inStream' \in BOOLEAN
    BY <1>5, Zenon DEF Nak, Ack
  <2>3. dueIn' \in Nat
    BY <1>5 DEF Nak, Ack
  <2>4. QED
    BY <1>5, <2>1, <2>2, <2>3 DEF Nak, Ack, rowVars, faultVars
<1>6. ASSUME NEW w \in Workers, CallFails(w)
      PROVE  LeaseTypeOK' /\ config' = config
  <2>1. PICK call \in {"claim", "release", "complete"} : Goes(w, call, "nak")
    BY <1>6 DEF CallFails
  <2>2. /\ pc' \in [Workers -> LeasePcs]
        /\ callLeft' \in [Workers -> 0 .. (config.processorTimeout + Statement)]
    BY <1>6, <2>1, CallsMoveOneWorker DEF CallFails, Goes, LeasePcs, Attempt
  <2>3. QED
    BY <1>6, <2>2, RowTypes DEF CallFails, AFault, messageVars
<1>7. ASSUME NEW w \in Workers, Crash(w)
      PROVE  LeaseTypeOK' /\ config' = config
  <2>1. /\ pc' \in [Workers -> LeasePcs]
        /\ callLeft' \in [Workers -> 0 .. (config.processorTimeout + Statement)]
    BY <1>7 DEF Calls, Crash, LeasePcs
  <2>2. QED
    BY <1>7, <2>1 DEF Crash, AFault, messageVars
<1>8. CASE MessageLost
  <2>1. /\ pc' \in [Workers -> LeasePcs]
        /\ callLeft' \in [Workers -> 0 .. (config.processorTimeout + Statement)]
    BY <1>8 DEF Calls, MessageLost, LeasePcs
  <2>2. inStream' \in BOOLEAN /\ dueIn' \in Nat
    BY <1>8 DEF MessageLost, Deliver, messageVars
  <2>3. QED
    BY <1>8, <2>1, <2>2 DEF MessageLost, AFault, rowVars
<1>9. CASE Tick
  <2>1. callLeft' \in [Workers -> 0 .. (config.processorTimeout + Statement)]
    BY <1>9 DEF Tick, Minus1
  <2>2. leaseLeft' \in 0 .. config.claimExpiry /\ (leaseLeft' > 0 => leaseLeft > 0)
        /\ dueIn' \in Nat /\ unattended' \in Nat
    BY <1>9 DEF Tick, Minus1
  <2>3. QED
    BY <1>9, <2>1, <2>2 DEF Tick
<1>10. CASE UNCHANGED leaseVars
  BY <1>10 DEF leaseVars
<1>11. QED
  BY <1>1, <1>2, <1>3, <1>4, <1>5, <1>6, <1>7, <1>8, <1>9, <1>10 DEF LeaseNext

-----------------------------------------------------------------------------
(***************************************************************************)
(* The clocks of calls and deliveries.                                     *)
(***************************************************************************)
LEMMA CallBoundsStep ==
  ASSUME LeaseInv, [LeaseNext]_leaseVars
  PROVE  CallsAreBounded'
<1> USE LeaseAssumption DEF LeaseInv, LeaseTypeOK, CallsAreBounded
<1>1. config' = config
  BY TypeStep
<1>2. config.processorTimeout \in Nat
  BY DurationsArePositive
<1>3. ASSUME NEW w \in Workers, NEW from, NEW to, from # "process", to # "process",
             Goes(w, from, to)
      PROVE  CallsAreBounded'
  BY <1>1, <1>3 DEF Goes, Calls
<1>4. ASSUME NEW w \in Workers, NEW from, NEW to, to # "process",
             NEW time \in 0 .. Statement, Calls(w, from, to, time)
      PROVE  CallsAreBounded'
  BY <1>1, <1>4 DEF Calls
<1>5. ASSUME NEW w \in Workers, Calls(w, "claimed", "process", config.processorTimeout)
      PROVE  CallsAreBounded'
  BY <1>1, <1>2, <1>5 DEF Calls
<1>6. ASSUME UNCHANGED <<pc, callLeft>>
      PROVE  CallsAreBounded'
  BY <1>1, <1>6
<1>7. ASSUME NEW w \in Workers, Receive(w) \/ RecordPassiveFailure(w) \/ Nak(w) \/ Ack(w) \/ Processed(w)
      PROVE  CallsAreBounded'
  BY <1>4, <1>7 DEF Receive, RecordPassiveFailure, Nak, Ack, Processed
<1>8. ASSUME NEW w \in Workers,
             ClaimPayment(w) \/ ReleasePayment(w) \/ CompletePayment(w) \/ CallFails(w)
      PROVE  CallsAreBounded'
  BY <1>3, <1>8 DEF ClaimPayment, ReleasePayment, CompletePayment, CallFails
<1>9. ASSUME NEW w \in Workers, Process(w)
      PROVE  CallsAreBounded'
  BY <1>5, <1>9 DEF Process
<1>10. ASSUME NEW w \in Workers, Crash(w)
      PROVE  CallsAreBounded'
  BY <1>4, <1>10 DEF Crash
<1>11. CASE MessageLost
  BY <1>4, <1>6, <1>11 DEF MessageLost
<1>12. CASE Tick
  BY <1>1, <1>2, <1>12 DEF Tick, Minus1
<1>13. CASE UNCHANGED leaseVars
  BY <1>6, <1>13 DEF leaseVars
<1>14. QED
  BY <1>7, <1>8, <1>9, <1>10, <1>11, <1>12, <1>13 DEF LeaseNext

LEMMA DelayBoundsStep ==
  ASSUME LeaseInv, [LeaseNext]_leaseVars
  PROVE  DelaysAreBounded'
<1> USE LeaseAssumption DEF LeaseInv, LeaseTypeOK, DelaysAreBounded, messageVars
<1>1. config' = config
  BY TypeStep
<1>2. config.ackWait \in Nat
  BY DurationsArePositive
<1>3. CASE dueIn' \in {dueIn, 0, config.ackWait, ProcessingRetryDelay}
  BY <1>1, <1>2, <1>3
<1>4. CASE Tick
  BY <1>1, <1>2, <1>4 DEF Tick, Minus1
<1>5. ASSUME NEW w \in Workers, Receive(w) \/ Nak(w) \/ Ack(w)
      PROVE  dueIn' \in {dueIn, 0, config.ackWait, ProcessingRetryDelay}
  BY <1>5 DEF Receive, Deliver, Nak, Ack
<1>6. ASSUME NEW w \in Workers,
             \/ ClaimPayment(w) \/ Process(w) \/ Processed(w) \/ RecordPassiveFailure(w)
             \/ ReleasePayment(w) \/ CompletePayment(w) \/ CallFails(w) \/ Crash(w)
      PROVE  dueIn' = dueIn
  BY <1>6 DEF ClaimPayment, Process, Processed, RecordPassiveFailure, ReleasePayment,
              CompletePayment, CallFails, Crash
<1>7. CASE MessageLost
  BY <1>3, <1>7 DEF MessageLost, Deliver
<1>8. CASE UNCHANGED leaseVars
  BY <1>3, <1>8 DEF leaseVars
<1>9. QED
  BY <1>3, <1>4, <1>5, <1>6, <1>7, <1>8 DEF LeaseNext

-----------------------------------------------------------------------------
(***************************************************************************)
(* A lease or an AckWait that is long enough stays so, call after call.    *)
(***************************************************************************)
LEMMA LeaseCoversStep ==
  ASSUME LeaseInv, [LeaseNext]_leaseVars
  PROVE  LeaseCoversAttempt'
<1> SUFFICES ASSUME config.claimExpiry > AttemptTime, NEW v \in Workers, pc'[v] \in Attempt
             PROVE  /\ claimedBy' = v
                    /\ leaseLeft' >= config.claimExpiry - AttemptTime + AttemptLeft(v)'
  BY TypeStep DEF LeaseCoversAttempt, AttemptTime
<1> USE LeaseAssumption, DurationsArePositive
    DEF LeaseInv, LeaseTypeOK, CallsAreBounded, AttemptTime, AttemptLeft, StillToCome, Attempt
<1>1. config' = config /\ LeaseTypeOK'
  BY TypeStep
<1>2. pc[v] \in Attempt => /\ claimedBy = v /\ leaseLeft > 0 /\ state = "processing"
                           /\ leaseLeft >= config.claimExpiry - AttemptTime + AttemptLeft(v)
  BY DEF LeaseCoversAttempt
<1>3. ASSUME NEW w \in Workers, ClaimPayment(w)
      PROVE  /\ claimedBy' = v
             /\ leaseLeft' >= config.claimExpiry - AttemptTime + AttemptLeft(v)'
  <2>1. CASE Claimable /\ Goes(w, "claim", "claimed") /\ Row("processing", w, config.claimExpiry)
    <3>1. v = w
      BY <1>2, <2>1 DEF Claimable, Goes, Calls
    <3>2. QED
      BY <1>1, <2>1, <3>1 DEF Goes, Calls, Row
  <2>2. CASE ~Claimable /\ UNCHANGED rowVars
             /\ Goes(w, "claim", IF state = "completed" THEN "ack" ELSE "nak")
    BY <1>1, <1>2, <2>2 DEF Goes, Calls, rowVars
  <2>3. QED
    BY <1>3, <2>1, <2>2 DEF ClaimPayment
<1>4. ASSUME NEW w \in Workers,
             Receive(w) \/ Process(w) \/ Processed(w) \/ RecordPassiveFailure(w) \/ Nak(w) \/ Ack(w)
      PROVE  /\ claimedBy' = v
             /\ leaseLeft' >= config.claimExpiry - AttemptTime + AttemptLeft(v)'
  <2>1. CASE v # w
    BY <1>1, <1>2, <1>4, <2>1
       DEF Receive, Process, Processed, RecordPassiveFailure, Nak, Ack, Calls, rowVars
  <2>2. CASE v = w
    BY <1>1, <1>2, <1>4, <2>2
       DEF Receive, Process, Processed, RecordPassiveFailure, Nak, Ack, Calls, rowVars
  <2>3. QED
    BY <2>1, <2>2
<1>5. ASSUME NEW w \in Workers, ReleasePayment(w) \/ CompletePayment(w) \/ CallFails(w)
      PROVE  /\ claimedBy' = v
             /\ leaseLeft' >= config.claimExpiry - AttemptTime + AttemptLeft(v)'
  <2>1. v # w /\ pc[v] \in Attempt /\ pc'[v] = pc[v] /\ callLeft'[v] = callLeft[v]
    BY <1>5 DEF ReleasePayment, CompletePayment, CallFails, Goes, Calls
  <2>2. UNCHANGED rowVars
    BY <1>2, <1>5, <2>1
       DEF ReleasePayment, CompletePayment, CallFails, ReleaseRow, CompleteRow, Claimable, rowVars
  <2>3. QED
    BY <1>1, <1>2, <2>1, <2>2 DEF rowVars
<1>6. ASSUME NEW w \in Workers, Crash(w)
      PROVE  /\ claimedBy' = v
             /\ leaseLeft' >= config.claimExpiry - AttemptTime + AttemptLeft(v)'
  BY <1>1, <1>2, <1>6 DEF Crash, Calls
<1>7. CASE MessageLost
  BY <1>1, <1>2, <1>7 DEF MessageLost, Deliver, Calls, rowVars
<1>8. CASE Tick
  BY <1>1, <1>2, <1>8 DEF Tick, Minus1
<1>9. CASE UNCHANGED leaseVars
  BY <1>1, <1>2, <1>9 DEF leaseVars
<1>10. QED
  BY <1>3, <1>4, <1>5, <1>6, <1>7, <1>8, <1>9 DEF LeaseNext

LEMMA DeliveryCoversStep ==
  ASSUME LeaseInv, [LeaseNext]_leaseVars
  PROVE  DeliveryCoversAttempt'
<1> SUFFICES ASSUME config.ackWait > AttemptTime, NEW v \in Workers, pc'[v] # "idle"
             PROVE  /\ dueIn' >= config.ackWait - AttemptTime + AttemptLeft(v)'
                    /\ \A u \in Workers : pc'[u] # "idle" => u = v
  BY TypeStep DEF DeliveryCoversAttempt, AttemptTime
<1> DEFINE Covered == /\ dueIn' >= config.ackWait - AttemptTime + AttemptLeft(v)'
                      /\ \A u \in Workers : pc'[u] # "idle" => u = v
<1> USE LeaseAssumption, DurationsArePositive
    DEF LeaseInv, LeaseTypeOK, CallsAreBounded, AttemptTime, AttemptLeft, StillToCome
<1>1. config' = config /\ LeaseTypeOK'
  BY TypeStep
<1>2. \A u \in Workers : pc[u] # "idle" =>
        /\ dueIn >= config.ackWait - AttemptTime + AttemptLeft(u)
        /\ dueIn > 0
        /\ \A x \in Workers : pc[x] # "idle" => x = u
  BY DEF DeliveryCoversAttempt, LeasePcs, Attempt
<1>3. ASSUME NEW w \in Workers, Receive(w)
      PROVE  Covered
  <2>1. \A u \in Workers : pc[u] = "idle"
    BY <1>2, <1>3 DEF Receive, Deliver
  <2>2. QED
    BY <1>1, <1>3, <2>1 DEF Receive, Deliver, Calls
<1>4. ASSUME NEW w \in Workers,
             \/ ClaimPayment(w) \/ Process(w) \/ Processed(w) \/ RecordPassiveFailure(w)
             \/ ReleasePayment(w) \/ CompletePayment(w) \/ CallFails(w)
      PROVE  Covered
  <2>1. v = w /\ dueIn' = dueIn /\ pc[w] # "idle"
    BY <1>2, <1>4 DEF ClaimPayment, Process, Processed, RecordPassiveFailure, ReleasePayment,
                      CompletePayment, CallFails, Goes, Calls, messageVars
  <2>2. \A u \in Workers : pc'[u] # "idle" => u = v
    BY <1>2, <1>4, <2>1 DEF ClaimPayment, Process, Processed, RecordPassiveFailure, ReleasePayment,
                      CompletePayment, CallFails, Goes, Calls
  <2>3. AttemptLeft(v)' <= AttemptLeft(v)
    BY <1>1, <1>4, <2>1 DEF ClaimPayment, Process, Processed, RecordPassiveFailure, ReleasePayment,
                      CompletePayment, CallFails, Goes, Calls
  <2>4. QED
    BY <1>1, <1>2, <2>1, <2>2, <2>3
<1>5. ASSUME NEW w \in Workers, Nak(w) \/ Ack(w) \/ Crash(w)
      PROVE  FALSE
  <2>1. pc[w] # "idle" /\ pc'[w] = "idle" /\ pc'[v] = pc[v] /\ v # w
    BY <1>5 DEF Nak, Ack, Crash, Calls
  <2>2. QED
    BY <1>2, <2>1
<1>6. CASE MessageLost
  <2>1. CASE Deliver
    BY <1>2, <1>6, <2>1 DEF MessageLost, Deliver, Calls
  <2>2. ASSUME NEW w \in Workers, NEW call \in {"nak", "ack"}, Calls(w, call, "idle", 0)
        PROVE  FALSE
    BY <1>2, <2>2 DEF Calls
  <2>3. QED
    BY <1>6, <2>1, <2>2 DEF MessageLost
<1>7. CASE Tick
  BY <1>1, <1>2, <1>7 DEF Tick, Minus1
<1>8. CASE UNCHANGED leaseVars
  BY <1>1, <1>2, <1>8 DEF leaseVars
<1>9. QED
  BY <1>3, <1>4, <1>5, <1>6, <1>7, <1>8 DEF LeaseNext

-----------------------------------------------------------------------------
(***************************************************************************)
(* A Payment that is not completed does not stay alone.                    *)
(***************************************************************************)
LEMMA AttendedStep ==
  ASSUME LeaseInv, [LeaseNext]_leaseVars
  PROVE  AttendedOrWaiting'
<1> USE LeaseAssumption DEF LeaseInv, LeaseTypeOK, AttendedOrWaiting, Attempt
<1>1. ASSUME NEW w \in Workers, ClaimPayment(w)
      PROVE  AttendedOrWaiting'
  BY <1>1 DEF ClaimPayment, Claimable, Row, Goes, Calls, rowVars, messageVars
<1>2. ASSUME NEW w \in Workers,
             \/ Receive(w) \/ Process(w) \/ Processed(w) \/ RecordPassiveFailure(w) \/ Nak(w)
      PROVE  AttendedOrWaiting'
  BY <1>2 DEF Receive, Process, Processed, RecordPassiveFailure, Nak, Deliver, Calls,
              rowVars, messageVars, faultVars
<1>3. ASSUME NEW w \in Workers, Ack(w)
      PROVE  AttendedOrWaiting'
  BY <1>3 DEF Ack, Calls, rowVars, faultVars
<1>4. ASSUME NEW w \in Workers, ReleasePayment(w)
      PROVE  AttendedOrWaiting'
  <2>1. state' = "completed" <=> state = "completed"
    BY <1>4 DEF ReleasePayment, ReleaseRow, Row, rowVars
  <2>2. QED
    BY <1>4, <2>1 DEF ReleasePayment, Goes, Calls, messageVars, faultVars
<1>5. ASSUME NEW w \in Workers, CompletePayment(w)
      PROVE  AttendedOrWaiting'
  BY <1>5 DEF CompletePayment, CompleteRow, Row, Goes, Calls, rowVars, messageVars, faultVars
<1>6. ASSUME NEW w \in Workers, CallFails(w)
      PROVE  AttendedOrWaiting'
  <2>1. state = "completed" => state' = "completed"
    BY <1>6 DEF CallFails, Claimable, ReleaseRow, CompleteRow, Row, rowVars
  <2>2. \A v \in Workers : pc'[v] = "ack" => pc[v] = "ack"
    BY <1>6 DEF CallFails, Goes, Calls
  <2>3. QED
    BY <1>6, <2>1, <2>2 DEF CallFails, AFault, messageVars
<1>7. ASSUME NEW w \in Workers, Crash(w)
      PROVE  AttendedOrWaiting'
  BY <1>7 DEF Crash, AFault, Calls, messageVars
<1>8. CASE MessageLost
  BY <1>8 DEF MessageLost, AFault, Deliver, Calls, rowVars, messageVars
<1>9. CASE Tick
  BY <1>9 DEF Tick
<1>10. CASE UNCHANGED leaseVars
  BY <1>10 DEF leaseVars
<1>11. QED
  BY <1>1, <1>2, <1>3, <1>4, <1>5, <1>6, <1>7, <1>8, <1>9, <1>10 DEF LeaseNext

LEMMA WaitingStep ==
  ASSUME LeaseInv, [LeaseNext]_leaseVars
  PROVE  WaitingEnds'
<1> USE LeaseAssumption, DurationsArePositive
    DEF LeaseInv, LeaseTypeOK, CallsAreBounded, WaitingEnds, DueInTime
<1>1. /\ config' = config
      /\ (LeaseTypeOK /\ CallsAreBounded /\ DelaysAreBounded)'
  BY TypeStep, CallBoundsStep, DelayBoundsStep
\* After a fault, and while the Payment is attempted or completed, nothing has
\* been waited for yet.
<1>2. CASE unattended' = 0
  BY <1>1, <1>2 DEF DelaysAreBounded
<1>3. ASSUME NEW w \in Workers, Receive(w)
      PROVE  WaitingEnds'
  BY <1>1, <1>3 DEF Receive, Deliver, Calls, rowVars, faultVars
<1>4. ASSUME NEW w \in Workers, ClaimPayment(w)
      PROVE  WaitingEnds'
  BY <1>1, <1>2, <1>4 DEF ClaimPayment, AttendedOrWaiting, Claimable, Goes, Calls, rowVars
<1>5. ASSUME NEW w \in Workers,
             \/ Process(w) \/ Processed(w) \/ RecordPassiveFailure(w)
             \/ ReleasePayment(w) \/ CompletePayment(w) \/ Ack(w)
      PROVE  unattended' = 0
  BY <1>5 DEF Process, Processed, RecordPassiveFailure, ReleasePayment, CompletePayment, Ack,
              AttendedOrWaiting, Attempt, Goes, Calls, faultVars
<1>6. ASSUME NEW w \in Workers, Nak(w)
      PROVE  WaitingEnds'
  BY <1>1, <1>6 DEF Nak, Calls, rowVars, faultVars
<1>7. ASSUME NEW w \in Workers, CallFails(w) \/ Crash(w)
      PROVE  unattended' = 0
  BY <1>7 DEF CallFails, Crash, AFault
<1>8. CASE MessageLost
  BY <1>2, <1>8 DEF MessageLost, AFault
<1>9. CASE Tick
  <2>1. CASE state = "completed" \/ \E w \in Workers : pc[w] \in Attempt
    BY <1>2, <1>9, <2>1 DEF Tick
  <2>2. CASE state # "completed" /\ \A w \in Workers : pc[w] \notin Attempt
    <3>1. unattended' = unattended + 1
      BY <1>9, <2>2 DEF Tick
    <3>2. ASSUME NEW w \in Workers, pc[w] \in {"claim", "nak"}
          PROVE  pc'[w] = pc[w] /\ callLeft'[w] = callLeft[w] - 1 /\ callLeft'[w] \in Nat
      BY <1>9, <3>2 DEF Tick, Minus1
    <3>3. leaseLeft' > 0 => unattended' + leaseLeft' <= config.claimExpiry
      BY <1>9, <3>1 DEF Tick, Minus1
    <3>4. \A w \in Workers : pc'[w] = "nak" => unattended' + callLeft'[w] < config.claimExpiry + Statement
      BY <1>9, <3>1, <3>2 DEF Tick
    <3>5. CASE \E w \in Workers : pc[w] = "nak"
      BY <1>1, <3>2, <3>3, <3>4, <3>5
    <3>6. CASE \E w \in Workers : pc[w] = "claim" /\ DueInTime(unattended + callLeft[w] - Statement)
      BY <1>1, <3>1, <3>2, <3>3, <3>4, <3>6
    <3>7. CASE DueInTime(unattended + dueIn) /\ dueIn > 0
      BY <1>1, <1>9, <3>1, <3>3, <3>4, <3>7 DEF Tick, Minus1
    <3>8. CASE DueInTime(unattended + dueIn) /\ dueIn = 0
      <4>1. PICK w \in Workers : pc[w] # "idle"
        BY <1>9, <2>2, <3>8 DEF Tick, AttendedOrWaiting
      <4>2. pc[w] \in {"claim", "nak"}
        BY <2>2, <4>1 DEF AttendedOrWaiting, LeasePcs, Attempt
      <4>3. CASE pc[w] = "nak"
        BY <3>5, <4>3
      <4>4. CASE pc[w] = "claim"
        <5>1. DueInTime(unattended' + callLeft'[w] - Statement)
          BY <3>1, <3>2, <3>8, <4>4
        <5>2. QED
          BY <1>1, <3>2, <3>3, <3>4, <4>4, <5>1
      <4>5. QED
        BY <4>2, <4>3, <4>4
    <3>9. QED
      BY <3>5, <3>6, <3>7, <3>8
  <2>3. QED
    BY <2>1, <2>2
<1>10. CASE UNCHANGED leaseVars
  BY <1>10 DEF leaseVars
<1>11. QED
  BY <1>2, <1>3, <1>4, <1>5, <1>6, <1>7, <1>8, <1>9, <1>10 DEF LeaseNext

-----------------------------------------------------------------------------
\* In every reachable state the clocks leave room for the calls still to come,
\* and a Payment that nobody works on is on its way to be claimed.
THEOREM LeaseInvariant == LeaseSpec => []LeaseInv
<1>1. LeaseInit => LeaseInv
  <2> SUFFICES ASSUME LeaseInit
               PROVE  LeaseInv
    OBVIOUS
  <2> USE LeaseAssumption DEF LeaseInit
  <2>1. config.claimExpiry \in Nat /\ config.processorTimeout \in Nat /\ config.ackWait \in Nat
    BY DurationsArePositive
  <2>2. LeaseTypeOK
    BY <2>1 DEF LeaseTypeOK, LeasePcs, FromEnv
  <2>3. CallsAreBounded /\ DelaysAreBounded
    BY <2>1 DEF CallsAreBounded, DelaysAreBounded
  <2>4. LeaseCoversAttempt /\ DeliveryCoversAttempt /\ AttendedOrWaiting
    BY DEF LeaseCoversAttempt, DeliveryCoversAttempt, AttendedOrWaiting, Attempt
  <2>5. WaitingEnds
    BY <2>1 DEF WaitingEnds, DueInTime
  <2>6. QED
    BY <2>2, <2>3, <2>4, <2>5 DEF LeaseInv
<1>2. LeaseInv /\ [LeaseNext]_leaseVars => LeaseInv'
  <2> SUFFICES ASSUME LeaseInv, [LeaseNext]_leaseVars
               PROVE  LeaseInv'
    OBVIOUS
  <2>1. (config \in FromEnv)'
    BY TypeStep DEF LeaseInv, FromEnv
  <2>2. QED
    BY <2>1, TypeStep, CallBoundsStep, DelayBoundsStep, LeaseCoversStep, DeliveryCoversStep,
       AttendedStep, WaitingStep DEF LeaseInv
<1>3. QED
  BY <1>1, <1>2, PTL DEF LeaseSpec

\* Rows, calls and clocks stay within their ranges, and an owner or a running
\* lease belongs to a Payment in processing.
THEOREM LeaseTypeCorrect == LeaseSpec => []LeaseTypeOK
<1>1. LeaseInv => LeaseTypeOK
  BY DEF LeaseInv
<1>2. QED
  BY <1>1, LeaseInvariant, PTL

\* With PAYMENT_CLAIM_EXPIRY above PROCESSOR_TIMEOUT and three database calls no
\* lease runs out under a worker at its Payment, however many workers, crashes
\* and redeliveries there are.
THEOREM NoLeaseOverrun == LeaseSpec => []LeaseOutlivesAttempt
<1>1. LeaseInv => LeaseOutlivesAttempt
  <2> SUFFICES ASSUME LeaseInv, config.claimExpiry > AttemptTime,
                      NEW w \in Workers, pc[w] \in Attempt
               PROVE  claimedBy = w /\ leaseLeft > 0
    BY DEF LeaseOutlivesAttempt
  <2>1. AttemptLeft(w) \in Nat
    BY LeaseAssumption, DurationsArePositive DEF LeaseInv, LeaseTypeOK, AttemptLeft, StillToCome
  <2>2. QED
    BY <2>1, DurationsArePositive DEF LeaseInv, LeaseTypeOK, LeaseCoversAttempt
<1>2. QED
  BY <1>1, LeaseInvariant, PTL

\* With JETSTREAM_ACK_WAIT above the same time no reference is redelivered while
\* a worker still has it, so that one worker at a time has it.
THEOREM NoEarlyRedelivery == LeaseSpec => []OneDeliveryAtATime
<1>1. LeaseInv => OneDeliveryAtATime
  BY DEF LeaseInv, DeliveryCoversAttempt, OneDeliveryAtATime
<1>2. QED
  BY <1>1, LeaseInvariant, PTL

\* Under any accepted configuration a Payment that lost its worker, its claim or
\* its message is attempted again within the stated time.
THEOREM AbandonedIsTakenOver == LeaseSpec => []TakeoverInTime
<1>1. LeaseInv => TakeoverInTime
  BY LeaseAssumption, DurationsArePositive
     DEF LeaseInv, LeaseTypeOK, WaitingEnds, DueInTime, TakeoverInTime
<1>2. QED
  BY <1>1, LeaseInvariant, PTL
=============================================================================
