# Payment Processor: a verification project

TLA+ models of the Payment Processor backend (Go, `internal/`), TLC runs that check them on
small instances, and TLAPS proofs of their safety properties for every instance.

## 1. The system and its parts

Several instances of one program (`api-1`, `api-2` behind nginx) share one PostgreSQL database,
one NATS JetStream server and two external Payment Processors, Default and Fallback. They share
no memory; everything that coordinates them is a row, a message or an advisory lock.

| Component | Code | State | Operations | Meets the others through |
| --- | --- | --- | --- | --- |
| payment store | `database/postgres.go`, `init.sql` | tables `payments`, `payment_outbox` | Accept, ClaimOutbox, ReleaseOutbox, MarkOutboxDispatched, ClaimPayment, ReleasePayment, CompletePayment | called by all |
| acceptance | `intake`, `acceptance` | none | `POST /payments` | store |
| outbox dispatcher | `outbox/dispatcher.go` | its claim owner and row | claim, publish, release or mark | store, stream |
| work stream | `messaging/nats.go` (JetStream) | stored messages, duplicate window, pending acks | publish, deliver, ack, nak, redeliver | dispatchers, workers |
| processing workers | `processing/workers.go`, `processor/default.go` | delivery, claim, selected Processor | receive, select, claim, submit, complete or release, ack or nak | stream, store, Processors, availability cache |
| processor availability | `availability/availability.go` | table `processor_availability`, one cache per instance | hydrate, apply, select, record failure, record poll | store, core-NATS broadcast |
| health election | `availability/election.go` | advisory lock session | become leader, check, poll, step down | store, availability, Processors |
| payment summary | `summary/handler.go` | none | `GET /payments-summary` | store |
| processor client encoding | `processor/default.go` | none | what a Processor is told of a Payment | workers, Processors |
| process life cycle | `app/run.go`, `httpserver`, `cmd/api` | deferred calls, goroutines, connection pool | start, provision, serve, shut down, give back | all |
| configuration | `config/config.go` | none | `FromEnv` | all |
| deployment | `nginx.conf`, compose, `Dockerfile` | none | | |

What is hard, and what makes each part correct (`PROJECT.json` lists the hazards at their lines):

- *Store and workers.* Leases expire while their holder is still at work, so two workers may have
  the same Payment. Requests reach a Processor after the caller has given up. Replies of committed
  statements get lost. Correct means: one Processor per Payment for ever, counted once and only
  when that Processor has recorded it, a stale holder ends nobody else's lease, and every accepted
  Payment is completed in the end.
- *Outbox and stream.* A publication may time out and still arrive, be stored twice past the
  duplicate window, or be acknowledged while the mark is lost. Correct means: an accepted Payment
  always has work somewhere until it is completed, and every row is dispatched in the end.
- *Availability.* Updates reach a cache in any order and may be lost, an instance may start between
  a commit and its broadcast. Correct means: a cache only moves forward through persisted
  assessments, agrees with the table once nothing is under way, and no older poll overrides a
  failure.
- *Money.* A JSON amount is a binary float before it is cents, a Payment may be submitted again with
  another amount, totals may leave 64 bits. Correct means: the summary a client reads and what the
  Processors recorded agree, for every window of time.
- *Process.* Goroutines and requests must not outlive what they use, whatever fails and whenever a
  signal comes; everybody shares one pool, of which the leader keeps a connection. Correct means:
  resources are given back after their users are gone, `Run` returns, and nobody waits for ever.
- *Election.* The lock lives in a database session that may break. Correct means: somebody polls as
  long as an instance is up, and only one does.

## 2. The modules

```
Domain ── Store ──────┬── Outbox ─────┐
   │                  │               ├── PaymentSystem ──┬── PaymentProgress ──┬── MCPaymentSystem
   ├───── WorkStream ─┴── Processing ─┘        │          └── PaymentInvariant ─┤
   ├───── PaymentLifecycle ── (INSTANCE) ──────┘                               └── PaymentSafetyProofs ── PaymentRefinementProofs
   │
   ├───── Availability ── Election ── AvailabilitySystem ──┬── MCAvailabilitySystem
   └───── AvailabilityLog ── (INSTANCE) ──────┘            └── AvailabilityTypeProofs ── AvailabilityProofs

Amounts ──┬──── AmountsProofs ─────────┐
          └──┐             ┌── MCAudit │      ┌── MCLeaseTiming            ┌── MCProcessLife
PaymentLifecycle ── Audit ─┴── AuditProofs   LeaseTiming ── LeaseProofs   ProcessLife ── LifeProofs
```

Definitions keep the names of the code where they can; `PROJECT.json` maps each to its lines.
Definitions introduced by a comment `Mutant:` are deliberate errors: putting one in the place of
the definition that follows it makes the property of section 4 fail.

**Store** has one variable per column that the code branches on, and one operator per statement.
Each statement writes one row under its lock, so it is one atomic step. Its `WHERE` clause is the
first disjunct of an operator and the unmatched case its second. A lease's expiry timestamp is
one bit that may become true at any moment (`PaymentClaimExpires`, `OutboxClaimExpires`); no
relation between leases and timeouts is assumed, so safety holds for every configuration.

**WorkStream** is JetStream as configured by `ProvisionWorkStream` and `ProvisionWorkConsumer`:
explicit acks, AckWait, unlimited redelivery, MaxAckPending, work-queue retention, Msg-Id duplicate
window. A publication that timed out stays in `late` and may arrive whenever it likes.

**Outbox** and **Processing** have one program counter per owner and one action per blocking call of
`runWorker`; the outcomes of a call are separate actions (`PublishAcked`, `PublishFails`) or
disjuncts. `...Fails` and `...ReplyLost` let the statement take effect or not. A call that fails
without an effect and is repeated is a stuttering step. `StopWorker` and `StopDispatcher` are a
crash or a shutdown between any two calls; an owner that stopped does not come back, its
instance's restart brings new owners. What the Processors do is external: `ProcessorRecords` happens once per Payment
and Processor and at any time after the request was sent; a repeated request is answered with 422,
which the client takes for a confirmation just like 200.

**PaymentSystem** composes them with `Accept` (`POST /payments`, also for a duplicate, also when the
commit is reported as an error) and states the properties. **PaymentLifecycle** is the abstract
specification: accept, charge once, count once. **PaymentProgress** adds fairness. **PaymentInvariant**
is the inductive invariant.

**Availability** has the table, the caches and the messages between them. A statement's `now()` is
taken when it begins and its row is written when it is executed, so that statements overlap as they
do in PostgreSQL. An update is committed, then applied and broadcast; the instance may stop or the
reply get lost between any two of these. `persisted` and `failures` are history variables that only
properties read. **Election** has the advisory lock, the state of its connection and the leader's
loop. **AvailabilitySystem** composes and states the properties. **AvailabilityLog** is the abstract
specification: one growing log per Processor and views that move forward in it.

**Amounts** has `cents` of `intake` and the two `MarshalJSON` as pure operators over a float64 with
`Mantissa` significant bits and an int64 of `IntBits`; every float64 operation rounds to nearest, ties
to even; what is beyond the integers is one value past them all, since `cents` rejects it whatever it is. JSON
amounts are given in thousandths. **Audit** follows amount and acceptance time from the
request into the row, to the Processor and into the summary. For the course of a Payment it takes
PaymentLifecycle in place of outbox, stream, leases and workers; theorem `LifecycleImplemented`
(section 5) is what justifies that.

**LeaseTiming** puts clocks to one Payment: the lease, the time left of each worker's call, AckWait and
nak delay count down together when a second passes (`Tick`), and no second passes once a call's time is
up or a message is due and a worker idle. The configuration is chosen at the start from any that
`FromEnv` accepts. The code sets no limit to a database call; `Statement` stands for one. Outcomes are
those of Processing, with its crashes, failed calls and lost messages as `AFault`.

**ProcessLife** is one process. `run` is the call that `app.Run` is at, `deferred` its stack of deferred
calls: each start step pushes what it defers, and a return from any step pops them one after the other
(`Join` and `PoolClosed` wait). `ServerFails`, `GraceOver`, `Signal`, `StartFails` and `Kill` are the ways
to stop. Each user of the pool is idle, waits in the queue, or uses a connection; the leader keeps one
(`lead`) and asks for a second to poll. A server that has failed is not shut down, so connections that
clients keep alive bring requests while `Run` returns (`Handle`). Other instances, with the same or other
settings (`Rivals`), provision the stream and the consumer at any moment. The server creates a stream only if
there is none; `AddConsumer` of the client library looks the consumer up itself (`AddConsumerLooksUp`) and, if it
finds none, sends a request that creates *or updates* it (`UpsertConsumer`). So does every other instance that
found none (`others`), whenever its request arrives (`OtherUpsertsConsumer`); the history variable `overwritten`
says that ours has been replaced so.

## 3. What is checked

All runs check for deadlock: none of these systems can stop.

| Run | Instance | Shows |
| --- | --- | --- |
| `payment_race` | 1 Payment, 2 workers and 2 dispatchers, one of which has stopped and all of which may, 2 copies | `TypeOK`, `OneProcessor`, `CompletedIsRecorded`, `RemovedIsCompleted`, `WorkersFollowAssignment`, `NoLostWork`, `OnlyHolderEndsLease`, `OnlyHolderEndsOutboxClaim`, `DecisionsAreFinal`, and that the system implements PaymentLifecycle |
| `backlog_progress` | 1 pending delivery and 2 workers: a reference stored twice, one worker may stop; or 2 Payments, one held by the worker that has stopped | `AcceptedCompletes`, `StreamDrains`, and `IInv`, the inductive invariant of the proofs |
| `end_to_end_progress` | 1 Payment, 1 worker, 2 dispatchers of which one may stop | `AcceptedCompletes` from `POST /payments` on, and `OutboxDrains` |
| `availability_caches` | 2 instances, 1 failing worker, 2 versions, all faults | `TypeOK`, that the caches implement AvailabilityLog, and `QuietCachesAgree`: one assessment that is broadcast to all makes all agree again, whatever was lost before |
| `availability_quiet` | 2 instances, 1 failing worker, 2 versions, 2 times, no lost replies or broadcasts | `QuietCachesAgree`, `RecoveryFollowsFailures` |
| `leader_progress` | 2 instances, no versions | `LockIsInUse`, `PollingResumes` |
| `audit` | 2 Payments, one offered with about two hundred amounts, 2 times, 8-bit significand, 10-bit integers | `AuditTypeOK`, `SummaryMatchesProcessors`, `AmountsAreExact` |
| `lease_timing` | 1 Payment, 3 workers, 3 faults, 5 configurations | `LeaseTypeOK`, `LeaseOutlivesAttempt`, `OneDeliveryAtATime`, `TakeoverInTime` |
| `process_life` | 1 process with worker, election, 2 requests, other instances with the same and with other settings; pools of 1, 2 and 3 | `LifeTypeOK`, `GoroutinesKeepResources`, `RequestsKeepPool`, `WorksWithAcceptedSettings`, `CallersAreServed`, `RunEnds` |
| `overlapping_failures` | 1 instance, 2 failing workers | violation: see 6 |
| `stale_leader` | 2 instances | violation: see 6 |
| `consumer_race` | 1 process, another instance with other settings | violation: see 6 |

### Bounds

- `Payments`, `Workers`, `Dispatchers`, `Mortal`: the rows of different Payments do not interact
  except through the owners' attention and MaxAckPending, so races are checked on one Payment with
  two owners of the kind that races, and the interaction on two Payments.
- `RaceInit` and `RaceBound` (`payment_race`): one worker or one dispatcher has stopped before anything else
  happens, which any of them may, and the second copy of a reference is stored only beside a stopped worker. So
  two workers race beside one dispatcher, two dispatchers beside one worker. The request is answered 202; that its
  commit may be reported as an error is left to `end_to_end_progress`. All the rest of the calls is free, and the
  proofs hold without these bounds.
- `MaxCopies` (1 or 2): how often a reference can be stored in the stream; the duplicate window of
  a Payment passes only while a copy is left. Two copies are the first case that differs from one. In
  `end_to_end_progress` there is one: publications arrive late there but are not stored twice; what becomes of
  a second copy is `backlog_progress`, which starts with both.
- `MaxAckPending` 1 where deliveries compete for it.
- `MaxVersion` per Processor and `MaxTime` bound the availability table and its clock; the fallback's
  row is not written in these runs (bound 0), since the two rows never affect each other. Two versions
  suffice for an old and a new value to meet out of order, and for a failure and the recovery after it;
  the violation needs three. In `leader_progress` there are none: only the leader's loop matters, and its health
  requests all fail, which the program must survive.
- `BacklogInit` starts `backlog_progress` with every Payment accepted and dispatched, in one of two states that
  the system reaches: a reference has been stored twice, beyond its duplicate window, and the other Payment is
  done; or both Payments wait and `w2` has stopped for good while it held one of them, before or after its
  request to the Processor. Three messages at a time, or two with both workers alive, take TLC too long.

- `Mantissa` 8 and `IntBits` 10 instead of 53 and 64: below 2^6 cents every whole amount is exact (2^51
  for the program, about 2 * 10^13 in whole currency units), near 2^9 the limit of the range is not a
  float64 of its own, and two Payments can sum to more than an integer holds. The offered amounts are all
  thousandths up to 9 cents, whole cents up to 70, all thousandths around the limit, and two amounts far beyond
  it. The program's sizes are covered by the proofs, which hold for any.
- `lease_timing` has the defaults (lease 20 s, timeout 10 s, AckWait 15 s, nak 6 s), leases and AckWaits
  one second longer than an attempt or shorter than it, and one configuration that is rejected. Three
  faults leave one worker to each. The bounds of `TakeoverInTime` are reached in this run: one second less
  and the property fails.
- `process_life`: the election, a loop and two requests make a queue in which each can be behind another
  (dispatcher and worker use the pool alike); a pool of
  one is included because the configuration accepts it, and `CallersAreServed` excludes it in its premise:
  there the leader's first poll waits for itself. `RunEnds` includes it.

### Fairness

Every loop in the program retries for ever after a configured delay, so `ProgressFairness` has
weak fairness of each owner that has not stopped (its next call returns), of lease, ack-wait and nak
clocks, and of a Processor's dealing with a request it got. Strong fairness is assumed of one thing:
the consumer hands every available message to some worker again and again and passes over none for
ever, as JetStream does. Nothing is promised if calls fail for ever, so progress is stated for
behaviours in which from some moment on there is no `Fault`: lost replies, timeouts, failing
publications, lease overruns, no selectable Processor, lost acks. Any finite number of them may come
before, in any order. That payment leases do not overrun without a fault is
`LeaseOutlivesAttempt`: it needs a lease longer than the Processor timeout and three database calls,
which the default configuration has (20 s against 10 s) as long as calls take a second. For outbox
claims it is the publish timeout of 2 s against 5 s, which no run puts clocks to.

For the election (`ProgressSpec` of AvailabilitySystem) the assumption is that a running election's
calls return and that PostgreSQL notices a broken session; connections break, instances go down and
checks err finitely often. No restart is assumed: the property speaks of one instance that stays up.

For a process (`LifeFairness`) it is that each call of `Run` returns, statements end, the grace period
passes, a goroutine's call obeys its cancelled context, and pgxpool serves waiting callers in their order.
No signal, request or poll has to come, and a leader never has to give up its connection.

## 4. Can the properties fail?

Each property of a passing run is violated when one definition is replaced by a plausible error: for
example `OneProcessor` when the arguments of COALESCE are swapped, `CompletedIsRecorded` when any
status below 500 confirms, `RemovedIsCompleted` when all unclaimed deliveries are acked,
`OnlyHolderEndsLease` when the release does not check its owner, `NoLostWork` when the row is marked
dispatched after a failed publication, `AcceptedCompletes` when a lease is never taken over,
`StreamDrains` when a delivery of a completed Payment is nak'd, `QuietCachesAgree` when an instance
subscribes after hydrating, `LockIsInUse` and `PollingResumes` when the lock's connection is only returned to the pool,
`SummaryMatchesProcessors` when a repeated request updates the amount, `TakeoverInTime` when an expired
lease is not claimable, `GoroutinesKeepResources` when the goroutines are joined after the subscription
has ended, `RunEnds` when they are joined before they are cancelled, `WorksWithAcceptedSettings` when a
consumer found after a failed creation is bound to unread.
The list is in `PROJECT.json`.

## 5. What is proved

Every invariant and every action or refinement property of a passing run is a theorem, for every value of the
constants; `RecoveryFollowsFailures` has the premise that failures do not overlap. TLC checked
each inductive invariant on the runs' instances before it was proved; `IInv` is part of a run for good.

| Module | Theorems | For every | From the assumptions |
| --- | --- | --- | --- |
| `PaymentSafetyProofs` | `TypeCorrect` (`TypeOK`), `InvariantHolds` (`IInv`), `NeverLost`, `AlwaysOneProcessor`, `AuditIsTrue`, `RemovalFollowsCompletion`, `StaleWorkersAgree` | set of Payments, workers, dispatchers, `Mortal`; `MaxCopies`, `MaxAckPending` | `None` is no other value, bounds are positive |
| `PaymentRefinementProofs` | `LifecycleImplemented`, `DecisionsStayFinal`, `HoldersEndLeases`, `HoldersEndOutboxClaims` | same | same |
| `AvailabilityTypeProofs` | `AvailabilityTypeCorrect` (`TypeOK`) | set of instances and reporters, bounds, with and without `Faults` | those of Domain and Availability |
| `AvailabilityProofs` | `KnownStatesPersisted`, `LogImplemented` (`ImplementsLog`), `CachesAgree` (`QuietCachesAgree`), `RecoveriesFollow` (`RecoveryFollowsFailures`), `LockNeverIdle` (`LockIsInUse`), `SolePollerWhileConnected` (`SolePoller`) | same | same; `RecoveriesFollow` also that failures do not overlap, `SolePollerWhileConnected` that no session's connection breaks |
| `LeaseProofs` | `LeaseInvariant`, `LeaseTypeCorrect`, `NoLeaseOverrun`, `NoEarlyRedelivery`, `AbandonedIsTakenOver` | set of workers (not empty), number of faults, set of configurations, call length, nak delay | durations are integers; `FromEnv` rejects what is not positive |
| `LifeProofs` | `LifeInvariant`, `LifeTypeCorrect`, `ResourcesOutliveGoroutines`, `PoolOutlivesRequests`, `AcceptedSettingsOnly` (`WorksWithAcceptedSettings`) | finite set of loops and of requests, set of pool sizes, settings of others | election, loops and requests are distinct; sizes are integers |
| `AmountsProofs` | `LimitIsOneMore`, `CentsFitInt64`, `WholeCentsAreKept`, `NearestCentIsStored`, `AcceptedAmountsAreClose` | amount, word sizes | a significand of more than 5 bits, an integer at least two bits longer |
| `AuditProofs` | `AuditInvariant`, `RowInvariant`, `AuditTypeCorrect` (`AuditTypeOK`), `SummaryAgrees` (`SummaryMatchesProcessors`), `ExactAmounts` (`AmountsAreExact`) | finite set of Payments, sets of offered amounts, word sizes | same; amounts are integers |

**Payments.** The safety properties are not inductive. That no Payment is ever sent to two Processors holds because
every request went to the *row's* assignment (`RequestsFollowAssignment`), which needs that a worker
past its claim carries the row's assignment even when its lease is long gone (`WorkersHoldWork`), which
needs that an assignment, once made, never changes. That a completed Payment is recorded needs that a
worker about to complete has seen its Processor's record (`WorkersHoldWork`). That no work is
lost needs that a dispatcher about to mark a row has handed its reference over (`DispatchersHoldWork`),
that a Msg-Id inside the duplicate window refers to a queued or completed Payment, and that the stream
drops only completed ones (`ReferencesAreWork`). `IInv` is the conjunction of these parts. The proof
first shows that every step is *lasting*: acceptance, assignments, completions, requests and records
are never taken back, and a reference in the stream leaves it only for a completed Payment. Each part
of `IInv` that only needs such facts is then preserved without looking at the step again, and the
steps are gone through once for what they really change.

**Availability.** That a cache only moves forward through persisted assessments needs the same of everything
that may get into a cache: snapshots, broadcasts, committed but unapplied polls, reports about to return
(`KnownIsPersisted`), and that the version of a row is the length of its history (`HistoryEndsInRow`): only then
does a greater version mean a later entry of the same log. That quiet caches agree is turned into a statement
about every state: an instance has the latest assessment, or will read or be told it, or, without faults,
somebody is still to broadcast it (`CachesCatchUp`); when nothing is under way only the first is left. For a
newly committed assessment this holds because its writer has yet to broadcast it, and for a starting instance
because it subscribes before it reads. `RecoveriesFollow` needs that the row's failure time is the greatest
recorded one (`FailuresInOrder`). That is false when two failures of a Processor overlap (finding
`overlapping_failures`), hence the premise `[]FailuresDoNotOverlap`. It excludes no interleaving of failures
with polls, broadcasts, elections or failures of the other Processor, and run `availability_quiet`, with one
reporter, satisfies it.

**Election.** `SolePoller` is false when a session ends under its poller (finding `stale_leader`), so the theorem
has the premise `[][~ConnectionBreaks]_vars`: then whoever is past its election and has not given up holds the
lock in a working session (`PollersHoldLock`), whatever starts, crashes, errs or gives up, and the lock has one
holder. Without the premise `LockIsInUse` is still true and, with the types, inductive. Liveness of the election
rests on it: a working session is always under somebody who checks, polls or closes it.

**Lease timing.** A lease outlives its attempt because at each call it has at least the time left that this
call and those still to come may take (`LeaseCoversAttempt`, over `AttemptLeft`); the same bound over the
delivery's AckWait (`DeliveryCoversAttempt`) rules out a second delivery. Both need that each call is bounded
(`CallsAreBounded`). A takeover in time needs to know why a Payment is alone (`WaitingEnds`): a worker is about
to send its nak, or is claiming, or the reference comes due, each by a moment bounded from the start of the
solitude.

**Process.** What `Run` holds and the list of its deferred calls are functions of the call it is at, and during
the return of the position in that list (`ResourcesFollowRun`); goroutines live only while `join` is still on
it, and requests past the server only if they were left behind (`TasksFollowRun`); `serve` is reached only with
settings that were ours when `Run` read or wrote them (`SettingsFollowRun`). Those of the stream then stay; those
of the consumer stay or are overwritten by an instance that had found none, and nothing else changes them.
`WorksWithOwnSettings`, without that exception, is false of the program (finding `consumer_race`). That the pool is never overdrawn is
counting: one task's move changes the connections in use by what its old and new state hold (`InUseMoves`).

**Money.** A Processor was told what the row says, by the only request it recorded, and the row keeps saying it
(`ToldTheRow`). So the rows that the summary counts for a window and the recorded Payments not yet completed split
what the Processor recorded for it (`RecordsSplit`), with the same amounts (`AmountTold`); so also the sum that
does not fit an int64, and makes the request fail, is that of the Processor's own money (`AnswerAgrees`). That then the sums agree
is a fact about `SumFunctionOnSet`, whose order of summation is unspecified: AuditProofs first proves
that its recursion has a solution, that it depends on nothing but the values, that any element may be taken out
first, and that it adds up over disjoint sets. These are inductions on the cardinality; since the provers cannot
apply induction to a predicate, they are stated for a set of numbers, from the well-foundedness of `<`
(`LeastNatural`, `Induction`).

**Rounding.** AmountsProofs needs that powers of two double, which is no definition the provers can unfold; it
counts them instead: `2^n` is the number of subsets of a set of n elements (`FS_SUBSET` of the library), and one
more element doubles these (`PowerCountsSubsets`, `PowerDoubles`, `PowerOfSum`). Then `Float64` has a scale that
brings the quotient to exactly `Mantissa` bits (`ScaleFits`), so that its result is within half a unit of the
last place of its argument (`Float64IsClose`, `HalfAnUlp`). Three such errors (the decimal literal, the product by
100, the rounding to a cent) add up to half a cent and three parts in `2^Mantissa` (`ErrorsAddUp`, `CentsError`).
For a whole number of cents below `2^(Mantissa-2)` that is less than a cent, so it comes back; below
`2^(Mantissa-5)` cents it is so little that a fraction of a cent, which is a whole number of thousandths, cannot
pass to the farther cent. `LimitIsOneMore` says what the bound of handler.go:71 really is, and with it a stored
amount fits an int64 (`CentsFitInt64`), which is what `AuditTypeOK` needs.

Only model-checked:

- all progress properties (`AcceptedCompletes`, `StreamDrains`, `OutboxDrains`, `PollingResumes`,
  `CallersAreServed`, `RunEnds`): liveness under fairness is beyond the prover;
- the three findings, which are counterexamples.

## 6. Findings

- `overlapping_failures`: `RecordPassiveFailure` writes `passive_failure_at = now()` even if the row
  holds a later time. Statements of two workers that overlap can be executed against the order of
  their `now()`; then a healthy poll older than the latest failure makes the Processor available again,
  which the comment of `RecordPollObservation` (postgres.go:341-343) rules out. While failures of a
  Processor are recorded one at a time the comment is true (`availability_quiet`).
- `stale_leader`: the poller checks its lock session before each Processor and not after; when the
  session ends in between, the next leader polls beside it, contrary to "the one active Processor
  Availability poller" (election.go:14-15). No safety property depends on a sole poller:
  `ImplementsLog` is checked with stale leaders present.
- `consumer_race`: `ProvisionWorkConsumer` compares the settings once (nats.go:174) and binds for good. Two
  instances with another AckWait or MaxAckPending that both found no consumer both create it, and the later
  request updates what the earlier instance has accepted and works on, contrary to "ensures the single durable
  pull consumer shared by all instances has the delivery semantics required by processing workers"
  (nats.go:127-128). The safety properties of PaymentSystem assume nothing of AckWait and hold for every
  MaxAckPending; what depends on AckWait is `OneDeliveryAtATime` and, in part, `TakeoverInTime`, whose
  configuration is then the other instance's.

## 7. Abstractions

- The order of claims (`ORDER BY correlation_id`, `SKIP LOCKED`) is any order.
- A reference that is no UUID, an unknown Processor in a row and a missing client are left out: only
  the program writes references and rows, and both clients are always configured.
- `Select` in Processing returns any Processor or none, and `RecordPassiveFailure` has no effect there:
  the cache may hold anything. The two systems meet in this one interface.
- A late statement of a poller whose instance is down is left out (a stale leader's is the same), a
  late passive failure of one is kept (`orphaned`).
- Acceptance times are whole ticks; that JSON carries nanoseconds and PostgreSQL microseconds is left out.
  A bound of the summary is a time or absent; parameters that do not parse are answered 400 and read
  nothing. Of JSON only the number is modelled.
- The negative branches of both `MarshalJSON` are left out: the table has `CHECK (amount > 0)`. An amount
  below half a cent is positive for the contract (contract.md:30) but rejected by `cents`; no property
  takes sides.
- `Drain` returns before the NATS connection has drained; nothing is said about what is still unsent then.
- What JetStream and its client do on provisioning is external: `AddConsumer` of nats.go v1.53.1 (go.mod:8) looks
  up, compares, and sends a request without an action, which the server takes as create or update.
- HTTP details and logging are left out, and the idle waits between the calls of a loop.

Not modelled: deployment (`nginx.conf`, `docker-compose.yml`, `Dockerfile`), files without state of
their own; two instances behind nginx are what the instances of the models stand for. Of the
configuration only what FromEnv checks and what the timing and the pool depend on is modelled; addresses
and names have no behaviour. The starvation of a large Correlation ID behind one that cannot be published
(dispatcher.go:83) is not visible while claims come in any order.

## 8. Plan

1. *RoutedPayments*: PaymentSystem with `Select` reading an instance's cache and workers reporting passive
   failures, and that it implements PaymentSystem and AvailabilitySystem both.
2. *HandOff*: an at-least-once hand-off that Outbox and WorkStream alone implement.

To run: `tlc -config <run>.cfg <module>.tla` with the module that `PROJECT.json` names for the run, and
`tlapm <module>.tla` for the proofs of a module of section 5.
