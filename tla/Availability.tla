---------------------------- MODULE Availability ----------------------------
(***************************************************************************)
(* Processor Availability (internal/availability/availability.go with the  *)
(* table processor_availability): every update is committed in PostgreSQL  *)
(* under a new version, then applied to the local cache of the instance    *)
(* that made it, then broadcast to the other instances.  An instance       *)
(* subscribes to the broadcasts and then hydrates its cache from the table *)
(* (internal/app/run.go).  Workers report passive failures here; the       *)
(* health polls of Election use the same operations.                       *)
(***************************************************************************)
EXTENDS Domain, Naturals, Sequences

CONSTANTS
  Instances,    \* instances of the program
  Reporters,    \* processing workers that report passive failures, <<instance, number>>
  MaxVersion,   \* bound on the versions of each Processor's row
  MaxTime,      \* bound on the database clock
  Faults        \* whether replies and broadcasts get lost and instances go down in mid-call

ASSUME AvailabilityAssumption ==
  /\ None \notin Instances
  /\ Reporters \subseteq Instances \X Nat
  /\ MaxVersion \in [Services -> Nat]
  /\ MaxTime \in Nat \ {0}
  /\ Faults \in BOOLEAN

VARIABLES
  clock,      \* now() of the database
  row,        \* processor_availability; version 0 while the Processor has no row
  life,       \* of each instance, how far its start has come
  cache,      \* Service.state of each instance; version 0 for a missing entry
  snapshot,   \* of a hydrating instance, the rows it read and did not apply yet
  inFlight,   \* broadcasts on their way to each subscribed instance
  report,     \* the passive failure each worker is reporting
  persisted,  \* history: what each version of a row said
  failures,   \* history: the times of all passive failures recorded in a row
  announced   \* history: Processors whose row was broadcast to every subscription

rowVars      == <<clock, row, persisted, failures>>
tableVars    == <<rowVars, announced>>
instanceVars == <<life, cache, snapshot, inFlight>>
availabilityVars == <<tableVars, instanceVars, report>>

Never   == 0                                       \* passive_failure_at IS NULL
NoRow   == [available |-> FALSE, version |-> 0, failedAt |-> Never]
Unknown == [available |-> FALSE, version |-> 0]
Idle    == [step |-> "idle"]

Home(w) == w[1]

Times    == 1 .. MaxTime
States   == [available : BOOLEAN, version : Nat]
Events   == [service : Services, state : States]
Reports  == {Idle}
  \cup [step : {"begun", "orphaned"}, service : Services, at : Times]
  \cup [step : {"committed"}, service : Services, state : States]

AvailabilityTypeOK ==
  /\ clock \in Times
  /\ row \in [Services -> [available : BOOLEAN, version : Nat, failedAt : {Never} \cup Times]]
  /\ life \in [Instances -> {"down", "subscribed", "hydrating", "running"}]
  /\ cache \in [Instances -> [Services -> States]]
  /\ snapshot \in [Instances -> [Services -> States]]
  /\ inFlight \in [Instances -> SUBSET Events]
  /\ report \in [Reporters -> Reports]
  /\ persisted \in [Services -> Seq(BOOLEAN)]
  /\ failures \in [Services -> SUBSET Times]
  /\ announced \in SUBSET Services

AvailabilityInit ==
  /\ clock = 1
  /\ row = [s \in Services |-> NoRow]
  /\ life = [i \in Instances |-> "down"]
  /\ cache = [i \in Instances |-> [s \in Services |-> Unknown]]
  /\ snapshot = [i \in Instances |-> [s \in Services |-> Unknown]]
  /\ inFlight = [i \in Instances |-> {}]
  /\ report = [w \in Reporters |-> Idle]
  /\ persisted = [s \in Services |-> <<>>]
  /\ failures = [s \in Services |-> {}]
  /\ announced = {}

StateOf(r) == [available |-> r.available, version |-> r.version]

\* Some time may have passed since the last transaction began.
TimePasses == clock' \in {clock, clock + 1} \cap Times

-----------------------------------------------------------------------------
(***************************************************************************)
(* The statements of postgres.go.  A statement's now() is the start of its *)
(* transaction; the row is written when its lock has been granted.         *)
(***************************************************************************)

\* Bounded: the table is written, and what would be written is asked for,
\* only while the model has a version left.
WithinBound(s) == row[s].version < MaxVersion[s]

\* upsertProcessorAvailability: an insert has version 1, an update the next.
Upsert(s, available, failedAt) ==
  /\ WithinBound(s)
  /\ row' = [row EXCEPT ![s] = [available |-> available,
                                version   |-> row[s].version + 1,
                                failedAt  |-> failedAt]]
  /\ persisted' = [persisted EXCEPT ![s] = Append(@, available)]
  /\ announced' = announced \ {s}

UpsertFailure(s, at) ==
  /\ Upsert(s, FALSE, at)
  /\ failures' = [failures EXCEPT ![s] = @ \cup {at}]
  /\ UNCHANGED clock

\* Mutant: a poll that began with the failure's own timestamp counts as later.
ObservationHoldsIfEqual(s, available, startedAt) ==
  \/ ~available
  \/ row[s].failedAt = Never
  \/ row[s].failedAt <= startedAt

\* The WHERE clause of RecordPollObservation; a first row is always inserted.
ObservationHolds(s, available, startedAt) ==
  \/ ~available
  \/ row[s].failedAt = Never
  \/ row[s].failedAt < startedAt

UpsertObservation(s, available, startedAt) ==
  /\ ObservationHolds(s, available, startedAt)
  /\ Upsert(s, available, row[s].failedAt)
  /\ UNCHANGED <<clock, failures>>

-----------------------------------------------------------------------------
(***************************************************************************)
(* Service                                                                 *)
(***************************************************************************)
\* Mutant: the version is not compared.
ApplyAlways(i, s, state) ==
  cache' = [cache EXCEPT ![i][s] = IF state.version > 0 THEN state ELSE @]

Apply(i, s, state) ==
  cache' = [cache EXCEPT ![i][s] = IF state.version > @.version THEN state ELSE @]

\* Mutant: an instance subscribes only after it has hydrated its cache.
BroadcastToRunning(s, state) ==
  \E receivers \in SUBSET {i \in Instances : life[i] = "running"} :
    /\ Faults \/ \A i \in Instances : life[i] = "running" => i \in receivers
    /\ inFlight' = [i \in Instances |->
         IF i \in receivers THEN inFlight[i] \cup {[service |-> s, state |-> state]}
                            ELSE inFlight[i]]
    /\ announced' = IF state.version = row[s].version
                      /\ \A i \in Instances : life[i] = "running" => i \in receivers
                   THEN announced \cup {s} ELSE announced

\* A core-NATS publication reaches the subscriptions that are active, the
\* publisher's own among them; with faults, only some of them or none.
Broadcast(s, state) ==
  \E receivers \in SUBSET {i \in Instances : life[i] # "down"} :
    /\ Faults \/ \A i \in Instances : life[i] # "down" => i \in receivers
    /\ inFlight' = [i \in Instances |->
         IF i \in receivers THEN inFlight[i] \cup {[service |-> s, state |-> state]}
                            ELSE inFlight[i]]
    /\ announced' = IF state.version = row[s].version
                      /\ \A i \in Instances : life[i] # "down" => i \in receivers
                   THEN announced \cup {s} ELSE announced

ApplyAndBroadcast(i, s, state) ==
  /\ Apply(i, s, state)
  /\ Broadcast(s, state)
  /\ UNCHANGED <<life, snapshot>>

\* The subscription's handler: Apply of a received event.
Deliver(i) ==
  /\ \E event \in inFlight[i] :
       /\ Apply(i, event.service, event.state)
       /\ inFlight' = [inFlight EXCEPT ![i] = @ \ {event}]
  /\ UNCHANGED <<tableVars, life, snapshot, report>>

(***************************************************************************)
(* RecordPassiveFailure by a worker: its statement begins, commits and     *)
(* returns; then the new state is applied and broadcast.                   *)
(***************************************************************************)
FailureBegins(w, s) ==
  /\ life[Home(w)] = "running"
  /\ report[w] = Idle
  /\ WithinBound(s)
  /\ TimePasses
  /\ report' = [report EXCEPT ![w] = [step |-> "begun", service |-> s, at |-> clock']]
  /\ UNCHANGED <<row, persisted, failures, announced, instanceVars>>

FailureCommits(w) ==
  LET s == report[w].service
  IN  /\ report[w].step = "begun"
      /\ UpsertFailure(s, report[w].at)
      /\ report' = [report EXCEPT ![w] =
           [step |-> "committed", service |-> s, state |-> StateOf(row'[s])]]
      /\ UNCHANGED instanceVars

FailureReturns(w) ==
  /\ report[w].step = "committed"
  /\ ApplyAndBroadcast(Home(w), report[w].service, report[w].state)
  /\ report' = [report EXCEPT ![w] = Idle]
  /\ UNCHANGED rowVars

\* The statement errs at the worker or its process has gone; it is executed
\* all the same or never.
FailureErrs(w) ==
  /\ \/ report[w].step = "begun" /\ Faults
     \/ report[w].step = "orphaned"
  /\ report' = [report EXCEPT ![w] = Idle]
  /\ \/ UpsertFailure(report[w].service, report[w].at)
     \/ UNCHANGED tableVars
  /\ UNCHANGED instanceVars

-----------------------------------------------------------------------------
(***************************************************************************)
(* The start of an instance: subscribe, read the table, apply what it      *)
(* says, run.                                                              *)
(***************************************************************************)
Subscribe(i) ==
  /\ life[i] = "down"
  /\ life' = [life EXCEPT ![i] = "subscribed"]
  /\ UNCHANGED <<tableVars, cache, snapshot, inFlight, report>>

HydrateReads(i) ==
  /\ life[i] = "subscribed"
  /\ life' = [life EXCEPT ![i] = "hydrating"]
  /\ snapshot' = [snapshot EXCEPT ![i] = [s \in Services |-> StateOf(row[s])]]
  /\ UNCHANGED <<tableVars, cache, inFlight, report>>

HydrateApplies(i, s) ==
  /\ life[i] = "hydrating"
  /\ snapshot[i][s] # Unknown
  /\ Apply(i, s, snapshot[i][s])
  /\ snapshot' = [snapshot EXCEPT ![i][s] = Unknown]
  /\ UNCHANGED <<tableVars, life, inFlight, report>>

Starts(i) ==
  /\ life[i] = "hydrating"
  /\ \A s \in Services : snapshot[i][s] = Unknown
  /\ life' = [life EXCEPT ![i] = "running"]
  /\ UNCHANGED <<tableVars, cache, snapshot, inFlight, report>>

\* The instance has no reply to wait for.
Settled(i) == \A w \in Reporters : Home(w) = i => report[w] = Idle

\* A crash, a failed hydration or a shutdown: what was in memory is gone, a
\* statement already sent may still be executed.
GoesDown(i) ==
  /\ life[i] # "down"
  /\ Faults \/ Settled(i)
  /\ life' = [life EXCEPT ![i] = "down"]
  /\ cache' = [cache EXCEPT ![i] = [s \in Services |-> Unknown]]
  /\ snapshot' = [snapshot EXCEPT ![i] = [s \in Services |-> Unknown]]
  /\ inFlight' = [inFlight EXCEPT ![i] = {}]
  /\ report' = [w \in Reporters |->
       CASE Home(w) = i /\ report[w].step = "begun" -> [report[w] EXCEPT !.step = "orphaned"]
         [] Home(w) = i /\ report[w].step = "committed" -> Idle
         [] OTHER -> report[w]]
  /\ UNCHANGED tableVars

InstanceStep(i) ==
  \/ Deliver(i)
  \/ Subscribe(i)
  \/ HydrateReads(i)
  \/ \E s \in Services : HydrateApplies(i, s)
  \/ Starts(i)

ReporterStep(w) ==
  \/ \E s \in Services : FailureBegins(w, s)
  \/ FailureCommits(w)
  \/ FailureReturns(w)
  \/ FailureErrs(w)
=============================================================================
