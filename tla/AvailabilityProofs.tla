------------------------- MODULE AvailabilityProofs -------------------------
(***************************************************************************)
(* AvailabilitySystem implements AvailabilityLog, its caches agree with    *)
(* the table once nothing is on its way, and recoveries follow failures    *)
(* that do not overlap: for any instances, workers and bounds.             *)
(***************************************************************************)
EXTENDS AvailabilityTypeProofs

Latest(s) == StateOf(row[s])

\* What some version of a Processor's row said; Unknown before the first.
Assessed(history, state) ==
  \/ state = Unknown
  \/ /\ state \in States
     /\ state.version \in 1 .. Len(history)
     /\ state.available = history[state.version]

HistoryEndsInRow ==
  \A s \in Services : /\ Len(persisted[s]) = row[s].version
                      /\ Assessed(persisted[s], Latest(s))

\* Whatever an instance holds, has read or is about to be told was persisted.
KnownIsPersisted ==
  /\ \A i \in Instances, s \in Services : /\ Assessed(persisted[s], cache[i][s])
                                          /\ Assessed(persisted[s], snapshot[i][s])
  /\ \A i \in Instances : Assessed(persisted[target[i]], committed[i])
  /\ \A i \in Instances : \A event \in inFlight[i] :
       Assessed(persisted[event.service], event.state)
  /\ \A w \in Reporters :
       report[w].step = "committed" => Assessed(persisted[report[w].service], report[w].state)

LogInv == TypeOK /\ HistoryEndsInRow /\ KnownIsPersisted

\* A call that is still to return will broadcast the latest assessment.
WillBeBroadcast(s) ==
  \/ \E w \in Reporters : /\ report[w].step = "committed"
                          /\ report[w].service = s
                          /\ report[w].state = Latest(s)
  \/ \E j \in Instances : electionPc[j] = "apply" /\ target[j] = s /\ committed[j] = Latest(s)

\* The instance routes by the latest assessment, or has it before it.
HasOrWillLearn(i, s) ==
  \/ cache[i][s] = Latest(s)
  \/ life[i] = "subscribed"
  \/ life[i] = "hydrating" /\ snapshot[i][s] = Latest(s)
  \/ [service |-> s, state |-> Latest(s)] \in inFlight[i]
  \/ ~Faults /\ WillBeBroadcast(s)

CachesCatchUp ==
  \A i \in Instances, s \in Services :
    life[i] # "down" /\ (~Faults \/ s \in announced) => HasOrWillLearn(i, s)

\* Without faults an instance waits for its replies before it goes down.
NoneOrphaned == ~Faults => \A w \in Reporters : report[w].step # "orphaned"

AgreementInv == LogInv /\ NoneOrphaned /\ CachesCatchUp

\* The statement of a passive failure has begun and may still be executed.
Pending(w) == report[w].step \in {"begun", "orphaned"}

\* No two workers' statements are under way for the same Processor.
FailuresDoNotOverlap ==
  \A v, w \in Reporters :
    Pending(v) /\ Pending(w) /\ report[v].service = report[w].service => v = w

\* The row remembers the latest passive failure, and one that is under way
\* began after those that are recorded.
FailuresInOrder ==
  /\ \A s \in Services : \A at \in failures[s] : at <= row[s].failedAt /\ at <= clock
  /\ \A w \in Reporters : Pending(w) =>
       /\ report[w].at <= clock
       /\ \A at \in failures[report[w].service] : at <= report[w].at

-----------------------------------------------------------------------------
(***************************************************************************)
(* The history of a row and what is known of it.                           *)
(***************************************************************************)
LEMMA AppendAssessed ==
  ASSUME NEW history \in Seq(BOOLEAN), NEW available \in BOOLEAN, NEW state,
         Assessed(history, state)
  PROVE  Assessed(Append(history, available), state)
<1>1. /\ Len(Append(history, available)) = Len(history) + 1
      /\ \A n \in 1 .. Len(history) : Append(history, available)[n] = history[n]
  OBVIOUS
<1>2. Len(history) \in Nat
  OBVIOUS
<1>3. QED
  BY <1>1, <1>2 DEF Assessed

\* Versions decide: what was persisted is no newer than the row, and the row
\* itself when it is as new.
LEMMA NewestIsLatest ==
  ASSUME TypeOK, HistoryEndsInRow, NEW s \in Services, NEW state,
         Assessed(persisted[s], state)
  PROVE  /\ state \in States
         /\ state.version <= row[s].version
         /\ state.version >= row[s].version => state = Latest(s)
<1>1. /\ row[s].version \in Nat
      /\ Latest(s) \in States
      /\ Latest(s).version = row[s].version
  BY DEF TypeOK, AvailabilityTypeOK, Latest, StateOf, States
<1>2. Unknown \in States /\ Unknown.version = 0
  BY DEF Unknown, States
<1>3. Len(persisted[s]) = row[s].version /\ Assessed(persisted[s], Latest(s))
  BY DEF HistoryEndsInRow
<1>4. CASE state = Unknown
  BY <1>1, <1>2, <1>3, <1>4 DEF Assessed
<1>5. CASE state # Unknown
  <2>1. /\ state \in States
        /\ state.version \in 1 .. row[s].version
        /\ state.available = persisted[s][state.version]
    BY <1>3, <1>5 DEF Assessed
  <2>2. ASSUME state.version >= row[s].version
        PROVE  state = Latest(s)
    <3>1. state.version = row[s].version
      BY <1>1, <2>1, <2>2
    <3>2. Latest(s) # Unknown
      BY <1>1, <1>2, <2>1, <3>1
    <3>3. state.available = Latest(s).available
      BY <1>1, <1>3, <2>1, <3>1, <3>2 DEF Assessed
    <3>4. QED
      BY <1>1, <2>1, <3>1, <3>3 DEF States
  <2>3. QED
    BY <1>1, <2>1, <2>2
<1>6. QED
  BY <1>4, <1>5

LEMMA UpsertKeepsHistory ==
  ASSUME TypeOK, HistoryEndsInRow, NEW s \in Services, NEW available \in BOOLEAN,
         NEW failedAt \in {Never} \cup Times, Upsert(s, available, failedAt)
  PROVE  /\ HistoryEndsInRow'
         /\ Assessed(persisted'[s], StateOf(row'[s]))
         /\ \A t \in Services : \A state :
              Assessed(persisted[t], state) => Assessed(persisted'[t], state)
         /\ persisted' = [persisted EXCEPT ![s] = Append(@, available)]
<1>1. AvailabilityTypeOK
  BY DEF TypeOK
<1>2. /\ persisted \in [Services -> Seq(BOOLEAN)]
      /\ row[s].version \in Nat
      /\ Len(persisted[s]) = row[s].version
  BY DEF TypeOK, AvailabilityTypeOK, HistoryEndsInRow
<1>3. persisted' = [persisted EXCEPT ![s] = Append(@, available)]
  BY DEF Upsert
<1>4. /\ row'[s].version = row[s].version + 1
      /\ row'[s].available = available
      /\ StateOf(row'[s]) \in States
      /\ \A t \in Services : t # s => row'[t] = row[t]
  BY <1>1, UpsertTypes
<1>5. \A t \in Services : \A state :
        Assessed(persisted[t], state) => Assessed(persisted'[t], state)
  BY <1>2, <1>3, AppendAssessed
<1>6. Assessed(persisted'[s], StateOf(row'[s]))
  <2>1. persisted'[s] = Append(persisted[s], available)
    BY <1>2, <1>3
  <2>2. Len(persisted'[s]) = row'[s].version /\ persisted'[s][row'[s].version] = available
    BY <1>2, <1>4, <2>1
  <2>3. QED
    BY <1>2, <1>4, <2>2 DEF Assessed, StateOf
<1>7. ASSUME NEW t \in Services
      PROVE  Len(persisted'[t]) = row'[t].version /\ Assessed(persisted'[t], StateOf(row'[t]))
  <2>1. CASE t = s
    BY <1>2, <1>3, <1>4, <1>6, <2>1
  <2>2. CASE t # s
    BY <1>2, <1>3, <1>4, <2>2 DEF HistoryEndsInRow, Latest
  <2>3. QED
    BY <2>1, <2>2
<1>8. QED
  BY <1>3, <1>5, <1>6, <1>7 DEF HistoryEndsInRow, Latest

LEMMA ApplyKeepsPersisted ==
  ASSUME TypeOK, KnownIsPersisted, NEW i \in Instances, NEW s \in Services, NEW state,
         Assessed(persisted[s], state), Apply(i, s, state)
  PROVE  \A j \in Instances, t \in Services : Assessed(persisted[t], cache'[j][t])
<1>1. cache \in [Instances -> [Services -> States]]
  BY DEF TypeOK, AvailabilityTypeOK
<1>2. \A j \in Instances, t \in Services :
        cache'[j][t] = cache[j][t] \/ (t = s /\ cache'[j][t] = state)
  BY <1>1 DEF Apply
<1>3. QED
  BY <1>2 DEF KnownIsPersisted

LEMMA BroadcastKeepsPersisted ==
  ASSUME TypeOK, KnownIsPersisted, NEW s \in Services, NEW state,
         Assessed(persisted[s], state), Broadcast(s, state)
  PROVE  \A i \in Instances : \A event \in inFlight'[i] :
           Assessed(persisted[event.service], event.state)
<1>1. ASSUME NEW i \in Instances, NEW event \in inFlight'[i]
      PROVE  event \in inFlight[i] \/ event = [service |-> s, state |-> state]
  BY <1>1 DEF Broadcast
<1>2. QED
  BY <1>1 DEF KnownIsPersisted

\* A statement that writes the table leaves what is known persisted.
LEMMA WriteKeepsPersisted ==
  ASSUME LogInv, NEW s \in Services, NEW available \in BOOLEAN,
         NEW failedAt \in {Never} \cup Times, Upsert(s, available, failedAt),
         UNCHANGED instanceVars
  PROVE  /\ HistoryEndsInRow'
         /\ Assessed(persisted'[s], StateOf(row'[s]))
         /\ \A i \in Instances, t \in Services : /\ Assessed(persisted'[t], cache'[i][t])
                                                 /\ Assessed(persisted'[t], snapshot'[i][t])
         /\ \A i \in Instances : Assessed(persisted'[target[i]], committed[i])
         /\ \A i \in Instances : \A event \in inFlight'[i] :
              Assessed(persisted'[event.service], event.state)
         /\ \A w \in Reporters :
              report[w].step = "committed" => Assessed(persisted'[report[w].service], report[w].state)
<1>1. /\ HistoryEndsInRow'
      /\ Assessed(persisted'[s], StateOf(row'[s]))
      /\ \A t \in Services : \A state :
           Assessed(persisted[t], state) => Assessed(persisted'[t], state)
  BY UpsertKeepsHistory DEF LogInv
<1>2. /\ \A i \in Instances : target[i] \in Services
      /\ \A i \in Instances : \A event \in inFlight[i] : event.service \in Services
  BY DEF LogInv, TypeOK, AvailabilityTypeOK, ElectionTypeOK, Events
<1>3. \A w \in Reporters : report[w].step = "committed" => report[w].service \in Services
  BY ReportCases DEF LogInv, TypeOK, AvailabilityTypeOK
<1>4. QED
  BY <1>1, <1>2, <1>3 DEF LogInv, KnownIsPersisted, instanceVars

LEMMA InstanceStepLog ==
  ASSUME LogInv, NEW i \in Instances, InstanceStep(i), UNCHANGED electionVars
  PROVE  HistoryEndsInRow' /\ KnownIsPersisted'
<1> USE DEF LogInv
<1>1. /\ UNCHANGED <<row, persisted, report, target, committed>>
  BY DEF InstanceStep, Deliver, Subscribe, HydrateReads, HydrateApplies, Starts,
         tableVars, rowVars, electionVars, pollVars
<1>2. HistoryEndsInRow'
  BY <1>1 DEF HistoryEndsInRow, Latest
<1>3. ASSUME \A j \in Instances, s \in Services : /\ Assessed(persisted[s], cache'[j][s])
                                                  /\ Assessed(persisted[s], snapshot'[j][s]),
             \A j \in Instances : inFlight'[j] \subseteq inFlight[j]
      PROVE  KnownIsPersisted'
  BY <1>1, <1>3 DEF KnownIsPersisted
<1>4. \A j \in Instances, s \in Services : /\ Assessed(persisted[s], cache[j][s])
                                           /\ Assessed(persisted[s], snapshot[j][s])
  BY DEF KnownIsPersisted
<1>5. CASE Deliver(i)
  <2>1. PICK event \in inFlight[i] :
          /\ Apply(i, event.service, event.state)
          /\ inFlight' = [inFlight EXCEPT ![i] = @ \ {event}]
          /\ UNCHANGED snapshot
    BY <1>5 DEF Deliver
  <2>2. event.service \in Services /\ Assessed(persisted[event.service], event.state)
    <3>1. event \in Events
      BY DEF TypeOK, AvailabilityTypeOK
    <3>2. QED
      BY <3>1 DEF KnownIsPersisted, Events
  <2>3. \A j \in Instances, s \in Services : Assessed(persisted[s], cache'[j][s])
    BY <2>1, <2>2, ApplyKeepsPersisted
  <2>4. \A j \in Instances : inFlight'[j] \subseteq inFlight[j]
    <3>1. inFlight \in [Instances -> SUBSET Events]
      BY DEF TypeOK, AvailabilityTypeOK
    <3>2. QED
      BY <2>1, <3>1
  <2>5. QED
    BY <1>2, <1>3, <1>4, <2>1, <2>3, <2>4
<1>6. CASE Subscribe(i) \/ Starts(i)
  BY <1>2, <1>3, <1>4, <1>6 DEF Subscribe, Starts
<1>7. CASE HydrateReads(i)
  <2>1. \A j \in Instances, s \in Services :
          snapshot'[j][s] = snapshot[j][s] \/ snapshot'[j][s] = Latest(s)
    <3>1. snapshot \in [Instances -> [Services -> States]]
      BY DEF TypeOK, AvailabilityTypeOK
    <3>2. QED
      BY <1>7, <3>1 DEF HydrateReads, Latest
  <2>2. QED
    BY <1>2, <1>3, <1>4, <1>7, <2>1 DEF HydrateReads, HistoryEndsInRow
<1>8. ASSUME NEW s \in Services, HydrateApplies(i, s)
      PROVE  KnownIsPersisted'
  <2>1. \A j \in Instances, t \in Services : Assessed(persisted[t], cache'[j][t])
    BY <1>8, ApplyKeepsPersisted DEF HydrateApplies, KnownIsPersisted
  <2>2. \A j \in Instances, t \in Services :
          snapshot'[j][t] = snapshot[j][t] \/ snapshot'[j][t] = Unknown
    <3>1. snapshot \in [Instances -> [Services -> States]]
      BY DEF TypeOK, AvailabilityTypeOK
    <3>2. QED
      BY <1>8, <3>1 DEF HydrateApplies
  <2>3. \A j \in Instances, t \in Services : Assessed(persisted[t], snapshot'[j][t])
    BY <2>2 DEF KnownIsPersisted, Assessed
  <2>4. QED
    BY <1>3, <1>8, <2>1, <2>3 DEF HydrateApplies
<1>9. QED
  BY <1>2, <1>5, <1>6, <1>7, <1>8 DEF InstanceStep

LEMMA ReporterStepLog ==
  ASSUME LogInv, NEW w \in Reporters, ReporterStep(w), UNCHANGED electionVars
  PROVE  HistoryEndsInRow' /\ KnownIsPersisted'
<1> USE DEF LogInv
<1>1. /\ UNCHANGED <<target, committed>>
      /\ report \in [Reporters -> Reports]
      /\ AvailabilityTypeOK
  BY DEF electionVars, pollVars, TypeOK, AvailabilityTypeOK
<1>2. ASSUME NEW s \in Services, FailureBegins(w, s)
      PROVE  HistoryEndsInRow' /\ KnownIsPersisted'
  <2>1. UNCHANGED <<row, persisted, cache, snapshot, inFlight>>
    BY <1>2 DEF FailureBegins, instanceVars
  <2>2. \A v \in Reporters : report'[v] = report[v] \/ report'[v].step = "begun"
    BY <1>1, <1>2 DEF FailureBegins
  <2>3. KnownIsPersisted'
    BY <1>1, <2>1, <2>2 DEF KnownIsPersisted
  <2>4. HistoryEndsInRow'
    BY <2>1 DEF HistoryEndsInRow, Latest
  <2>5. QED
    BY <2>3, <2>4
<1>3. ASSUME FailureCommits(w)
      PROVE  HistoryEndsInRow' /\ KnownIsPersisted'
  <2> DEFINE s == report[w].service
  <2>1. /\ s \in Services
        /\ report[w].at \in Times
        /\ Upsert(s, FALSE, report[w].at)
        /\ report' = [report EXCEPT ![w] =
             [step |-> "committed", service |-> s, state |-> StateOf(row'[s])]]
        /\ UNCHANGED instanceVars
    BY <1>1, <1>3, ReportCases DEF FailureCommits, UpsertFailure
  <2>2. \A v \in Reporters : \/ report'[v] = report[v]
                             \/ report'[v].service = s /\ report'[v].state = StateOf(row'[s])
    BY <1>1, <2>1
  <2>3. FALSE \in BOOLEAN /\ report[w].at \in {Never} \cup Times
    BY <2>1
  <2> HIDE DEF s
  <2>4. QED
    BY <1>1, <2>1, <2>2, <2>3, WriteKeepsPersisted DEF KnownIsPersisted
<1>4. ASSUME FailureReturns(w)
      PROVE  HistoryEndsInRow' /\ KnownIsPersisted'
  <2>1. /\ report[w].service \in Services
        /\ Assessed(persisted[report[w].service], report[w].state)
        /\ Apply(Home(w), report[w].service, report[w].state)
        /\ Broadcast(report[w].service, report[w].state)
        /\ report' = [report EXCEPT ![w] = Idle]
        /\ UNCHANGED <<snapshot, row, persisted>>
    BY <1>1, <1>4, ReportCases DEF FailureReturns, ApplyAndBroadcast, KnownIsPersisted, rowVars
  <2>2. \A v \in Reporters : report'[v] = report[v] \/ report'[v].step = "idle"
    BY <1>1, <2>1 DEF Idle
  <2>3. \A j \in Instances, t \in Services : Assessed(persisted[t], cache'[j][t])
    BY <2>1, ApplyKeepsPersisted, HomeIsInstance
  <2>4. \A i \in Instances : \A event \in inFlight'[i] :
          Assessed(persisted[event.service], event.state)
    BY <2>1, BroadcastKeepsPersisted
  <2>5. KnownIsPersisted'
    BY <1>1, <2>1, <2>2, <2>3, <2>4 DEF KnownIsPersisted
  <2>6. HistoryEndsInRow'
    BY <2>1 DEF HistoryEndsInRow, Latest
  <2>7. QED
    BY <2>5, <2>6
<1>5. ASSUME FailureErrs(w)
      PROVE  HistoryEndsInRow' /\ KnownIsPersisted'
  <2>1. /\ report[w].service \in Services
        /\ report[w].at \in Times
        /\ report' = [report EXCEPT ![w] = Idle]
        /\ UNCHANGED instanceVars
    BY <1>1, <1>5, ReportCases DEF FailureErrs
  <2>2. \A v \in Reporters : report'[v] = report[v] \/ report'[v].step = "idle"
    BY <1>1, <2>1 DEF Idle
  <2>3. CASE UNCHANGED tableVars
    BY <1>1, <2>1, <2>2, <2>3 DEF tableVars, rowVars, instanceVars, HistoryEndsInRow, Latest, KnownIsPersisted
  <2>4. CASE UpsertFailure(report[w].service, report[w].at)
    <3>1. /\ Upsert(report[w].service, FALSE, report[w].at)
          /\ FALSE \in BOOLEAN
          /\ report[w].at \in {Never} \cup Times
      BY <2>1, <2>4 DEF UpsertFailure
    <3>2. QED
      BY <1>1, <2>1, <2>2, <3>1, WriteKeepsPersisted DEF KnownIsPersisted
  <2>5. QED
    BY <1>5, <2>3, <2>4 DEF FailureErrs
<1>6. QED
  BY <1>2, <1>3, <1>4, <1>5 DEF ReporterStep

\* No election has a new state to apply.
KeepsOrDropsAnswers ==
  \A j \in Instances : \/ committed'[j] = committed[j] /\ target'[j] = target[j]
                       \/ committed'[j] = Unknown

\* The answer to a health request is written, whoever gets to know the version.
LEMMA ObservationLog ==
  ASSUME LogInv, NEW i \in Instances, UpsertObservation(target[i], answer[i], startedAt[i]),
         UNCHANGED <<instanceVars, report>>
  PROVE  /\ HistoryEndsInRow'
         /\ Assessed(persisted'[target[i]], StateOf(row'[target[i]]))
         /\ (\A j \in Instances : \/ committed'[j] = committed[j] /\ target'[j] = target[j]
                                  \/ committed'[j] = Unknown
                                  \/ j = i /\ target'[i] = target[i]
                                       /\ committed'[i] = StateOf(row'[target[i]]))
            => KnownIsPersisted'
<1>1. /\ target[i] \in Services
      /\ answer[i] \in BOOLEAN
      /\ row[target[i]].failedAt \in {Never} \cup Times
  BY DEF LogInv, TypeOK, ElectionTypeOK, AvailabilityTypeOK
<1>2. Upsert(target[i], answer[i], row[target[i]].failedAt)
  BY DEF UpsertObservation
<1>3. /\ HistoryEndsInRow'
      /\ Assessed(persisted'[target[i]], StateOf(row'[target[i]]))
      /\ \A j \in Instances, t \in Services : /\ Assessed(persisted'[t], cache'[j][t])
                                              /\ Assessed(persisted'[t], snapshot'[j][t])
      /\ \A j \in Instances : Assessed(persisted'[target[j]], committed[j])
      /\ \A j \in Instances : \A event \in inFlight'[j] :
           Assessed(persisted'[event.service], event.state)
      /\ \A w \in Reporters :
           report[w].step = "committed" => Assessed(persisted'[report[w].service], report[w].state)
  BY <1>1, <1>2, WriteKeepsPersisted
<1>4. \A history : Assessed(history, Unknown)
  BY DEF Assessed
<1>5. QED
  BY <1>3, <1>4 DEF KnownIsPersisted

LEMMA ElectionStepLog ==
  ASSUME LogInv, NEW i \in Instances, ElectionStep(i)
  PROVE  HistoryEndsInRow' /\ KnownIsPersisted'
<1> USE DEF LogInv
<1>1. /\ target \in [Instances -> Services]
      /\ committed \in [Instances -> States]
      /\ electionPc \in [Instances -> {"standby", "check", "start", "request", "record", "apply", "close"}]
      /\ \A j \in Instances : electionPc[j] # "apply" => committed[j] = Unknown
  BY DEF TypeOK, ElectionTypeOK
<1>2. \A history : Assessed(history, Unknown)
  BY DEF Assessed
<1>3. ASSUME UNCHANGED <<row, persisted, cache, snapshot, inFlight, report>>,
             KeepsOrDropsAnswers
      PROVE  HistoryEndsInRow' /\ KnownIsPersisted'
  <2>1. KnownIsPersisted'
    BY <1>2, <1>3 DEF KnownIsPersisted, KeepsOrDropsAnswers
  <2>2. HistoryEndsInRow'
    BY <1>3 DEF HistoryEndsInRow, Latest
  <2>3. QED
    BY <2>1, <2>2
<1>4. \A from : NextProcessor(i, from) => KeepsOrDropsAnswers
  BY <1>1 DEF NextProcessor, KeepsOrDropsAnswers
<1>5. CASE \/ ObservationRejected(i) \/ PollStartErrs(i) \/ HealthRequestFails(i)
  BY <1>3, <1>4, <1>5
  DEF ObservationRejected, PollStartErrs, HealthRequestFails, availabilityVars, tableVars, rowVars, instanceVars
<1>6. CASE TryHealthLeadership(i) \/ Close(i)
  <2>1. /\ committed' = committed
        /\ electionPc[i] # "apply"
        /\ target' = [target EXCEPT ![i] = "default"]
        /\ UNCHANGED availabilityVars
    BY <1>6 DEF TryHealthLeadership, Close, Polling
  <2>2. KeepsOrDropsAnswers
    BY <1>1, <2>1 DEF KeepsOrDropsAnswers
  <2>3. QED
    BY <1>3, <2>1, <2>2 DEF availabilityVars, tableVars, rowVars, instanceVars
<1>7. CASE CheckSucceeds(i) \/ CheckFails(i) \/ ProcessorAnswers(i) \/ PollStarts(i)
  BY <1>3, <1>7 DEF CheckSucceeds, CheckFails, ProcessorAnswers, PollStarts, KeepPoll,
                    availabilityVars, tableVars, rowVars, instanceVars,
                    KeepsOrDropsAnswers
<1>8. CASE ObservationCommits(i)
  BY <1>1, <1>8, ObservationLog DEF ObservationCommits
<1>9. CASE ObservationErrs(i)
  <2>1. KeepsOrDropsAnswers
    BY <1>4, <1>9 DEF ObservationErrs
  <2>2. CASE UNCHANGED tableVars
    <3>1. UNCHANGED <<row, persisted, cache, snapshot, inFlight, report>>
      BY <1>9, <2>2 DEF ObservationErrs, tableVars, rowVars, instanceVars
    <3>2. QED
      BY <1>3, <2>1, <3>1
  <2>3. CASE UpsertObservation(target[i], answer[i], startedAt[i])
    <3>1. UNCHANGED <<instanceVars, report>>
      BY <1>9 DEF ObservationErrs
    <3>2. \A j \in Instances : \/ committed'[j] = committed[j] /\ target'[j] = target[j]
                               \/ committed'[j] = Unknown
                               \/ j = i /\ target'[i] = target[i]
                                    /\ committed'[i] = StateOf(row'[target[i]])
      BY <2>1 DEF KeepsOrDropsAnswers
    <3>3. QED
      BY <2>3, <3>1, <3>2, ObservationLog
  <2>4. QED
    BY <1>9, <2>2, <2>3 DEF ObservationErrs
<1>10. CASE ObservationReturns(i)
  <2>1. /\ target[i] \in Services
        /\ Assessed(persisted[target[i]], committed[i])
        /\ Apply(i, target[i], committed[i])
        /\ Broadcast(target[i], committed[i])
        /\ UNCHANGED <<snapshot, row, persisted, report>>
    BY <1>1, <1>10 DEF ObservationReturns, ApplyAndBroadcast, KnownIsPersisted, rowVars
  <2>2. KeepsOrDropsAnswers
    BY <1>4, <1>10 DEF ObservationReturns
  <2>3. \A j \in Instances, t \in Services : Assessed(persisted[t], cache'[j][t])
    BY <2>1, ApplyKeepsPersisted
  <2>4. \A j \in Instances : \A event \in inFlight'[j] :
          Assessed(persisted[event.service], event.state)
    BY <2>1, BroadcastKeepsPersisted
  <2>5. KnownIsPersisted'
    BY <1>2, <2>1, <2>2, <2>3, <2>4 DEF KnownIsPersisted, KeepsOrDropsAnswers
  <2>6. HistoryEndsInRow'
    BY <2>1 DEF HistoryEndsInRow, Latest
  <2>7. QED
    BY <2>5, <2>6
<1>11. QED
  BY <1>5, <1>6, <1>7, <1>8, <1>9, <1>10 DEF ElectionStep

LEMMA GoesDownLog ==
  ASSUME LogInv, NEW i \in Instances, GoesDown(i), ElectionGoesDown(i)
  PROVE  HistoryEndsInRow' /\ KnownIsPersisted'
<1> USE DEF LogInv
<1>1. UNCHANGED <<row, persisted>>
  BY DEF GoesDown, tableVars, rowVars
<1>2. \A history : Assessed(history, Unknown)
  BY DEF Assessed
<1>3. \A j \in Instances, s \in Services :
        /\ cache'[j][s] = cache[j][s] \/ cache'[j][s] = Unknown
        /\ snapshot'[j][s] = snapshot[j][s] \/ snapshot'[j][s] = Unknown
  <2>1. cache \in [Instances -> [Services -> States]] /\ snapshot \in [Instances -> [Services -> States]]
    BY DEF TypeOK, AvailabilityTypeOK
  <2>2. QED
    BY <2>1 DEF GoesDown
<1>4. \A j \in Instances : inFlight'[j] \subseteq inFlight[j]
  <2>1. inFlight \in [Instances -> SUBSET Events]
    BY DEF TypeOK, AvailabilityTypeOK
  <2>2. QED
    BY <2>1 DEF GoesDown
<1>5. KeepsOrDropsAnswers
  BY DEF ElectionGoesDown, TypeOK, ElectionTypeOK, KeepsOrDropsAnswers
<1>6. \A w \in Reporters : report'[w].step = "committed" => report'[w] = report[w]
  <2>1. ASSUME NEW w \in Reporters
        PROVE  report'[w].step = "committed" => report'[w] = report[w]
    <3>1. report[w] \in Reports
      BY DEF TypeOK, AvailabilityTypeOK
    <3>2. report[w].step = "begun" => [report[w] EXCEPT !.step = "orphaned"].step = "orphaned"
      <4>1. \A r \in [step : {"begun", "orphaned"}, service : Services, at : Times] :
              [r EXCEPT !.step = "orphaned"].step = "orphaned"
        OBVIOUS
      <4>2. QED
        BY <3>1, <4>1, ReportCases
    <3>3. Idle.step = "idle"
      BY DEF Idle
    <3>4. ReportAfterCrash(w, i)
      BY CrashReports
    <3>5. QED
      BY <3>2, <3>3, <3>4 DEF ReportAfterCrash
  <2>2. QED
    BY <2>1
<1>7. KnownIsPersisted'
  BY <1>1, <1>2, <1>3, <1>4, <1>5, <1>6 DEF KnownIsPersisted, KeepsOrDropsAnswers
<1>8. HistoryEndsInRow'
  BY <1>1 DEF HistoryEndsInRow, Latest
<1>9. QED
  BY <1>7, <1>8

\* The table's history ends in its rows, and every assessment that an instance
\* holds, has read, or is about to be told is one that the table persisted.
THEOREM KnownStatesPersisted == Spec => []LogInv
<1>1. Init => LogInv
  <2>1. ASSUME Init
        PROVE  HistoryEndsInRow /\ KnownIsPersisted
    <3>1. \A s \in Services : Len(persisted[s]) = row[s].version /\ Latest(s) = Unknown
      BY <2>1 DEF Init, AvailabilityInit, Latest, StateOf, NoRow, Unknown
    <3>2. \A history : Assessed(history, Unknown)
      BY DEF Assessed
    <3>3. HistoryEndsInRow
      BY <3>1, <3>2 DEF HistoryEndsInRow
    <3>4. KnownIsPersisted
      BY <2>1, <3>2 DEF Init, AvailabilityInit, ElectionInit, KnownIsPersisted, Idle
    <3>5. QED
      BY <3>3, <3>4
  <2>2. QED
    BY <2>1, InitTypes DEF LogInv
<1>2. LogInv /\ [Next]_vars => LogInv'
  <2>1. SUFFICES ASSUME LogInv, [Next]_vars
                 PROVE  HistoryEndsInRow' /\ KnownIsPersisted'
    BY NextTypes DEF LogInv
  <2>2. CASE ConnectionBreaks \/ SessionEnds \/ UNCHANGED vars
    <3>1. UNCHANGED <<row, persisted, cache, snapshot, inFlight, report, target, committed>>
      BY <2>2 DEF ConnectionBreaks, SessionEnds, vars, availabilityVars, tableVars, rowVars,
                  instanceVars, electionVars, pollVars
    <3>2. HistoryEndsInRow'
      BY <2>1, <3>1 DEF LogInv, HistoryEndsInRow, Latest
    <3>3. KnownIsPersisted'
      BY <2>1, <3>1 DEF LogInv, KnownIsPersisted
    <3>4. QED
      BY <3>2, <3>3
  <2>3. QED
    BY <2>1, <2>2, InstanceStepLog, ReporterStepLog, ElectionStepLog, GoesDownLog DEF Next
<1>3. QED
  BY <1>1, <1>2, PTL DEF Spec

-----------------------------------------------------------------------------
(***************************************************************************)
(* The step simulation: a statement that writes is an assessment, applying *)
(* a newer state is learning it, going down is forgetting.                 *)
(***************************************************************************)
LEMMA UpsertAssesses ==
  ASSUME LogInv, NEW s \in Services, NEW available \in BOOLEAN,
         NEW failedAt \in {Never} \cup Times, Upsert(s, available, failedAt), UNCHANGED cache
  PROVE  Log!LogNext
<1>1. persisted' = [persisted EXCEPT ![s] = Append(@, available)]
  BY UpsertKeepsHistory DEF LogInv
<1>2. persisted \in [Services -> Seq(BOOLEAN)]
  BY DEF LogInv, TypeOK, AvailabilityTypeOK
<1>3. Len(Append(persisted[s], available)) # Len(persisted[s])
  BY <1>2
<1>4. persisted' # persisted
  BY <1>1, <1>2, <1>3
<1>5. QED
  BY <1>1, <1>4 DEF Log!LogNext, Log!Assess, Log!Services, Services

LEMMA ApplyLearns ==
  ASSUME LogInv, NEW i \in Instances, NEW s \in Services, NEW state,
         Assessed(persisted[s], state), Apply(i, s, state), UNCHANGED persisted
  PROVE  Log!LogNext \/ UNCHANGED cache
<1>1. cache \in [Instances -> [Services -> States]]
  BY DEF LogInv, TypeOK, AvailabilityTypeOK
<1>2. state \in States
  BY NewestIsLatest DEF LogInv
<1>3. CASE state.version > cache[i][s].version
  <2>1. cache' = [cache EXCEPT ![i][s] = state]
    BY <1>1, <1>3 DEF Apply
  <2>2. state # Unknown
    BY <1>1, <1>3 DEF Unknown, States
  <2>3. /\ state.version \in (cache[i][s].version + 1) .. Len(persisted[s])
        /\ state = [available |-> persisted[s][state.version], version |-> state.version]
    BY <1>1, <1>2, <1>3, <2>2 DEF Assessed, States
  <2>4. cache' # cache
    BY <1>1, <1>3, <2>1 DEF States
  <2>5. Log!Learn(i, s)
    BY <2>1, <2>3 DEF Log!Learn
  <2>6. QED
    BY <2>4, <2>5 DEF Log!LogNext, Log!Services, Services
<1>4. CASE ~(state.version > cache[i][s].version)
  BY <1>1, <1>4 DEF Apply
<1>5. QED
  BY <1>3, <1>4

LEMMA NextSimulated ==
  ASSUME LogInv, [Next]_vars
  PROVE  [Log!LogNext]_Log!logVars
<1> USE DEF LogInv
<1>1. /\ report \in [Reporters -> Reports]
      /\ target \in [Instances -> Services]
      /\ answer \in [Instances -> BOOLEAN]
      /\ row \in [Services -> [available : BOOLEAN, version : Nat, failedAt : {Never} \cup Times]]
      /\ snapshot \in [Instances -> [Services -> States]]
      /\ inFlight \in [Instances -> SUBSET Events]
  BY DEF TypeOK, AvailabilityTypeOK, ElectionTypeOK
<1>2. UNCHANGED persisted /\ UNCHANGED cache => UNCHANGED Log!logVars
  BY DEF Log!logVars
<1>3. ASSUME NEW i \in Instances, InstanceStep(i)
      PROVE  [Log!LogNext]_Log!logVars
  <2>1. UNCHANGED persisted
    BY <1>3 DEF InstanceStep, Deliver, Subscribe, HydrateReads, HydrateApplies, Starts, tableVars, rowVars
  <2>2. CASE Deliver(i)
    <3>1. PICK event \in inFlight[i] : Apply(i, event.service, event.state)
      BY <2>2 DEF Deliver
    <3>2. event.service \in Services /\ Assessed(persisted[event.service], event.state)
      BY <1>1 DEF KnownIsPersisted, Events
    <3>3. QED
      BY <1>2, <2>1, <3>1, <3>2, ApplyLearns
  <2>3. ASSUME NEW s \in Services, HydrateApplies(i, s)
        PROVE  [Log!LogNext]_Log!logVars
    <3>1. Apply(i, s, snapshot[i][s]) /\ Assessed(persisted[s], snapshot[i][s])
      BY <2>3 DEF HydrateApplies, KnownIsPersisted
    <3>2. QED
      BY <1>2, <2>1, <3>1, ApplyLearns
  <2>4. CASE Subscribe(i) \/ HydrateReads(i) \/ Starts(i)
    BY <1>2, <2>1, <2>4 DEF Subscribe, HydrateReads, Starts
  <2>5. QED
    BY <1>3, <2>2, <2>3, <2>4 DEF InstanceStep
<1>4. ASSUME NEW w \in Reporters, ReporterStep(w)
      PROVE  [Log!LogNext]_Log!logVars
  <2>1. ASSUME NEW s \in Services, FailureBegins(w, s)
        PROVE  [Log!LogNext]_Log!logVars
    BY <1>2, <2>1 DEF FailureBegins, instanceVars
  <2>2. ASSUME report[w].step \in {"begun", "orphaned"},
               UpsertFailure(report[w].service, report[w].at), UNCHANGED instanceVars
        PROVE  [Log!LogNext]_Log!logVars
    <3>1. /\ report[w].service \in Services
          /\ report[w].at \in {Never} \cup Times
      BY <1>1, <2>2, ReportCases
    <3>2. Upsert(report[w].service, FALSE, report[w].at) /\ FALSE \in BOOLEAN /\ UNCHANGED cache
      BY <2>2 DEF UpsertFailure, instanceVars
    <3>3. QED
      BY <3>1, <3>2, UpsertAssesses
  <2>3. CASE FailureCommits(w)
    BY <2>2, <2>3 DEF FailureCommits
  <2>4. CASE FailureReturns(w)
    <3>1. /\ report[w].service \in Services
          /\ Assessed(persisted[report[w].service], report[w].state)
      BY <1>1, <2>4, ReportCases DEF FailureReturns, KnownIsPersisted
    <3>2. Apply(Home(w), report[w].service, report[w].state) /\ UNCHANGED persisted
      BY <2>4 DEF FailureReturns, ApplyAndBroadcast, rowVars
    <3>3. QED
      BY <1>2, <3>1, <3>2, ApplyLearns, HomeIsInstance
  <2>5. CASE FailureErrs(w)
    BY <1>2, <2>2, <2>5 DEF FailureErrs, tableVars, rowVars, instanceVars
  <2>6. QED
    BY <1>4, <2>1, <2>3, <2>4, <2>5 DEF ReporterStep
<1>5. ASSUME NEW i \in Instances, ElectionStep(i)
      PROVE  [Log!LogNext]_Log!logVars
  <2>1. ASSUME UpsertObservation(target[i], answer[i], startedAt[i]), UNCHANGED instanceVars
        PROVE  [Log!LogNext]_Log!logVars
    <3>1. /\ Upsert(target[i], answer[i], row[target[i]].failedAt)
          /\ UNCHANGED cache
      BY <2>1 DEF UpsertObservation, instanceVars
    <3>2. row[target[i]].failedAt \in {Never} \cup Times
      BY <1>1
    <3>3. QED
      BY <1>1, <3>1, <3>2, UpsertAssesses
  <2>2. CASE ObservationCommits(i)
    BY <2>1, <2>2 DEF ObservationCommits
  <2>3. CASE ObservationErrs(i)
    BY <1>2, <2>1, <2>3 DEF ObservationErrs, tableVars, rowVars, instanceVars
  <2>4. CASE ObservationReturns(i)
    <3>1. Apply(i, target[i], committed[i]) /\ UNCHANGED persisted
      BY <2>4 DEF ObservationReturns, ApplyAndBroadcast, rowVars
    <3>2. target[i] \in Services /\ Assessed(persisted[target[i]], committed[i])
      BY <1>1 DEF KnownIsPersisted
    <3>3. QED
      BY <1>2, <3>1, <3>2, ApplyLearns
  <2>5. CASE \/ TryHealthLeadership(i) \/ CheckSucceeds(i) \/ CheckFails(i) \/ Close(i)
             \/ PollStarts(i) \/ ProcessorAnswers(i) \/ ObservationRejected(i)
             \/ PollStartErrs(i) \/ HealthRequestFails(i)
    BY <1>2, <2>5
    DEF TryHealthLeadership, CheckSucceeds, CheckFails, Close, PollStarts, ProcessorAnswers,
        ObservationRejected, PollStartErrs, HealthRequestFails,
        availabilityVars, tableVars, rowVars, instanceVars
  <2>6. QED
    BY <1>5, <2>2, <2>3, <2>4, <2>5 DEF ElectionStep
<1>6. ASSUME NEW i \in Instances, GoesDown(i)
      PROVE  [Log!LogNext]_Log!logVars
  <2>1. /\ cache' = [cache EXCEPT ![i] = [s \in Services |-> Unknown]]
        /\ UNCHANGED persisted
    BY <1>6 DEF GoesDown, tableVars, rowVars
  <2>2. Log!Forget(i)
    BY <2>1 DEF Log!Forget, Log!NoView, Log!Services, Services, Unknown
  <2>3. QED
    BY <1>2, <2>1, <2>2 DEF Log!LogNext
<1>7. CASE ConnectionBreaks \/ SessionEnds \/ UNCHANGED vars
  BY <1>2, <1>7 DEF ConnectionBreaks, SessionEnds, vars, availabilityVars, tableVars, rowVars, instanceVars
<1>8. QED
  BY <1>3, <1>4, <1>5, <1>6, <1>7 DEF Next

\* AvailabilitySystem implements AvailabilityLog: one growing history for each
\* Processor, of which a cache only ever shows what was persisted, and only ever
\* something newer until its instance goes down.
THEOREM LogImplemented == Spec => ImplementsLog
<1>1. Init => Log!LogInit
  BY DEF Init, AvailabilityInit, Log!LogInit, Log!NoView, Log!Services, Services, Unknown
<1>2. LogInv /\ [Next]_vars => [Log!LogNext]_Log!logVars
  BY NextSimulated
<1>3. QED
  BY <1>1, <1>2, KnownStatesPersisted, PTL DEF Spec, ImplementsLog, Log!LogSpec

-----------------------------------------------------------------------------
(***************************************************************************)
(* Agreement of the caches.                                                *)
(***************************************************************************)
LEMMA ApplyKeepsLatest ==
  ASSUME LogInv, NEW i \in Instances, NEW s \in Services, NEW state,
         Assessed(persisted[s], state), Apply(i, s, state)
  PROVE  /\ \A j \in Instances, t \in Services : cache[j][t] = Latest(t) => cache'[j][t] = Latest(t)
         /\ state = Latest(s) => cache'[i][s] = Latest(s)
<1>1. /\ cache \in [Instances -> [Services -> States]]
      /\ cache' = [cache EXCEPT ![i][s] = IF state.version > @.version THEN state ELSE @]
  BY DEF LogInv, TypeOK, AvailabilityTypeOK, Apply
<1>2. /\ row[s].version \in Nat
      /\ Latest(s).version = row[s].version
  BY DEF LogInv, TypeOK, AvailabilityTypeOK, Latest, StateOf
<1>3. state.version \in Nat /\ state.version <= row[s].version
  BY NewestIsLatest DEF LogInv, States
<1>4. /\ cache[i][s].version \in Nat
      /\ cache[i][s].version >= row[s].version => cache[i][s] = Latest(s)
  BY <1>1, NewestIsLatest DEF LogInv, KnownIsPersisted, States
<1>5. /\ cache'[i][s] = IF state.version > cache[i][s].version THEN state ELSE cache[i][s]
      /\ \A j \in Instances, t \in Services : j # i \/ t # s => cache'[j][t] = cache[j][t]
  BY <1>1
<1>6. cache[i][s] = Latest(s) => cache'[i][s] = Latest(s)
  BY <1>2, <1>3, <1>5
<1>7. state = Latest(s) => cache'[i][s] = Latest(s)
  BY <1>2, <1>3, <1>4, <1>5
<1>8. QED
  BY <1>5, <1>6, <1>7

\* Nothing was persisted of a Processor of which a cache need not know anything.
LEMMA KnowsNothingYet ==
  ASSUME LogInv, NEW i \in Instances, NEW s \in Services, Latest(s) = Unknown
  PROVE  cache[i][s] = Latest(s)
<1>1. row[s].version = 0
  BY DEF Latest, StateOf, Unknown
<1>2. cache[i][s] \in States
  BY DEF LogInv, TypeOK, AvailabilityTypeOK
<1>3. cache[i][s].version >= row[s].version
  BY <1>1, <1>2 DEF States
<1>4. QED
  BY <1>3, NewestIsLatest DEF LogInv, KnownIsPersisted

\* A write only ends the agreement on its own Processor, and without faults it
\* comes with a reply that will be broadcast.
LEMMA WriteCatchesUp ==
  ASSUME AgreementInv, NEW s \in Services, NEW available, NEW failedAt,
         Upsert(s, available, failedAt), UNCHANGED instanceVars,
         ~Faults => WillBeBroadcast(s)',
         \A t \in Services \ {s} : ~Faults /\ WillBeBroadcast(t) => WillBeBroadcast(t)'
  PROVE  CachesCatchUp'
<1>1. /\ announced' = announced \ {s}
      /\ \A t \in Services : t # s => row'[t] = row[t]
      /\ UNCHANGED <<life, cache, snapshot, inFlight>>
  BY DEF Upsert, AgreementInv, LogInv, TypeOK, AvailabilityTypeOK, instanceVars
<1>2. SUFFICES ASSUME NEW i \in Instances, NEW t \in Services,
                      life[i] # "down", ~Faults \/ t \in announced'
               PROVE  HasOrWillLearn(i, t)'
  BY <1>1 DEF CachesCatchUp
<1>3. CASE t = s
  BY <1>1, <1>2, <1>3 DEF HasOrWillLearn
<1>4. CASE t # s
  <2>1. Latest(t)' = Latest(t)
    BY <1>1, <1>4 DEF Latest
  <2>2. HasOrWillLearn(i, t)
    BY <1>1, <1>2 DEF AgreementInv, CachesCatchUp
  <2>3. ~Faults /\ WillBeBroadcast(t) => WillBeBroadcast(t)'
    BY <1>4
  <2>4. QED
    BY <1>1, <2>1, <2>2, <2>3 DEF HasOrWillLearn
<1>5. QED
  BY <1>3, <1>4

\* The call that returns applies and broadcasts what it knows.
LEMMA ReturnCatchesUp ==
  ASSUME AgreementInv, NEW i \in Instances, NEW s \in Services, NEW state,
         Assessed(persisted[s], state), ApplyAndBroadcast(i, s, state), UNCHANGED row,
         \A t \in Services :
           WillBeBroadcast(t) => WillBeBroadcast(t)' \/ (t = s /\ state = Latest(s))
  PROVE  CachesCatchUp'
<1>1. /\ UNCHANGED <<life, snapshot>>
      /\ \A t \in Services : Latest(t)' = Latest(t)
      /\ Apply(i, s, state)
  BY DEF ApplyAndBroadcast, Latest
<1>2. PICK receivers \in SUBSET {j \in Instances : life[j] # "down"} :
        /\ Faults \/ \A j \in Instances : life[j] # "down" => j \in receivers
        /\ inFlight' = [j \in Instances |->
             IF j \in receivers THEN inFlight[j] \cup {[service |-> s, state |-> state]}
                                ELSE inFlight[j]]
        /\ announced' = IF state.version = row[s].version
                          /\ \A j \in Instances : life[j] # "down" => j \in receivers
                       THEN announced \cup {s} ELSE announced
  BY DEF ApplyAndBroadcast, Broadcast
<1>3. SUFFICES ASSUME NEW j \in Instances, NEW t \in Services,
                      life[j] # "down", ~Faults \/ t \in announced'
               PROVE  HasOrWillLearn(j, t)'
  BY <1>1 DEF CachesCatchUp
<1>4. inFlight[j] \subseteq inFlight'[j]
  BY <1>2
<1>5. cache[j][t] = Latest(t) => cache'[j][t] = Latest(t)
  BY <1>1, ApplyKeepsLatest DEF AgreementInv
<1>6. CASE t = s /\ state = Latest(s) /\ \A k \in Instances : life[k] # "down" => k \in receivers
  <2>1. [service |-> t, state |-> Latest(t)] \in inFlight'[j]
    BY <1>2, <1>3, <1>6
  <2>2. QED
    BY <1>1, <2>1 DEF HasOrWillLearn
<1>7. CASE ~(t = s /\ state = Latest(s) /\ \A k \in Instances : life[k] # "down" => k \in receivers)
  <2>1. row[s].version \in Nat
    BY DEF AgreementInv, LogInv, TypeOK, AvailabilityTypeOK
  <2>2. state.version = row[s].version => state = Latest(s)
    BY <2>1, NewestIsLatest DEF AgreementInv, LogInv
  <2>3. ~Faults \/ t \in announced
    BY <1>2, <1>3, <1>7, <2>2
  <2>4. HasOrWillLearn(j, t)
    BY <1>3, <2>3 DEF AgreementInv, CachesCatchUp
  <2>5. ~Faults /\ WillBeBroadcast(t) => WillBeBroadcast(t)'
    BY <1>2, <1>7
  <2>6. QED
    BY <1>1, <1>4, <1>5, <2>4, <2>5 DEF HasOrWillLearn
<1>8. QED
  BY <1>6, <1>7

\* The steps that write no row and end no call.
LEMMA InstanceStepAgrees ==
  ASSUME AgreementInv, NEW i \in Instances, InstanceStep(i), UNCHANGED electionVars
  PROVE  NoneOrphaned' /\ CachesCatchUp'
<1> USE DEF AgreementInv
<1>1. UNCHANGED <<row, announced, report, electionPc, target, committed>>
  BY DEF InstanceStep, Deliver, Subscribe, HydrateReads, HydrateApplies, Starts,
         tableVars, rowVars, electionVars, pollVars
<1>2. /\ \A t \in Services : Latest(t)' = Latest(t)
      /\ \A t \in Services : WillBeBroadcast(t)' <=> WillBeBroadcast(t)
  BY <1>1 DEF Latest, WillBeBroadcast
<1>3. NoneOrphaned'
  BY <1>1 DEF NoneOrphaned
<1>4. /\ life \in [Instances -> {"down", "subscribed", "hydrating", "running"}]
      /\ snapshot \in [Instances -> [Services -> States]]
      /\ inFlight \in [Instances -> SUBSET Events]
  BY DEF LogInv, TypeOK, AvailabilityTypeOK
<1>5. SUFFICES ASSUME NEW j \in Instances, NEW t \in Services,
                      life'[j] # "down", ~Faults \/ t \in announced
               PROVE  HasOrWillLearn(j, t)'
  BY <1>1, <1>3 DEF CachesCatchUp
<1>6. CASE Deliver(i)
  <2>1. PICK event \in inFlight[i] :
          /\ Apply(i, event.service, event.state)
          /\ inFlight' = [inFlight EXCEPT ![i] = @ \ {event}]
          /\ UNCHANGED <<life, snapshot>>
    BY <1>6 DEF Deliver
  <2>2. event.service \in Services /\ Assessed(persisted[event.service], event.state)
    BY <1>4 DEF LogInv, KnownIsPersisted, Events
  <2>3. /\ cache[j][t] = Latest(t) => cache'[j][t] = Latest(t)
        /\ event.state = Latest(event.service) => cache'[i][event.service] = Latest(event.service)
    BY <2>1, <2>2, ApplyKeepsLatest
  <2>4. [service |-> t, state |-> Latest(t)] \in inFlight[j] =>
          \/ [service |-> t, state |-> Latest(t)] \in inFlight'[j]
          \/ cache'[j][t] = Latest(t)
    BY <1>4, <2>1, <2>3
  <2>5. HasOrWillLearn(j, t)
    BY <1>5, <2>1 DEF CachesCatchUp
  <2>6. QED
    BY <1>2, <2>1, <2>3, <2>4, <2>5 DEF HasOrWillLearn
<1>7. CASE Subscribe(i)
  <2>1. /\ life' = [life EXCEPT ![i] = "subscribed"]
        /\ UNCHANGED <<cache, snapshot, inFlight>>
    BY <1>7 DEF Subscribe
  <2>2. CASE j = i
    BY <1>4, <2>1, <2>2 DEF HasOrWillLearn
  <2>3. CASE j # i
    BY <1>2, <1>4, <1>5, <2>1, <2>3 DEF CachesCatchUp, HasOrWillLearn
  <2>4. QED
    BY <2>2, <2>3
<1>8. CASE HydrateReads(i)
  <2>1. /\ life' = [life EXCEPT ![i] = "hydrating"]
        /\ snapshot' = [snapshot EXCEPT ![i] = [s \in Services |-> Latest(s)]]
        /\ UNCHANGED <<cache, inFlight>>
    BY <1>8 DEF HydrateReads, Latest
  <2>2. CASE j = i
    BY <1>2, <1>4, <2>1, <2>2 DEF HasOrWillLearn
  <2>3. CASE j # i
    BY <1>2, <1>4, <1>5, <2>1, <2>3 DEF CachesCatchUp, HasOrWillLearn
  <2>4. QED
    BY <2>2, <2>3
<1>9. ASSUME NEW s \in Services, HydrateApplies(i, s)
      PROVE  HasOrWillLearn(j, t)'
  <2>1. /\ Apply(i, s, snapshot[i][s])
        /\ snapshot' = [snapshot EXCEPT ![i][s] = Unknown]
        /\ UNCHANGED <<life, inFlight>>
        /\ Assessed(persisted[s], snapshot[i][s])
    BY <1>9 DEF HydrateApplies, LogInv, KnownIsPersisted
  <2>2. /\ cache[j][t] = Latest(t) => cache'[j][t] = Latest(t)
        /\ snapshot[i][s] = Latest(s) => cache'[i][s] = Latest(s)
    BY <2>1, ApplyKeepsLatest
  <2>3. snapshot[j][t] = Latest(t) => snapshot'[j][t] = Latest(t) \/ cache'[j][t] = Latest(t)
    BY <1>4, <2>1, <2>2
  <2>4. HasOrWillLearn(j, t)
    BY <1>5, <2>1 DEF CachesCatchUp
  <2>5. QED
    BY <1>2, <2>1, <2>2, <2>3, <2>4 DEF HasOrWillLearn
<1>10. CASE Starts(i)
  <2>1. /\ life' = [life EXCEPT ![i] = "running"]
        /\ life[i] = "hydrating"
        /\ \A s \in Services : snapshot[i][s] = Unknown
        /\ UNCHANGED <<cache, snapshot, inFlight>>
    BY <1>10 DEF Starts
  <2>2. HasOrWillLearn(j, t)
    BY <1>4, <1>5, <2>1 DEF CachesCatchUp
  <2>3. j = i /\ snapshot[j][t] = Latest(t) => cache[j][t] = Latest(t)
    BY <2>1, KnowsNothingYet
  <2>4. QED
    BY <1>2, <1>4, <2>1, <2>2, <2>3 DEF HasOrWillLearn
<1>11. QED
  BY <1>6, <1>7, <1>8, <1>9, <1>10 DEF InstanceStep

\* Steps after which the instances know what they knew.
LEMMA StillCatchingUp ==
  ASSUME AgreementInv, UNCHANGED <<row, announced, instanceVars>>,
         \A t \in Services : ~Faults /\ WillBeBroadcast(t) => WillBeBroadcast(t)'
  PROVE  CachesCatchUp'
<1>1. UNCHANGED <<life, cache, snapshot, inFlight>> /\ \A t \in Services : Latest(t)' = Latest(t)
  BY DEF instanceVars, Latest
<1>2. QED
  BY <1>1 DEF AgreementInv, CachesCatchUp, HasOrWillLearn

LEMMA ReporterStepAgrees ==
  ASSUME AgreementInv, NEW w \in Reporters, ReporterStep(w), UNCHANGED electionVars
  PROVE  NoneOrphaned' /\ CachesCatchUp'
<1> USE DEF AgreementInv
<1>1. /\ UNCHANGED <<electionPc, target, committed>>
      /\ report \in [Reporters -> Reports]
      /\ row \in [Services -> [available : BOOLEAN, version : Nat, failedAt : {Never} \cup Times]]
  BY DEF electionVars, pollVars, LogInv, TypeOK, AvailabilityTypeOK
<1>2. Idle.step = "idle"
  BY DEF Idle
<1>3. ASSUME NEW s \in Services, FailureBegins(w, s)
      PROVE  NoneOrphaned' /\ CachesCatchUp'
  <2>1. /\ UNCHANGED <<row, announced, instanceVars>>
        /\ report[w] = Idle
        /\ report' = [report EXCEPT ![w] = [step |-> "begun", service |-> s, at |-> clock']]
    BY <1>3 DEF FailureBegins
  <2>2. \A t \in Services : WillBeBroadcast(t) => WillBeBroadcast(t)'
    BY <1>1, <1>2, <2>1 DEF WillBeBroadcast, Latest
  <2>3. NoneOrphaned'
    BY <1>1, <2>1 DEF NoneOrphaned
  <2>4. QED
    BY <2>1, <2>2, <2>3, StillCatchingUp
<1>4. ASSUME FailureCommits(w)
      PROVE  NoneOrphaned' /\ CachesCatchUp'
  <2>1. PICK s \in Services :
          /\ s = report[w].service
          /\ report[w].step = "begun"
          /\ Upsert(s, FALSE, report[w].at)
          /\ report' = [report EXCEPT ![w] =
               [step |-> "committed", service |-> s, state |-> StateOf(row'[s])]]
          /\ UNCHANGED instanceVars
    BY <1>1, <1>4, ReportCases DEF FailureCommits, UpsertFailure
  <2>2. /\ report'[w].step = "committed"
        /\ report'[w].service = s
        /\ report'[w].state = StateOf(row'[s])
        /\ \A v \in Reporters : v # w => report'[v] = report[v]
    BY <1>1, <2>1
  <2>3. WillBeBroadcast(s)'
    BY <2>2 DEF WillBeBroadcast, Latest
  <2>4. \A t \in Services \ {s} : row'[t] = row[t]
    BY <1>1, <2>1 DEF Upsert
  <2>5. \A t \in Services \ {s} : WillBeBroadcast(t) => WillBeBroadcast(t)'
    BY <1>1, <2>1, <2>2, <2>4 DEF WillBeBroadcast, Latest
  <2>6. CachesCatchUp'
    BY <2>1, <2>3, <2>5, WriteCatchesUp
  <2>7. NoneOrphaned'
    BY <2>2 DEF NoneOrphaned
  <2>8. QED
    BY <2>6, <2>7
<1>5. ASSUME FailureReturns(w)
      PROVE  NoneOrphaned' /\ CachesCatchUp'
  <2> DEFINE s == report[w].service
             state == report[w].state
  <2>1. /\ s \in Services
        /\ Assessed(persisted[s], state)
        /\ ApplyAndBroadcast(Home(w), s, state)
        /\ report' = [report EXCEPT ![w] = Idle]
        /\ UNCHANGED row
    BY <1>1, <1>5, ReportCases DEF FailureReturns, LogInv, KnownIsPersisted, rowVars
  <2>2. /\ report'[w].step = "idle"
        /\ \A v \in Reporters : v # w => report'[v] = report[v]
    BY <1>1, <1>2, <2>1
  <2>3. \A t \in Services :
          WillBeBroadcast(t) => WillBeBroadcast(t)' \/ (t = s /\ state = Latest(s))
    BY <1>1, <2>1, <2>2 DEF WillBeBroadcast, Latest
  <2> HIDE DEF s, state
  <2>4. CachesCatchUp'
    BY <2>1, <2>3, ReturnCatchesUp, HomeIsInstance
  <2>5. NoneOrphaned'
    BY <2>2 DEF NoneOrphaned
  <2>6. QED
    BY <2>4, <2>5
<1>6. ASSUME FailureErrs(w)
      PROVE  NoneOrphaned' /\ CachesCatchUp'
  <2> DEFINE s == report[w].service
  <2>1. /\ Faults
        /\ s \in Services
        /\ report' = [report EXCEPT ![w] = Idle]
        /\ UNCHANGED instanceVars
    BY <1>1, <1>6, ReportCases DEF FailureErrs, NoneOrphaned
  <2>2. NoneOrphaned'
    BY <2>1 DEF NoneOrphaned
  <2>3. CASE UNCHANGED tableVars
    BY <2>1, <2>2, <2>3, StillCatchingUp DEF tableVars, rowVars
  <2>4. CASE UpsertFailure(s, report[w].at)
    BY <2>1, <2>2, <2>4, WriteCatchesUp DEF UpsertFailure
  <2>5. QED
    BY <1>6, <2>3, <2>4 DEF FailureErrs
<1>7. QED
  BY <1>3, <1>4, <1>5, <1>6 DEF ReporterStep

LEMMA ElectionStepAgrees ==
  ASSUME AgreementInv, NEW i \in Instances, ElectionStep(i)
  PROVE  NoneOrphaned' /\ CachesCatchUp'
<1> USE DEF AgreementInv
<1>1. /\ target \in [Instances -> Services]
      /\ committed \in [Instances -> States]
      /\ electionPc \in [Instances -> {"standby", "check", "start", "request", "record", "apply", "close"}]
      /\ row \in [Services -> [available : BOOLEAN, version : Nat, failedAt : {Never} \cup Times]]
  BY DEF LogInv, TypeOK, AvailabilityTypeOK, ElectionTypeOK
<1>2. UNCHANGED report
  BY DEF ElectionStep, TryHealthLeadership, CheckSucceeds, CheckFails, Close, PollStarts,
         ProcessorAnswers, ObservationCommits, ObservationRejected, ObservationErrs,
         ObservationReturns, PollStartErrs, HealthRequestFails, availabilityVars
<1>3. NoneOrphaned'
  BY <1>2 DEF NoneOrphaned
<1>4. ASSUME electionPc[i] # "apply",
             \A j \in Instances \ {i} : /\ electionPc'[j] = electionPc[j]
                                        /\ target'[j] = target[j]
                                        /\ committed'[j] = committed[j]
      PROVE  \A t \in Services :
               row'[t] = row[t] /\ WillBeBroadcast(t) => WillBeBroadcast(t)'
  BY <1>2, <1>4 DEF WillBeBroadcast, Latest
<1>5. ASSUME NEW from, NextProcessor(i, from)
      PROVE  /\ electionPc[i] = from /\ electionPc'[i] = "check"
             /\ \A j \in Instances \ {i} : /\ electionPc'[j] = electionPc[j]
                                           /\ target'[j] = target[j]
                                           /\ committed'[j] = committed[j]
  BY <1>1, <1>5 DEF NextProcessor, Polling
<1>6. CASE \/ TryHealthLeadership(i) \/ CheckSucceeds(i) \/ CheckFails(i) \/ Close(i)
           \/ PollStarts(i) \/ ProcessorAnswers(i) \/ ObservationRejected(i)
           \/ PollStartErrs(i) \/ HealthRequestFails(i)
  <2>1. UNCHANGED <<row, announced, instanceVars>>
    BY <1>6 DEF TryHealthLeadership, CheckSucceeds, CheckFails, Close, PollStarts, ProcessorAnswers,
                ObservationRejected, PollStartErrs, HealthRequestFails,
                availabilityVars, tableVars, rowVars
  <2>2. CASE ObservationRejected(i) \/ PollStartErrs(i) \/ HealthRequestFails(i)
    <3>1. NextProcessor(i, "record") \/ NextProcessor(i, "start") \/ NextProcessor(i, "request")
      BY <2>2 DEF ObservationRejected, PollStartErrs, HealthRequestFails
    <3>2. QED
      BY <1>3, <1>4, <1>5, <2>1, <3>1, StillCatchingUp
  <2>3. CASE \/ TryHealthLeadership(i) \/ CheckSucceeds(i) \/ CheckFails(i) \/ Close(i)
             \/ PollStarts(i) \/ ProcessorAnswers(i)
    <3>1. /\ electionPc[i] # "apply"
          /\ \A j \in Instances \ {i} : /\ electionPc'[j] = electionPc[j]
                                        /\ target'[j] = target[j]
                                        /\ committed'[j] = committed[j]
      BY <1>1, <2>3
      DEF TryHealthLeadership, CheckSucceeds, CheckFails, Close, PollStarts, ProcessorAnswers, Polling, KeepPoll
    <3>2. QED
      BY <1>3, <1>4, <2>1, <3>1, StillCatchingUp
  <2>4. QED
    BY <1>6, <2>2, <2>3
<1>7. ASSUME ObservationCommits(i)
      PROVE  CachesCatchUp'
  <2>1. PICK s \in Services :
          /\ s = target[i]
          /\ Upsert(s, answer[i], row[s].failedAt)
          /\ committed' = [committed EXCEPT ![i] = StateOf(row'[s])]
          /\ UNCHANGED <<instanceVars, target>>
    BY <1>1, <1>7 DEF ObservationCommits, UpsertObservation
  <2>2. /\ electionPc[i] # "apply"
        /\ electionPc'[i] = "apply"
        /\ committed'[i] = StateOf(row'[s])
        /\ target'[i] = s
        /\ \A j \in Instances \ {i} : /\ electionPc'[j] = electionPc[j]
                                      /\ target'[j] = target[j]
                                      /\ committed'[j] = committed[j]
    BY <1>1, <1>7, <2>1 DEF ObservationCommits, Polling
  <2>3. WillBeBroadcast(s)'
    BY <2>2 DEF WillBeBroadcast, Latest
  <2>4. \A t \in Services \ {s} : row'[t] = row[t]
    BY <1>1, <2>1 DEF Upsert
  <2>5. \A t \in Services \ {s} : WillBeBroadcast(t) => WillBeBroadcast(t)'
    BY <1>4, <2>2, <2>4
  <2>6. QED
    BY <2>1, <2>3, <2>5, WriteCatchesUp
<1>8. ASSUME ObservationErrs(i)
      PROVE  CachesCatchUp'
  <2>1. Faults /\ UNCHANGED instanceVars
    BY <1>8 DEF ObservationErrs
  <2>2. CASE UNCHANGED tableVars
    BY <2>1, <2>2, StillCatchingUp DEF tableVars, rowVars
  <2>3. CASE UpsertObservation(target[i], answer[i], startedAt[i])
    BY <1>1, <2>1, <2>3, WriteCatchesUp DEF UpsertObservation
  <2>4. QED
    BY <1>8, <2>2, <2>3 DEF ObservationErrs
<1>9. ASSUME ObservationReturns(i)
      PROVE  CachesCatchUp'
  <2>1. /\ Assessed(persisted[target[i]], committed[i])
        /\ ApplyAndBroadcast(i, target[i], committed[i])
        /\ UNCHANGED row
        /\ NextProcessor(i, "apply")
    BY <1>9 DEF ObservationReturns, LogInv, KnownIsPersisted, rowVars
  <2>2. \A t \in Services :
          WillBeBroadcast(t) => WillBeBroadcast(t)' \/ (t = target[i] /\ committed[i] = Latest(target[i]))
    BY <1>2, <1>5, <2>1 DEF WillBeBroadcast, Latest
  <2>3. QED
    BY <1>1, <2>1, <2>2, ReturnCatchesUp
<1>10. QED
  BY <1>3, <1>6, <1>7, <1>8, <1>9 DEF ElectionStep

LEMMA GoesDownAgrees ==
  ASSUME AgreementInv, NEW i \in Instances, GoesDown(i), ElectionGoesDown(i)
  PROVE  NoneOrphaned' /\ CachesCatchUp'
<1> USE DEF AgreementInv
<1>1. /\ UNCHANGED <<row, announced>>
      /\ \A t \in Services : Latest(t)' = Latest(t)
  BY DEF GoesDown, tableVars, rowVars, Latest
<1>2. ASSUME ~Faults
      PROVE  /\ \A w \in Reporters : report'[w] = report[w]
             /\ electionPc[i] # "apply"
             /\ \A j \in Instances \ {i} : /\ electionPc'[j] = electionPc[j]
                                           /\ target'[j] = target[j]
                                           /\ committed'[j] = committed[j]
  <2>1. \A w \in Reporters : Home(w) = i => report[w].step = "idle"
    BY <1>2 DEF GoesDown, Settled, Idle
  <2>2. \A w \in Reporters : report'[w] = report[w]
    BY <2>1, CrashReports DEF ReportAfterCrash
  <2>3. QED
    BY <1>2, <2>2 DEF ElectionGoesDown, LogInv, TypeOK, ElectionTypeOK
<1>3. NoneOrphaned'
  BY <1>2 DEF NoneOrphaned
<1>4. \A t \in Services : ~Faults /\ WillBeBroadcast(t) => WillBeBroadcast(t)'
  BY <1>1, <1>2 DEF WillBeBroadcast
<1>5. /\ life'[i] = "down"
      /\ \A j \in Instances \ {i} : /\ life'[j] = life[j] /\ cache'[j] = cache[j]
                                    /\ snapshot'[j] = snapshot[j] /\ inFlight'[j] = inFlight[j]
  BY DEF GoesDown, LogInv, TypeOK, AvailabilityTypeOK
<1>6. CachesCatchUp'
  <2>1. SUFFICES ASSUME NEW j \in Instances, NEW t \in Services,
                        life'[j] # "down", ~Faults \/ t \in announced
                 PROVE  HasOrWillLearn(j, t)'
    BY <1>1 DEF CachesCatchUp
  <2>2. j # i
    BY <1>5, <2>1
  <2>3. HasOrWillLearn(j, t)
    BY <1>5, <2>1, <2>2 DEF CachesCatchUp
  <2>4. QED
    BY <1>1, <1>4, <1>5, <2>2, <2>3 DEF HasOrWillLearn
<1>7. QED
  BY <1>3, <1>6

LEMMA AgreementInvariant == Spec => []AgreementInv
<1>1. Init => NoneOrphaned /\ CachesCatchUp
  BY DEF Init, AvailabilityInit, NoneOrphaned, CachesCatchUp, Idle
<1>2. LogInv /\ LogInv' /\ NoneOrphaned /\ CachesCatchUp /\ [Next]_vars => NoneOrphaned' /\ CachesCatchUp'
  <2>1. SUFFICES ASSUME AgreementInv, [Next]_vars
                 PROVE  NoneOrphaned' /\ CachesCatchUp'
    BY DEF AgreementInv
  <2>2. CASE ConnectionBreaks \/ SessionEnds \/ UNCHANGED vars
    <3>1. UNCHANGED <<row, announced, instanceVars, report, electionPc, target, committed>>
      BY <2>2 DEF ConnectionBreaks, SessionEnds, vars, availabilityVars, tableVars, rowVars,
                  electionVars, pollVars
    <3>2. \A t \in Services : WillBeBroadcast(t) => WillBeBroadcast(t)'
      BY <3>1 DEF WillBeBroadcast, Latest
    <3>3. NoneOrphaned'
      BY <2>1, <3>1 DEF AgreementInv, NoneOrphaned
    <3>4. QED
      BY <2>1, <3>1, <3>2, <3>3, StillCatchingUp
  <2>3. QED
    BY <2>1, <2>2, InstanceStepAgrees, ReporterStepAgrees, ElectionStepAgrees, GoesDownAgrees DEF Next
<1>3. QED
  BY <1>1, <1>2, KnownStatesPersisted, PTL DEF Spec, AgreementInv

\* Once nothing is on its way, every running instance routes by the latest
\* assessment of each Processor: always without faults, and with them as soon as
\* that assessment reached every subscription.
THEOREM CachesAgree == Spec => []QuietCachesAgree
<1>1. AgreementInv => QuietCachesAgree
  <2>1. SUFFICES ASSUME AgreementInv, Quiet, NEW s \in Services, ~Faults \/ s \in announced,
                        NEW i \in Instances, life[i] = "running"
                 PROVE  cache[i][s] = Latest(s)
    BY DEF QuietCachesAgree, Latest
  <2>2. HasOrWillLearn(i, s)
    BY <2>1 DEF AgreementInv, CachesCatchUp
  <2>3. ~WillBeBroadcast(s) /\ inFlight[i] = {}
    BY <2>1 DEF Quiet, WillBeBroadcast
  <2>4. QED
    BY <2>1, <2>2, <2>3 DEF HasOrWillLearn
<1>2. QED
  BY <1>1, AgreementInvariant, PTL

-----------------------------------------------------------------------------
(***************************************************************************)
(* Recoveries follow failures.                                             *)
(***************************************************************************)
\* Steps that record no failure and begin none keep the order.
LEMMA OrderKept ==
  ASSUME TypeOK, FailuresInOrder, clock' \in Times, clock <= clock',
         UNCHANGED failures,
         \A s \in Services : row'[s].failedAt = row[s].failedAt,
         \A v \in Reporters : Pending(v)' => /\ Pending(v)
                                             /\ report'[v].service = report[v].service
                                             /\ report'[v].at = report[v].at
  PROVE  FailuresInOrder'
<1>1. /\ clock \in Nat /\ clock' \in Nat
      /\ failures \in [Services -> SUBSET Times]
      /\ \A v \in Reporters : Pending(v) => report[v].service \in Services /\ report[v].at \in Times
  BY ReportCases DEF TypeOK, AvailabilityTypeOK, Times, Pending
<1>2. ASSUME NEW s \in Services, NEW at \in failures'[s]
      PROVE  at <= row'[s].failedAt /\ at <= clock'
  <2>1. at \in Nat /\ at <= row[s].failedAt /\ at <= clock
    BY <1>1, <1>2 DEF FailuresInOrder, Times
  <2>2. QED
    BY <1>1, <2>1
<1>3. ASSUME NEW v \in Reporters, Pending(v)'
      PROVE  /\ report'[v].at <= clock'
             /\ \A at \in failures'[report'[v].service] : at <= report'[v].at
  <2>1. /\ report[v].at \in Nat /\ report[v].at <= clock
        /\ \A at \in failures[report[v].service] : at <= report[v].at
    BY <1>1, <1>3 DEF FailuresInOrder, Times
  <2>2. QED
    BY <1>1, <1>3, <2>1
<1>4. QED
  BY <1>2, <1>3 DEF FailuresInOrder

LEMMA FailureKeepsOrder ==
  ASSUME TypeOK, FailuresInOrder, FailuresDoNotOverlap, NEW w \in Reporters, Pending(w),
         UpsertFailure(report[w].service, report[w].at), ~Pending(w)',
         \A v \in Reporters \ {w} : report'[v] = report[v]
  PROVE  FailuresInOrder'
<1>1. /\ AvailabilityTypeOK
      /\ row \in [Services -> [available : BOOLEAN, version : Nat, failedAt : {Never} \cup Times]]
      /\ failures \in [Services -> SUBSET Times]
      /\ \A v \in Reporters : Pending(v) => report[v].service \in Services /\ report[v].at \in Times
  BY ReportCases DEF TypeOK, AvailabilityTypeOK, Pending
<1>2. PICK s \in Services, new \in Times :
        /\ s = report[w].service /\ new = report[w].at
        /\ row'[s].failedAt = new
        /\ failures'[s] = failures[s] \cup {new}
        /\ \A t \in Services \ {s} : row'[t] = row[t] /\ failures'[t] = failures[t]
        /\ UNCHANGED clock
  BY <1>1 DEF UpsertFailure, Upsert
<1>3. new \in Nat /\ new <= clock /\ \A at \in failures[s] : at <= new
  BY <1>2 DEF FailuresInOrder, Times
<1>4. ASSUME NEW t \in Services, NEW at \in failures'[t]
      PROVE  at <= row'[t].failedAt /\ at <= clock'
  <2>1. CASE t = s
    <3>1. at \in failures[s] \/ at = new
      BY <1>2, <1>4, <2>1
    <3>2. at <= new /\ at <= clock
      BY <1>3, <3>1 DEF FailuresInOrder
    <3>3. QED
      BY <1>2, <2>1, <3>2
  <2>2. CASE t # s
    BY <1>2, <1>4, <2>2 DEF FailuresInOrder
  <2>3. QED
    BY <2>1, <2>2
<1>5. ASSUME NEW v \in Reporters, Pending(v)'
      PROVE  /\ report'[v].at <= clock'
             /\ \A at \in failures'[report'[v].service] : at <= report'[v].at
  <2>1. v # w
    BY <1>5
  <2>2. report'[v] = report[v] /\ Pending(v)
    BY <1>5, <2>1 DEF Pending
  <2>3. report[v].service # s
    BY <1>2, <2>1, <2>2 DEF FailuresDoNotOverlap
  <2>4. QED
    BY <1>1, <1>2, <2>2, <2>3 DEF FailuresInOrder
<1>6. QED
  BY <1>4, <1>5 DEF FailuresInOrder

LEMMA NextKeepsOrder ==
  ASSUME TypeOK, FailuresInOrder, FailuresDoNotOverlap, [Next]_vars
  PROVE  FailuresInOrder'
<1>1. /\ clock \in Times /\ clock <= clock
      /\ report \in [Reporters -> Reports]
      /\ row \in [Services -> [available : BOOLEAN, version : Nat, failedAt : {Never} \cup Times]]
      /\ target \in [Instances -> Services]
  BY DEF TypeOK, AvailabilityTypeOK, ElectionTypeOK, Times
<1>2. ASSUME UNCHANGED <<clock, failures, report>>,
             \A s \in Services : row'[s].failedAt = row[s].failedAt
      PROVE  FailuresInOrder'
  BY <1>1, <1>2, OrderKept DEF Pending
<1>3. ASSUME NEW i \in Instances, InstanceStep(i)
      PROVE  FailuresInOrder'
  BY <1>2, <1>3 DEF InstanceStep, Deliver, Subscribe, HydrateReads, HydrateApplies, Starts,
                    tableVars, rowVars
<1>4. ASSUME NEW w \in Reporters, ReporterStep(w)
      PROVE  FailuresInOrder'
  <2>1. Idle.step = "idle"
    BY DEF Idle
  <2>2. ASSUME NEW s \in Services, FailureBegins(w, s)
        PROVE  FailuresInOrder'
    <3>1. /\ clock' \in Times /\ clock <= clock'
          /\ UNCHANGED <<row, failures>>
          /\ report' = [report EXCEPT ![w] = [step |-> "begun", service |-> s, at |-> clock']]
      BY <1>1, <2>2, TimePassesTypes DEF FailureBegins
    <3>2. /\ clock \in Nat /\ clock' \in Nat
          /\ \A t \in Services : failures[t] \in SUBSET Nat
          /\ \A v \in Reporters : Pending(v) => report[v].service \in Services /\ report[v].at \in Nat
      BY <1>1, <3>1, ReportCases DEF TypeOK, AvailabilityTypeOK, Times, Pending
    <3>3. \A t \in Services : \A at \in failures[t] :
            at \in Nat /\ at <= row[t].failedAt /\ at <= clock'
      <4>1. \A t \in Services : \A at \in failures[t] :
              at \in Nat /\ at <= row[t].failedAt /\ at <= clock
        BY <3>2 DEF FailuresInOrder
      <4>2. QED
        BY <3>1, <3>2, <4>1
    <3>4. ASSUME NEW v \in Reporters, Pending(v)'
          PROVE  /\ report'[v].at <= clock'
                 /\ \A at \in failures[report'[v].service] : at <= report'[v].at
      <4>1. CASE v = w
        BY <1>1, <3>1, <3>2, <3>3, <4>1
      <4>2. CASE v # w
        <5>1. report'[v] = report[v] /\ Pending(v)
          BY <1>1, <3>1, <3>4, <4>2 DEF Pending
        <5>2. /\ report[v].at \in Nat /\ report[v].at <= clock
              /\ \A at \in failures[report[v].service] : at <= report[v].at
          BY <3>2, <5>1 DEF FailuresInOrder
        <5>3. QED
          BY <3>1, <3>2, <5>1, <5>2
      <4>3. QED
        BY <4>1, <4>2
    <3>5. QED
      BY <3>1, <3>3, <3>4 DEF FailuresInOrder
  <2>3. ASSUME UpsertFailure(report[w].service, report[w].at), report[w].step \in {"begun", "orphaned"},
               FailureCommits(w) \/ FailureErrs(w)
        PROVE  FailuresInOrder'
    <3>1. /\ report'[w].step \in {"committed", "idle"}
          /\ \A v \in Reporters \ {w} : report'[v] = report[v]
      BY <1>1, <2>1, <2>3 DEF FailureCommits, FailureErrs
    <3>2. QED
      BY <2>3, <3>1, FailureKeepsOrder DEF Pending
  <2>4. ASSUME FailureReturns(w) \/ (FailureErrs(w) /\ UNCHANGED tableVars)
        PROVE  FailuresInOrder'
    <3>1. /\ UNCHANGED <<clock, row, failures>>
          /\ report' = [report EXCEPT ![w] = Idle]
      BY <2>4 DEF FailureReturns, FailureErrs, tableVars, rowVars
    <3>2. \A v \in Reporters : Pending(v)' => /\ Pending(v)
                                              /\ report'[v].service = report[v].service
                                              /\ report'[v].at = report[v].at
      BY <1>1, <2>1, <3>1 DEF Pending
    <3>3. QED
      BY <1>1, <3>1, <3>2, OrderKept
  <2>5. QED
    BY <1>4, <2>2, <2>3, <2>4 DEF ReporterStep, FailureCommits, FailureErrs
<1>5. ASSUME NEW i \in Instances, ElectionStep(i)
      PROVE  FailuresInOrder'
  <2>1. ASSUME UpsertObservation(target[i], answer[i], startedAt[i]), UNCHANGED report
        PROVE  FailuresInOrder'
    <3>1. /\ UNCHANGED <<clock, failures>>
          /\ \A s \in Services : row'[s].failedAt = row[s].failedAt
      BY <1>1, <2>1 DEF UpsertObservation, Upsert
    <3>2. QED
      BY <1>2, <2>1, <3>1
  <2>2. CASE ObservationCommits(i)
    BY <2>1, <2>2 DEF ObservationCommits
  <2>3. CASE ObservationErrs(i)
    BY <1>2, <2>1, <2>3 DEF ObservationErrs, tableVars, rowVars
  <2>4. CASE PollStarts(i)
    <3>1. /\ clock' \in Times /\ clock <= clock'
          /\ UNCHANGED <<row, failures, report>>
      BY <1>1, <2>4, TimePassesTypes DEF PollStarts
    <3>2. QED
      BY <3>1, OrderKept DEF Pending
  <2>5. CASE \/ TryHealthLeadership(i) \/ CheckSucceeds(i) \/ CheckFails(i) \/ Close(i)
             \/ ProcessorAnswers(i) \/ ObservationRejected(i) \/ ObservationReturns(i)
             \/ PollStartErrs(i) \/ HealthRequestFails(i)
    BY <1>2, <2>5
    DEF TryHealthLeadership, CheckSucceeds, CheckFails, Close, ProcessorAnswers,
        ObservationRejected, ObservationReturns, PollStartErrs, HealthRequestFails,
        availabilityVars, tableVars, rowVars
  <2>6. QED
    BY <1>5, <2>2, <2>3, <2>4, <2>5 DEF ElectionStep
<1>6. ASSUME NEW i \in Instances, GoesDown(i)
      PROVE  FailuresInOrder'
  <2>1. UNCHANGED <<clock, row, failures>>
    BY <1>6 DEF GoesDown, tableVars, rowVars
  <2>2. ASSUME NEW v \in Reporters, Pending(v)'
        PROVE  /\ Pending(v)
               /\ report'[v].service = report[v].service
               /\ report'[v].at = report[v].at
    <3>1. ReportAfterCrash(v, i)
      BY <1>6, CrashReports
    <3>2. CASE report[v].step = "begun" /\ report'[v] = [report[v] EXCEPT !.step = "orphaned"]
      BY <1>1, <3>2, ReportCases DEF Pending
    <3>3. CASE report'[v] = report[v]
      BY <2>2, <3>3 DEF Pending
    <3>4. CASE report'[v] = Idle
      BY <2>2, <3>4 DEF Pending, Idle
    <3>5. QED
      BY <3>1, <3>2, <3>3, <3>4 DEF ReportAfterCrash
  <2>3. QED
    BY <1>1, <2>1, <2>2, OrderKept
<1>7. CASE ConnectionBreaks \/ SessionEnds \/ UNCHANGED vars
  BY <1>2, <1>7 DEF ConnectionBreaks, SessionEnds, vars, availabilityVars, tableVars, rowVars
<1>8. QED
  BY <1>3, <1>4, <1>5, <1>6, <1>7 DEF Next

\* What RecordPollObservation compares with is what the property is about: no
\* failure is recorded that is later than the one the row remembers.
LEMMA RecoveryIsLater ==
  ASSUME TypeOK, FailuresInOrder, [Next]_vars, NEW s \in Services,
         row'[s].available, row'[s].version # row[s].version
  PROVE  \E i \in Instances : /\ electionPc[i] = "record"
                              /\ target[i] = s
                              /\ \A at \in failures[s] : startedAt[i] > at
<1>1. /\ row \in [Services -> [available : BOOLEAN, version : Nat, failedAt : {Never} \cup Times]]
      /\ target \in [Instances -> Services]
      /\ startedAt \in [Instances -> {Never} \cup Times]
      /\ failures \in [Services -> SUBSET Times]
      /\ report \in [Reporters -> Reports]
  BY DEF TypeOK, AvailabilityTypeOK, ElectionTypeOK
<1>2. ASSUME NEW i \in Instances, electionPc[i] = "record",
             UpsertObservation(target[i], answer[i], startedAt[i])
      PROVE  /\ target[i] = s
             /\ \A at \in failures[s] : startedAt[i] > at
  <2>1. /\ Upsert(target[i], answer[i], row[target[i]].failedAt)
        /\ ObservationHolds(target[i], answer[i], startedAt[i])
    BY <1>2 DEF UpsertObservation
  <2>2. target[i] = s
    BY <1>1, <2>1 DEF Upsert
  <2>3. row'[s].available = answer[i]
    BY <1>1, <2>1, <2>2 DEF Upsert
  <2>4. row[s].failedAt = Never \/ row[s].failedAt < startedAt[i]
    BY <2>1, <2>2, <2>3 DEF ObservationHolds
  <2>5. ASSUME NEW at \in failures[s]
        PROVE  startedAt[i] > at
    <3>1. at \in Times /\ at <= row[s].failedAt
      BY <1>1, <2>5 DEF FailuresInOrder
    <3>2. /\ row[s].failedAt \in Nat /\ startedAt[i] \in Nat
          /\ at \in Nat \ {0}
      BY <1>1, <3>1 DEF Never, Times
    <3>3. QED
      BY <2>4, <3>1, <3>2 DEF Never
  <2>6. QED
    BY <2>2, <2>5
<1>3. ASSUME NEW w \in Reporters, report[w].step \in {"begun", "orphaned"},
             UpsertFailure(report[w].service, report[w].at)
      PROVE  FALSE
  <2>1. report[w].service \in Services
    BY <1>1, <1>3, ReportCases
  <2>2. \A t \in Services : row'[t] = row[t] \/ row'[t].available = FALSE
    BY <1>1, <1>3, <2>1 DEF UpsertFailure, Upsert
  <2>3. QED
    BY <2>2
<1>4. row' # row
  OBVIOUS
<1>5. PICK i \in Instances : ObservationCommits(i) \/ ObservationErrs(i)
  <2>1. ASSUME NEW i \in Instances, InstanceStep(i)
        PROVE  FALSE
    BY <1>4, <2>1 DEF InstanceStep, Deliver, Subscribe, HydrateReads, HydrateApplies, Starts,
                      tableVars, rowVars
  <2>2. ASSUME NEW w \in Reporters, ReporterStep(w)
        PROVE  FALSE
    <3>1. ~UpsertFailure(report[w].service, report[w].at) \/ FailureReturns(w)
      BY <1>3, <1>4, <2>2 DEF ReporterStep, FailureBegins, FailureCommits, FailureErrs
    <3>2. QED
      BY <1>4, <2>2, <3>1
      DEF ReporterStep, FailureBegins, FailureCommits, FailureReturns, FailureErrs, tableVars, rowVars
  <2>3. ASSUME NEW i \in Instances, GoesDown(i)
        PROVE  FALSE
    BY <1>4, <2>3 DEF GoesDown, tableVars, rowVars
  <2>4. ~ConnectionBreaks /\ ~SessionEnds /\ ~UNCHANGED vars
    BY <1>4 DEF ConnectionBreaks, SessionEnds, vars, availabilityVars, tableVars, rowVars
  <2>5. PICK i \in Instances : ElectionStep(i)
    BY <2>1, <2>2, <2>3, <2>4 DEF Next
  <2>6. QED
    BY <1>4, <2>5
    DEF ElectionStep, TryHealthLeadership, CheckSucceeds, CheckFails, Close, PollStarts, ProcessorAnswers,
        ObservationRejected, ObservationReturns, PollStartErrs, HealthRequestFails,
        availabilityVars, tableVars, rowVars
<1>6. electionPc[i] = "record" /\ UpsertObservation(target[i], answer[i], startedAt[i])
  BY <1>4, <1>5 DEF ObservationCommits, ObservationErrs, NextProcessor, Polling, tableVars, rowVars
<1>7. QED
  BY <1>2, <1>6

\* A Processor is put back into routing only by a poll that began after every
\* passive failure recorded so far, as long as the statements of two failures of
\* one Processor do not overlap.  (The run overlapping_failures shows that with
\* overlapping ones the row may forget the later failure.)
THEOREM RecoveriesFollow == Spec /\ []FailuresDoNotOverlap => RecoveryFollowsFailures
<1>1. Init => FailuresInOrder
  BY DEF Init, AvailabilityInit, FailuresInOrder, Pending, Idle
<1>2. TypeOK /\ FailuresInOrder /\ FailuresDoNotOverlap /\ [Next]_vars => FailuresInOrder'
  BY NextKeepsOrder
<1>3. TypeOK /\ FailuresInOrder /\ [Next]_vars =>
        [\A s \in Services :
           row'[s].available /\ row'[s].version # row[s].version =>
             \E i \in Instances :
               /\ electionPc[i] = "record"
               /\ target[i] = s
               /\ \A at \in failures[s] : startedAt[i] > at]_vars
  BY RecoveryIsLater
<1>4. QED
  BY <1>1, <1>2, <1>3, AvailabilityTypeCorrect, PTL DEF Spec, RecoveryFollowsFailures

-----------------------------------------------------------------------------
(***************************************************************************)
(* One poller.                                                             *)
(***************************************************************************)
\* Whoever is past its election and has not given up holds the advisory lock in
\* a session that works.
PollersHoldLock == \A i \in Instances : electionPc[i] \notin {"standby", "close"} => HoldsLock(i)

\* Only an instance that holds the lock, or sees nobody hold it, moves on.
LEMMA ElectionStepKeepsLock ==
  ASSUME TypeOK, PollersHoldLock, NEW i \in Instances, ElectionStep(i)
  PROVE  PollersHoldLock'
<1> USE DEF HoldsLock
<1>1. electionPc = [j \in Instances |-> electionPc[j]]
  BY DEF TypeOK, ElectionTypeOK
<1>2. CASE TryHealthLeadership(i)
  <2>1. /\ lockHolder = None /\ lockHolder' = i /\ connected'
        /\ electionPc' = [electionPc EXCEPT ![i] = "check"]
    BY <1>2 DEF TryHealthLeadership, Polling
  <2>2. \A j \in Instances : electionPc[j] \in {"standby", "close"}
    BY <2>1, AvailabilityAssumption DEF PollersHoldLock
  <2>3. QED
    BY <1>1, <2>1, <2>2 DEF PollersHoldLock
<1>3. CASE Close(i)
  <2>1. /\ electionPc[i] = "close" /\ electionPc' = [electionPc EXCEPT ![i] = "standby"]
        /\ \/ lockHolder = i
           \/ UNCHANGED <<lockHolder, connected>>
    BY <1>3 DEF Close, Polling, lockVars
  <2>2. ASSUME NEW j \in Instances, electionPc'[j] \notin {"standby", "close"}
        PROVE  j # i /\ HoldsLock(j)
    BY <1>1, <2>1, <2>2 DEF PollersHoldLock
  <2>3. QED
    BY <2>1, <2>2 DEF PollersHoldLock
<1>4. CASE ~TryHealthLeadership(i) /\ ~Close(i)
  <2>1. PICK from, to :
          /\ Polling(i, from, to) /\ UNCHANGED lockVars
          /\ \/ from \notin {"standby", "close"}
             \/ to = "close"
    BY <1>4
    DEF ElectionStep, CheckSucceeds, CheckFails, PollStarts, ProcessorAnswers, ObservationCommits,
        ObservationRejected, ObservationErrs, ObservationReturns, PollStartErrs, HealthRequestFails,
        NextProcessor
  <2>2. \A j \in Instances : electionPc'[j] \notin {"standby", "close"} =>
                               electionPc[j] \notin {"standby", "close"}
    BY <1>1, <2>1 DEF Polling
  <2>3. QED
    BY <2>1, <2>2 DEF PollersHoldLock, lockVars
<1>5. QED
  BY <1>2, <1>3, <1>4

LEMMA NextKeepsLock ==
  ASSUME TypeOK, PollersHoldLock, [Next /\ ~ConnectionBreaks]_vars
  PROVE  PollersHoldLock'
<1>1. CASE UNCHANGED electionVars
  BY <1>1 DEF electionVars, lockVars, pollVars, PollersHoldLock, HoldsLock
<1>2. CASE \E i \in Instances : ElectionStep(i)
  BY <1>2, ElectionStepKeepsLock
<1>3. ASSUME NEW i \in Instances, ElectionGoesDown(i)
      PROVE  PollersHoldLock'
  <2>1. /\ electionPc' = [electionPc EXCEPT ![i] = "standby"]
        /\ connected' = (connected /\ lockHolder # i) /\ UNCHANGED lockHolder
    BY <1>3 DEF ElectionGoesDown
  <2>2. ASSUME NEW j \in Instances, electionPc'[j] \notin {"standby", "close"}
        PROVE  HoldsLock(j)'
    <3>1. j # i /\ electionPc[j] \notin {"standby", "close"}
      BY <2>1, <2>2 DEF TypeOK, ElectionTypeOK
    <3>2. QED
      BY <2>1, <3>1 DEF PollersHoldLock, HoldsLock
  <2>3. QED
    BY <2>2 DEF PollersHoldLock
<1>4. CASE SessionEnds
  BY <1>4 DEF SessionEnds, pollVars, PollersHoldLock, HoldsLock
<1>5. QED
  BY <1>1, <1>2, <1>3, <1>4 DEF Next, vars

\* As long as no connection of a session breaks, the advisory lock does what the
\* election is for, whatever instances start and go down, and whichever checks
\* and polls fail: no two instances are in the middle of polling.  (The run
\* stale_leader shows that a broken one leaves its poller at work.)
THEOREM SolePollerWhileConnected == Spec /\ [][~ConnectionBreaks]_vars => []SolePoller
<1>1. Init => PollersHoldLock
  BY DEF Init, ElectionInit, PollersHoldLock
<1>2. TypeOK /\ PollersHoldLock /\ [Next]_vars /\ [~ConnectionBreaks]_vars => PollersHoldLock'
  BY NextKeepsLock
<1>3. PollersHoldLock => SolePoller
  BY DEF PollersHoldLock, HoldsLock, SolePoller, PollingNow
<1>4. QED
  BY <1>1, <1>2, <1>3, AvailabilityTypeCorrect, PTL DEF Spec

-----------------------------------------------------------------------------
(***************************************************************************)
(* No lock in vain.                                                        *)
(***************************************************************************)
LEMMA ElectionStepUsesLock ==
  ASSUME TypeOK, LockIsInUse, NEW i \in Instances, ElectionStep(i)
  PROVE  LockIsInUse'
<1>1. /\ electionPc = [j \in Instances |-> electionPc[j]]
      /\ life[i] = "running" /\ UNCHANGED life
  <2>1. electionPc = [j \in Instances |-> electionPc[j]]
    BY DEF TypeOK, ElectionTypeOK
  <2>2. UNCHANGED instanceVars \/ UNCHANGED life
    BY DEF ElectionStep, TryHealthLeadership, CheckSucceeds, CheckFails, Close, PollStarts,
           ProcessorAnswers, ObservationCommits, ObservationRejected, ObservationErrs,
           ObservationReturns, PollStartErrs, HealthRequestFails, ApplyAndBroadcast,
           availabilityVars
  <2>3. life[i] = "running"
    BY DEF ElectionStep, TryHealthLeadership, CheckSucceeds, CheckFails, Close, PollStarts,
           ProcessorAnswers, ObservationCommits, ObservationRejected, ObservationErrs,
           ObservationReturns, PollStartErrs, HealthRequestFails, NextProcessor, Polling
  <2>4. QED
    BY <2>1, <2>2, <2>3 DEF instanceVars
<1>2. CASE TryHealthLeadership(i)
  <2>1. lockHolder' = i /\ electionPc' = [electionPc EXCEPT ![i] = "check"]
    BY <1>2 DEF TryHealthLeadership, Polling
  <2>2. QED
    BY <1>1, <2>1 DEF LockIsInUse
<1>3. CASE Close(i)
  <2>1. /\ electionPc' = [electionPc EXCEPT ![i] = "standby"]
        /\ \/ ~connected'
           \/ ~(lockHolder = i /\ connected) /\ UNCHANGED <<lockHolder, connected>>
    BY <1>3 DEF Close, Polling, HoldsLock, lockVars
  <2>2. QED
    BY <1>1, <2>1 DEF LockIsInUse
<1>4. CASE ~TryHealthLeadership(i) /\ ~Close(i)
  <2>1. PICK from, to : Polling(i, from, to) /\ UNCHANGED lockVars /\ to # "standby"
    BY <1>4
    DEF ElectionStep, CheckSucceeds, CheckFails, PollStarts, ProcessorAnswers, ObservationCommits,
        ObservationRejected, ObservationErrs, ObservationReturns, PollStartErrs, HealthRequestFails,
        NextProcessor
  <2>2. QED
    BY <1>1, <2>1 DEF LockIsInUse, Polling, lockVars
<1>5. QED
  BY <1>2, <1>3, <1>4

\* Starting instances and reports of failures leave running instances running.
LEMMA RunningGoOn ==
  ASSUME TypeOK, \/ \E i \in Instances : InstanceStep(i)
                 \/ \E w \in Reporters : ReporterStep(w)
  PROVE  \A j \in Instances : life[j] = "running" => life'[j] = "running"
<1>1. life = [j \in Instances |-> life[j]]
  BY DEF TypeOK, AvailabilityTypeOK
<1>2. ASSUME NEW i \in Instances, InstanceStep(i)
      PROVE  \/ UNCHANGED life
             \/ life[i] # "running" /\ \E to : life' = [life EXCEPT ![i] = to]
  BY <1>2
  DEF InstanceStep, Deliver, Subscribe, HydrateReads, HydrateApplies, Starts
<1>3. ASSUME NEW w \in Reporters, ReporterStep(w)
      PROVE  UNCHANGED life
  BY <1>3
  DEF ReporterStep, FailureBegins, FailureCommits, FailureReturns, FailureErrs, ApplyAndBroadcast,
      instanceVars
<1>4. QED
  BY <1>1, <1>2, <1>3

LEMMA NextUsesLock ==
  ASSUME TypeOK, LockIsInUse, [Next]_vars
  PROVE  LockIsInUse'
<1>1. CASE UNCHANGED vars
  BY <1>1 DEF vars, availabilityVars, instanceVars, electionVars, lockVars, pollVars, LockIsInUse
<1>2. CASE /\ UNCHANGED electionVars
           /\ \/ \E i \in Instances : InstanceStep(i)
              \/ \E w \in Reporters : ReporterStep(w)
  BY <1>2, RunningGoOn DEF electionVars, lockVars, pollVars, LockIsInUse
<1>3. CASE \E i \in Instances : ElectionStep(i)
  BY <1>3, ElectionStepUsesLock
<1>4. ASSUME NEW i \in Instances, GoesDown(i), ElectionGoesDown(i)
      PROVE  LockIsInUse'
  <2>1. /\ life' = [life EXCEPT ![i] = "down"]
        /\ electionPc' = [electionPc EXCEPT ![i] = "standby"]
        /\ connected' = (connected /\ lockHolder # i) /\ UNCHANGED lockHolder
    BY <1>4 DEF GoesDown, ElectionGoesDown
  <2>2. QED
    BY <2>1 DEF LockIsInUse, TypeOK, ElectionTypeOK, AvailabilityTypeOK
<1>5. CASE ConnectionBreaks
  BY <1>5 DEF ConnectionBreaks, LockIsInUse
<1>6. CASE SessionEnds
  BY <1>6 DEF SessionEnds, LockIsInUse
<1>7. QED
  BY <1>1, <1>2, <1>3, <1>4, <1>5, <1>6 DEF Next

\* The advisory lock never stays with a session that works and that nobody polls
\* under, whoever was elected, gave up, crashed or lost its connection before.
THEOREM LockNeverIdle == Spec => []LockIsInUse
<1>1. Init => LockIsInUse
  BY DEF Init, ElectionInit, LockIsInUse
<1>2. TypeOK /\ LockIsInUse /\ [Next]_vars => LockIsInUse'
  BY NextUsesLock
<1>3. QED
  BY <1>1, <1>2, AvailabilityTypeCorrect, PTL DEF Spec
=============================================================================
