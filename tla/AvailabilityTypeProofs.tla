----------------------- MODULE AvailabilityTypeProofs -----------------------
(***************************************************************************)
(* Type correctness of AvailabilitySystem, for any instances, workers and  *)
(* bounds, with and without faults.                                        *)
(***************************************************************************)
EXTENDS AvailabilitySystem, TLAPS

(***************************************************************************)
(* What the statements write, what Apply and Broadcast do to the caches    *)
(* and what is on its way to them.                                         *)
(***************************************************************************)
LEMMA ReportCases ==
  ASSUME NEW r \in Reports
  PROVE  /\ r.step \in {"begun", "orphaned"} =>
              /\ r \in [step : {"begun", "orphaned"}, service : Services, at : Times]
              /\ r.service \in Services /\ r.at \in Times
         /\ r.step = "committed" =>
              /\ r \in [step : {"committed"}, service : Services, state : States]
              /\ r.service \in Services /\ r.state \in States
         /\ r.step \notin {"begun", "orphaned", "committed"} => r = Idle
BY DEF Reports, Idle

LEMMA TimePassesTypes ==
  ASSUME clock \in Times, TimePasses
  PROVE  clock' \in Times /\ clock <= clock'
BY AvailabilityAssumption DEF Times, TimePasses

LEMMA UpsertTypes ==
  ASSUME AvailabilityTypeOK, NEW s \in Services, NEW available \in BOOLEAN,
         NEW failedAt \in {Never} \cup Times, Upsert(s, available, failedAt)
  PROVE  /\ row' \in [Services -> [available : BOOLEAN, version : Nat, failedAt : {Never} \cup Times]]
         /\ persisted' \in [Services -> Seq(BOOLEAN)]
         /\ announced' \in SUBSET Services
         /\ row'[s].version = row[s].version + 1
         /\ row'[s].available = available
         /\ row'[s].failedAt = failedAt
         /\ StateOf(row'[s]) \in States \ {Unknown}
         /\ \A t \in Services : t # s => row'[t] = row[t]
<1> USE DEF AvailabilityTypeOK
<1>1. row' \in [Services -> [available : BOOLEAN, version : Nat, failedAt : {Never} \cup Times]]
  BY DEF Upsert
<1>2. persisted' \in [Services -> Seq(BOOLEAN)]
  BY DEF Upsert
<1>3. /\ row'[s].version = row[s].version + 1
      /\ row'[s].available = available
      /\ row'[s].failedAt = failedAt
      /\ \A t \in Services : t # s => row'[t] = row[t]
  BY DEF Upsert
<1>4. announced' \in SUBSET Services
  BY DEF Upsert
<1>5. StateOf(row'[s]) \in States \ {Unknown}
  <2>1. row'[s].version \in Nat /\ row'[s].version # 0 /\ row'[s].available \in BOOLEAN
    BY <1>3
  <2>2. StateOf(row'[s]) \in States
    BY <2>1 DEF StateOf, States
  <2>3. StateOf(row'[s]) # Unknown
    BY <2>1 DEF StateOf, Unknown
  <2>4. QED
    BY <2>2, <2>3
<1>6. QED
  BY <1>1, <1>2, <1>3, <1>4, <1>5

LEMMA UpsertFailureTypes ==
  ASSUME AvailabilityTypeOK, NEW s \in Services, NEW at \in Times, UpsertFailure(s, at)
  PROVE  /\ row' \in [Services -> [available : BOOLEAN, version : Nat, failedAt : {Never} \cup Times]]
         /\ persisted' \in [Services -> Seq(BOOLEAN)]
         /\ announced' \in SUBSET Services
         /\ failures' \in [Services -> SUBSET Times]
         /\ clock' = clock
         /\ StateOf(row'[s]) \in States \ {Unknown}
<1>1. failures' \in [Services -> SUBSET Times]
  BY DEF UpsertFailure, AvailabilityTypeOK
<1>2. Upsert(s, FALSE, at) /\ clock' = clock
  BY DEF UpsertFailure
<1>3. FALSE \in BOOLEAN /\ at \in {Never} \cup Times
  OBVIOUS
<1>4. QED
  BY <1>1, <1>2, <1>3, UpsertTypes

LEMMA UpsertObservationTypes ==
  ASSUME AvailabilityTypeOK, NEW s \in Services, NEW available \in BOOLEAN, NEW at,
         UpsertObservation(s, available, at)
  PROVE  /\ row' \in [Services -> [available : BOOLEAN, version : Nat, failedAt : {Never} \cup Times]]
         /\ persisted' \in [Services -> Seq(BOOLEAN)]
         /\ announced' \in SUBSET Services
         /\ failures' = failures
         /\ clock' = clock
         /\ StateOf(row'[s]) \in States \ {Unknown}
<1>1. row[s].failedAt \in {Never} \cup Times
  BY DEF AvailabilityTypeOK
<1>2. Upsert(s, available, row[s].failedAt) /\ clock' = clock /\ failures' = failures
  BY DEF UpsertObservation
<1>3. QED
  BY <1>1, <1>2, UpsertTypes

LEMMA ApplyTypes ==
  ASSUME AvailabilityTypeOK, NEW i \in Instances, NEW s \in Services, NEW state \in States,
         Apply(i, s, state)
  PROVE  cache' \in [Instances -> [Services -> States]]
BY DEF AvailabilityTypeOK, Apply

LEMMA BroadcastTypes ==
  ASSUME AvailabilityTypeOK, NEW s \in Services, NEW state \in States, Broadcast(s, state)
  PROVE  /\ inFlight' \in [Instances -> SUBSET Events]
         /\ announced' \in SUBSET Services
<1>1. [service |-> s, state |-> state] \in Events
  BY DEF Events
<1>2. QED
  BY <1>1 DEF AvailabilityTypeOK, Broadcast

LEMMA HomeIsInstance == \A w \in Reporters : Home(w) \in Instances
BY AvailabilityAssumption DEF Home

-----------------------------------------------------------------------------
(***************************************************************************)
(* One lemma for the steps of an instance, of a reporting worker, of an    *)
(* election, and for an instance that goes down.                           *)
(***************************************************************************)
LEMMA InstanceStepTypes ==
  ASSUME AvailabilityTypeOK, NEW i \in Instances, InstanceStep(i)
  PROVE  AvailabilityTypeOK'
<1> USE DEF AvailabilityTypeOK, tableVars, rowVars
<1>1. ASSUME Deliver(i)
      PROVE  AvailabilityTypeOK'
  <2>1. PICK event \in inFlight[i] :
          /\ Apply(i, event.service, event.state)
          /\ inFlight' = [inFlight EXCEPT ![i] = @ \ {event}]
    BY <1>1 DEF Deliver
  <2>2. event.service \in Services /\ event.state \in States
    BY DEF Events
  <2>3. cache' \in [Instances -> [Services -> States]]
    BY <2>1, <2>2, ApplyTypes
  <2>4. inFlight' \in [Instances -> SUBSET Events]
    BY <2>1
  <2>5. QED
    BY <1>1, <2>3, <2>4 DEF Deliver
<1>2. ASSUME Subscribe(i)
      PROVE  AvailabilityTypeOK'
  BY <1>2 DEF Subscribe
<1>3. ASSUME HydrateReads(i)
      PROVE  AvailabilityTypeOK'
  <2>1. [s \in Services |-> StateOf(row[s])] \in [Services -> States]
    BY DEF StateOf, States
  <2>2. snapshot' \in [Instances -> [Services -> States]]
    BY <1>3, <2>1 DEF HydrateReads
  <2>3. QED
    BY <1>3, <2>2 DEF HydrateReads
<1>4. ASSUME NEW s \in Services, HydrateApplies(i, s)
      PROVE  AvailabilityTypeOK'
  <2>1. Unknown \in States
    BY DEF Unknown, States
  <2>2. snapshot' \in [Instances -> [Services -> States]]
    BY <1>4, <2>1 DEF HydrateApplies
  <2>3. cache' \in [Instances -> [Services -> States]]
    BY <1>4, ApplyTypes DEF HydrateApplies
  <2>4. QED
    BY <1>4, <2>2, <2>3 DEF HydrateApplies
<1>5. ASSUME Starts(i)
      PROVE  AvailabilityTypeOK'
  BY <1>5 DEF Starts
<1>6. QED
  BY <1>1, <1>2, <1>3, <1>4, <1>5 DEF InstanceStep

LEMMA ReporterStepTypes ==
  ASSUME AvailabilityTypeOK, NEW w \in Reporters, ReporterStep(w)
  PROVE  AvailabilityTypeOK'
<1> USE DEF AvailabilityTypeOK, tableVars, rowVars, instanceVars
<1> Idle \in Reports
  BY DEF Reports
<1>1. report[w] \in Reports
  OBVIOUS
<1>2. ASSUME NEW s \in Services, FailureBegins(w, s)
      PROVE  AvailabilityTypeOK'
  <2>1. clock' \in Times
    BY <1>2, TimePassesTypes DEF FailureBegins
  <2>2. [step |-> "begun", service |-> s, at |-> clock'] \in Reports
    BY <2>1 DEF Reports
  <2>3. QED
    BY <1>2, <2>1, <2>2 DEF FailureBegins
<1>3. ASSUME FailureCommits(w)
      PROVE  AvailabilityTypeOK'
  <2> DEFINE s == report[w].service
  <2>1. s \in Services /\ report[w].at \in Times
    BY <1>1, <1>3, ReportCases DEF FailureCommits
  <2>2. /\ UpsertFailure(s, report[w].at)
        /\ report' = [report EXCEPT ![w] =
             [step |-> "committed", service |-> s, state |-> StateOf(row'[s])]]
        /\ UNCHANGED instanceVars
    BY <1>3 DEF FailureCommits
  <2>3. /\ row' \in [Services -> [available : BOOLEAN, version : Nat, failedAt : {Never} \cup Times]]
        /\ persisted' \in [Services -> Seq(BOOLEAN)]
        /\ announced' \in SUBSET Services
        /\ failures' \in [Services -> SUBSET Times]
        /\ clock' = clock
        /\ StateOf(row'[s]) \in States
    BY <2>1, <2>2, UpsertFailureTypes
  <2>4. [step |-> "committed", service |-> s, state |-> StateOf(row'[s])] \in Reports
    BY <2>1, <2>3 DEF Reports
  <2>5. report' \in [Reporters -> Reports]
    BY <2>2, <2>4
  <2>6. QED
    BY <2>2, <2>3, <2>5
<1>4. ASSUME FailureReturns(w)
      PROVE  AvailabilityTypeOK'
  <2>1. report[w].service \in Services /\ report[w].state \in States
    BY <1>1, <1>4, ReportCases DEF FailureReturns
  <2>2. /\ Apply(Home(w), report[w].service, report[w].state)
        /\ Broadcast(report[w].service, report[w].state)
        /\ UNCHANGED <<life, snapshot>>
    BY <1>4 DEF FailureReturns, ApplyAndBroadcast
  <2>3. cache' \in [Instances -> [Services -> States]]
    BY <2>1, <2>2, ApplyTypes, HomeIsInstance
  <2>4. inFlight' \in [Instances -> SUBSET Events] /\ announced' \in SUBSET Services
    BY <2>1, <2>2, BroadcastTypes
  <2>5. QED
    BY <1>4, <2>2, <2>3, <2>4 DEF FailureReturns
<1>5. ASSUME FailureErrs(w)
      PROVE  AvailabilityTypeOK'
  <2>1. report[w].service \in Services /\ report[w].at \in Times
    BY <1>1, <1>5, ReportCases DEF FailureErrs
  <2>2. report' \in [Reporters -> Reports]
    BY <1>5 DEF FailureErrs
  <2>3. CASE UpsertFailure(report[w].service, report[w].at)
    BY <1>5, <2>1, <2>2, <2>3, UpsertFailureTypes DEF FailureErrs
  <2>4. CASE UNCHANGED tableVars
    BY <1>5, <2>2, <2>4 DEF FailureErrs
  <2>5. QED
    BY <1>5, <2>3, <2>4 DEF FailureErrs
<1>6. QED
  BY <1>2, <1>3, <1>4, <1>5 DEF ReporterStep

\* What a crash of instance i leaves of the report of worker w.
ReportAfterCrash(w, i) ==
  \/ Home(w) = i /\ report[w].step = "begun" /\ report'[w] = [report[w] EXCEPT !.step = "orphaned"]
  \/ Home(w) = i /\ report[w].step = "committed" /\ report'[w] = Idle
  \/ Home(w) # i /\ report'[w] = report[w]
  \/ report[w].step \notin {"begun", "committed"} /\ report'[w] = report[w]

LEMMA CrashReports ==
  ASSUME NEW i \in Instances, GoesDown(i)
  PROVE  /\ report' = [w \in Reporters |-> report'[w]]
         /\ \A w \in Reporters : ReportAfterCrash(w, i)
<1>1. report' = [w \in Reporters |->
        CASE Home(w) = i /\ report[w].step = "begun" -> [report[w] EXCEPT !.step = "orphaned"]
          [] Home(w) = i /\ report[w].step = "committed" -> Idle
          [] OTHER -> report[w]]
  BY DEF GoesDown
<1>2. report' = [w \in Reporters |-> report'[w]]
  BY <1>1
<1>3. ASSUME NEW w \in Reporters
      PROVE  ReportAfterCrash(w, i)
  <2>1. report'[w] =
          CASE Home(w) = i /\ report[w].step = "begun" -> [report[w] EXCEPT !.step = "orphaned"]
            [] Home(w) = i /\ report[w].step = "committed" -> Idle
            [] OTHER -> report[w]
    BY <1>1
  <2>2. CASE Home(w) = i /\ report[w].step = "begun"
    BY <2>1, <2>2 DEF ReportAfterCrash
  <2>3. CASE Home(w) = i /\ report[w].step = "committed"
    BY <2>1, <2>3 DEF ReportAfterCrash
  <2>4. CASE ~(Home(w) = i /\ report[w].step \in {"begun", "committed"})
    BY <2>1, <2>4 DEF ReportAfterCrash
  <2>5. QED
    BY <2>2, <2>3, <2>4
<1>4. QED
  BY <1>2, <1>3

LEMMA GoesDownTypes ==
  ASSUME AvailabilityTypeOK, NEW i \in Instances, GoesDown(i)
  PROVE  AvailabilityTypeOK'
<1> USE DEF AvailabilityTypeOK
<1>1. [s \in Services |-> Unknown] \in [Services -> States]
  BY DEF Unknown, States
<1>2. report' \in [Reporters -> Reports]
  <2>1. /\ report' = [w \in Reporters |-> report'[w]]
        /\ \A w \in Reporters : ReportAfterCrash(w, i)
    BY CrashReports
  <2>2. ASSUME NEW w \in Reporters
        PROVE  report'[w] \in Reports
    <3>1. report[w] \in Reports /\ Idle \in Reports
      BY DEF Reports
    <3>2. report[w].step = "begun" => [report[w] EXCEPT !.step = "orphaned"] \in Reports
      BY <3>1, ReportCases DEF Reports
    <3>3. QED
      BY <2>1, <3>1, <3>2 DEF ReportAfterCrash
  <2>3. QED
    BY <2>1, <2>2
<1>3. /\ cache' \in [Instances -> [Services -> States]]
      /\ snapshot' \in [Instances -> [Services -> States]]
      /\ inFlight' \in [Instances -> SUBSET Events]
  BY <1>1 DEF GoesDown
<1>4. life' \in [Instances -> {"down", "subscribed", "hydrating", "running"}]
  BY DEF GoesDown
<1>5. QED
  BY <1>2, <1>3, <1>4 DEF GoesDown, tableVars, rowVars

LEMMA NextProcessorTypes ==
  ASSUME ElectionTypeOK, NEW i \in Instances, NEW from, NextProcessor(i, from), UNCHANGED lockVars
  PROVE  ElectionTypeOK'
<1> USE DEF ElectionTypeOK
<1>1. /\ electionPc' = [electionPc EXCEPT ![i] = "check"]
      /\ committed' = [committed EXCEPT ![i] = Unknown]
      /\ target' = [target EXCEPT ![i] = IF @ = "default" THEN "fallback" ELSE "default"]
      /\ startedAt' = [startedAt EXCEPT ![i] = Never]
      /\ answer' = [answer EXCEPT ![i] = FALSE]
  BY DEF NextProcessor, Polling
<1>2. committed' \in [Instances -> States]
  BY <1>1 DEF Unknown, States
<1>3. \A j \in Instances : electionPc'[j] = "apply" <=> committed'[j] # Unknown
  BY <1>1
<1>4. target' \in [Instances -> Services]
  BY <1>1 DEF Services
<1>5. QED
  BY <1>1, <1>2, <1>3, <1>4 DEF lockVars

\* The parts of a poll that are not its program counter and not the state it
\* committed.
LEMMA PollTypes ==
  ASSUME ElectionTypeOK, NEW i \in Instances, NEW from, NEW to, Polling(i, from, to),
         to \in {"standby", "check", "start", "request", "record", "close"},
         from # "apply",
         target' \in [Instances -> Services],
         startedAt' \in [Instances -> {Never} \cup Times],
         answer' \in [Instances -> BOOLEAN],
         lockHolder' \in Instances \cup {None},
         connected' \in BOOLEAN,
         UNCHANGED committed
  PROVE  ElectionTypeOK'
<1> USE DEF ElectionTypeOK, Polling
<1>1. electionPc' \in [Instances ->
        {"standby", "check", "start", "request", "record", "apply", "close"}]
  OBVIOUS
<1>2. \A j \in Instances : electionPc'[j] = "apply" <=> committed'[j] # Unknown
  OBVIOUS
<1>3. QED
  BY <1>1, <1>2

LEMMA ElectionStepTypes ==
  ASSUME TypeOK, NEW i \in Instances, ElectionStep(i)
  PROVE  TypeOK'
<1> USE DEF TypeOK
<1>1. /\ UNCHANGED availabilityVars => AvailabilityTypeOK'
      /\ UNCHANGED tableVars /\ UNCHANGED <<instanceVars, report>> => AvailabilityTypeOK'
  BY DEF availabilityVars, tableVars, rowVars, instanceVars, AvailabilityTypeOK
<1>2. target[i] \in Services /\ answer[i] \in BOOLEAN /\ committed[i] \in States
  BY DEF ElectionTypeOK
<1>3. ASSUME UpsertObservation(target[i], answer[i], startedAt[i]),
             UNCHANGED <<instanceVars, report>>
      PROVE  AvailabilityTypeOK'
  <2>1. /\ row' \in [Services -> [available : BOOLEAN, version : Nat, failedAt : {Never} \cup Times]]
        /\ persisted' \in [Services -> Seq(BOOLEAN)]
        /\ announced' \in SUBSET Services
        /\ failures' = failures
        /\ clock' = clock
    BY <1>2, <1>3, UpsertObservationTypes
  <2>2. QED
    BY <1>3, <2>1 DEF AvailabilityTypeOK, instanceVars
<1>4. ASSUME TryHealthLeadership(i)
      PROVE  TypeOK'
  <2>1. ElectionTypeOK'
    <3>1. target' \in [Instances -> Services]
      BY <1>4 DEF TryHealthLeadership, ElectionTypeOK, Services
    <3>2. QED
      BY <1>4, <3>1, PollTypes DEF TryHealthLeadership, ElectionTypeOK
  <2>2. QED
    BY <1>1, <1>4, <2>1 DEF TryHealthLeadership
<1>5. ASSUME CheckSucceeds(i) \/ CheckFails(i)
      PROVE  TypeOK'
  <2>1. ElectionTypeOK'
    <3>1. UNCHANGED <<target, startedAt, answer, committed, lockHolder, connected>>
      BY <1>5 DEF CheckSucceeds, CheckFails, KeepPoll, lockVars
    <3>2. Polling(i, "check", "start") \/ Polling(i, "check", "close")
      BY <1>5 DEF CheckSucceeds, CheckFails
    <3>3. QED
      BY <3>1, <3>2, PollTypes DEF ElectionTypeOK
  <2>2. QED
    BY <1>1, <1>5, <2>1 DEF CheckSucceeds, CheckFails
<1>6. ASSUME Close(i)
      PROVE  TypeOK'
  <2>1. ElectionTypeOK'
    <3>1. target' \in [Instances -> Services]
      BY <1>6 DEF Close, ElectionTypeOK, Services
    <3>2. lockHolder' \in Instances \cup {None} /\ connected' \in BOOLEAN
      BY <1>6 DEF Close, ElectionTypeOK, lockVars
    <3>3. QED
      BY <1>6, <3>1, <3>2, PollTypes DEF Close, ElectionTypeOK
  <2>2. QED
    BY <1>1, <1>6, <2>1 DEF Close
<1>7. ASSUME PollStarts(i)
      PROVE  TypeOK'
  <2>1. clock' \in Times
    BY <1>7, TimePassesTypes DEF PollStarts, AvailabilityTypeOK
  <2>2. ElectionTypeOK'
    <3>1. startedAt' \in [Instances -> {Never} \cup Times]
      BY <1>7, <2>1 DEF PollStarts, ElectionTypeOK
    <3>2. QED
      BY <1>7, <3>1, PollTypes DEF PollStarts, ElectionTypeOK, lockVars
  <2>3. AvailabilityTypeOK'
    BY <1>7, <2>1 DEF PollStarts, AvailabilityTypeOK, instanceVars
  <2>4. QED
    BY <2>2, <2>3
<1>8. ASSUME ProcessorAnswers(i)
      PROVE  TypeOK'
  <2>1. ElectionTypeOK'
    <3>1. answer' \in [Instances -> BOOLEAN]
      BY <1>8 DEF ProcessorAnswers, ElectionTypeOK
    <3>2. QED
      BY <1>8, <3>1, PollTypes DEF ProcessorAnswers, ElectionTypeOK, lockVars
  <2>2. QED
    BY <1>1, <1>8, <2>1 DEF ProcessorAnswers
<1>9. ASSUME ObservationCommits(i)
      PROVE  TypeOK'
  <2>1. AvailabilityTypeOK'
    BY <1>3, <1>9 DEF ObservationCommits
  <2>2. ElectionTypeOK'
    <3>1. StateOf(row'[target[i]]) \in States \ {Unknown}
      BY <1>2, <1>9, UpsertObservationTypes DEF ObservationCommits
    <3>2. committed' \in [Instances -> States] /\ electionPc' \in [Instances ->
            {"standby", "check", "start", "request", "record", "apply", "close"}]
      BY <1>9, <3>1 DEF ObservationCommits, Polling, ElectionTypeOK
    <3>3. \A j \in Instances : electionPc'[j] = "apply" <=> committed'[j] # Unknown
      BY <1>9, <3>1 DEF ObservationCommits, Polling, ElectionTypeOK
    <3>4. QED
      BY <1>9, <3>2, <3>3 DEF ObservationCommits, ElectionTypeOK, lockVars
  <2>3. QED
    BY <2>1, <2>2
<1>10. ASSUME NextProcessor(i, "record") \/ NextProcessor(i, "start") \/ NextProcessor(i, "request"),
              UNCHANGED <<availabilityVars, lockVars>>
       PROVE  TypeOK'
  BY <1>1, <1>10, NextProcessorTypes DEF lockVars
<1>11. ASSUME ObservationErrs(i)
       PROVE  TypeOK'
  <2>1. ElectionTypeOK'
    BY <1>11, NextProcessorTypes DEF ObservationErrs, lockVars
  <2>2. AvailabilityTypeOK'
    BY <1>1, <1>3, <1>11 DEF ObservationErrs
  <2>3. QED
    BY <2>1, <2>2
<1>12. ASSUME ObservationReturns(i)
       PROVE  TypeOK'
  <2>1. ElectionTypeOK'
    BY <1>12, NextProcessorTypes DEF ObservationReturns, lockVars
  <2>2. /\ Apply(i, target[i], committed[i])
        /\ Broadcast(target[i], committed[i])
        /\ UNCHANGED <<life, snapshot, rowVars, report>>
    BY <1>12 DEF ObservationReturns, ApplyAndBroadcast
  <2>3. cache' \in [Instances -> [Services -> States]]
    BY <1>2, <2>2, ApplyTypes
  <2>4. inFlight' \in [Instances -> SUBSET Events] /\ announced' \in SUBSET Services
    BY <1>2, <2>2, BroadcastTypes
  <2>5. AvailabilityTypeOK'
    BY <2>2, <2>3, <2>4 DEF AvailabilityTypeOK, rowVars
  <2>6. QED
    BY <2>1, <2>5
<1>13. QED
  BY <1>4, <1>5, <1>6, <1>7, <1>8, <1>9, <1>10, <1>11, <1>12
  DEF ElectionStep, ObservationRejected, PollStartErrs, HealthRequestFails

LEMMA ElectionGoesDownTypes ==
  ASSUME ElectionTypeOK, NEW i \in Instances, ElectionGoesDown(i)
  PROVE  ElectionTypeOK'
<1> USE DEF ElectionTypeOK, ElectionGoesDown
<1>1. target' \in [Instances -> Services]
  BY DEF Services
<1>2. committed' \in [Instances -> States]
  BY DEF Unknown, States
<1>3. connected' \in BOOLEAN
  BY Zenon
<1>4. \A j \in Instances : electionPc'[j] = "apply" <=> committed'[j] # Unknown
  OBVIOUS
<1>5. QED
  BY <1>1, <1>2, <1>3, <1>4

-----------------------------------------------------------------------------
LEMMA InitTypes == Init => TypeOK
<1> SUFFICES ASSUME Init
             PROVE  AvailabilityTypeOK /\ ElectionTypeOK
  BY DEF TypeOK
<1>1. /\ Unknown \in States
      /\ NoRow \in [available : BOOLEAN, version : Nat, failedAt : {Never} \cup Times]
      /\ Idle \in Reports
      /\ 1 \in Times
  BY AvailabilityAssumption DEF Unknown, States, NoRow, Idle, Reports, Times
<1>2. AvailabilityTypeOK
  BY <1>1 DEF Init, AvailabilityInit, AvailabilityTypeOK
<1>3. ElectionTypeOK
  BY <1>1 DEF Init, ElectionInit, ElectionTypeOK, Services
<1>4. QED
  BY <1>2, <1>3

LEMMA NextTypes ==
  ASSUME TypeOK, [Next]_vars
  PROVE  TypeOK'
<1> USE DEF TypeOK
<1>1. ASSUME UNCHANGED electionVars, AvailabilityTypeOK'
      PROVE  TypeOK'
  BY <1>1 DEF electionVars, lockVars, pollVars, ElectionTypeOK
<1>2. ASSUME UNCHANGED availabilityVars, ElectionTypeOK'
      PROVE  TypeOK'
  BY <1>2 DEF availabilityVars, tableVars, rowVars, instanceVars, AvailabilityTypeOK
<1>3. ASSUME NEW i \in Instances, InstanceStep(i), UNCHANGED electionVars
      PROVE  TypeOK'
  BY <1>1, <1>3, InstanceStepTypes
<1>4. ASSUME NEW w \in Reporters, ReporterStep(w), UNCHANGED electionVars
      PROVE  TypeOK'
  BY <1>1, <1>4, ReporterStepTypes
<1>5. ASSUME NEW i \in Instances, ElectionStep(i)
      PROVE  TypeOK'
  BY <1>5, ElectionStepTypes
<1>6. ASSUME NEW i \in Instances, GoesDown(i), ElectionGoesDown(i)
      PROVE  TypeOK'
  BY <1>6, GoesDownTypes, ElectionGoesDownTypes
<1>7. CASE ConnectionBreaks \/ SessionEnds
  <2>1. ElectionTypeOK'
    BY <1>7 DEF ConnectionBreaks, SessionEnds, pollVars, ElectionTypeOK
  <2>2. QED
    BY <1>2, <1>7, <2>1 DEF ConnectionBreaks, SessionEnds
<1>8. CASE UNCHANGED vars
  <2>1. ElectionTypeOK'
    BY <1>8 DEF vars, electionVars, lockVars, pollVars, ElectionTypeOK
  <2>2. QED
    BY <1>2, <1>8, <2>1 DEF vars
<1>9. QED
  BY <1>3, <1>4, <1>5, <1>6, <1>7, <1>8 DEF Next

\* Every reachable state of the table, the caches, what is on its way to them,
\* the pending reports and the elections is well typed; an election holds a
\* state to apply exactly while RecordPollObservation has one to return.
THEOREM AvailabilityTypeCorrect == Spec => []TypeOK
<1>1. Init => TypeOK
  BY InitTypes
<1>2. TypeOK /\ [Next]_vars => TypeOK'
  BY NextTypes
<1>3. QED
  BY <1>1, <1>2, PTL DEF Spec
=============================================================================
