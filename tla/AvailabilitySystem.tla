------------------------- MODULE AvailabilitySystem -------------------------
(***************************************************************************)
(* Processor Availability across the instances of the program: elected     *)
(* pollers and workers that meet failures write the table, and the caches  *)
(* that route new Payments follow it.                                      *)
(***************************************************************************)
EXTENDS Election

vars == <<availabilityVars, electionVars>>

TypeOK == AvailabilityTypeOK /\ ElectionTypeOK

Init == AvailabilityInit /\ ElectionInit

Next ==
  \/ \E i \in Instances : InstanceStep(i) /\ UNCHANGED electionVars
  \/ \E w \in Reporters : ReporterStep(w) /\ UNCHANGED electionVars
  \/ \E i \in Instances : ElectionStep(i)
  \/ \E i \in Instances : GoesDown(i) /\ ElectionGoesDown(i)
  \/ ConnectionBreaks
  \/ SessionEnds

Spec == Init /\ [][Next]_vars

-----------------------------------------------------------------------------
(***************************************************************************)
(* Safety                                                                  *)
(***************************************************************************)
Log == INSTANCE AvailabilityLog WITH log <- persisted, view <- cache

\* Whatever the order in which replies, broadcasts and the hydration read
\* reach it, a cache holds persisted assessments only and never goes back to an
\* older one while its instance is up (versions in Apply).
ImplementsLog == Log!LogSpec

Quiet ==
  /\ \A i \in Instances : /\ life[i] \in {"down", "running"}
                          /\ inFlight[i] = {}
                          /\ electionPc[i] # "apply"
  /\ \A w \in Reporters : report[w].step # "committed"

\* Every cache catches up with the table: once nothing is on its way, each
\* running instance, also one that started between a commit and its broadcast,
\* routes by the latest assessment ("subscribes before startup hydration"); and
\* whatever replies, broadcasts and instances were lost before, one assessment
\* that is broadcast to every subscription is enough to make all agree again.
QuietCachesAgree ==
  Quiet =>
    \A s \in Services : ~Faults \/ s \in announced =>
      \A i \in Instances : life[i] = "running" => cache[i][s] = StateOf(row[s])

\* "A healthy observation that began no later than the latest passive failure is
\* rejected" (RecordPollObservation): a Processor is put back into routing only
\* by a poll that began after every passive failure recorded so far.
RecoveryFollowsFailures ==
  [][\A s \in Services :
       row'[s].available /\ row'[s].version # row[s].version =>
         \E i \in Instances :
           /\ electionPc[i] = "record"
           /\ target[i] = s
           /\ \A at \in failures[s] : startedAt[i] > at]_vars

\* "... so an older in-flight poll cannot restore new work routing": no poll that
\* began before a passive failure which is already recorded makes the Processor
\* available again, also when the statements of two failures overlap.
OlderPollNeverRestores ==
  [][\A s \in Services :
       row'[s].available /\ row'[s].version # row[s].version =>
         \E i \in Instances :
           /\ electionPc[i] = "record"
           /\ target[i] = s
           /\ \A at \in failures[s] : startedAt[i] >= at]_vars

\* "the one active Processor Availability poller" (Election): no two instances
\* are in the middle of polling.
PollingNow(i) == electionPc[i] \in {"start", "request", "record", "apply"}

SolePoller == \A i, j \in Instances : PollingNow(i) /\ PollingNow(j) => i = j

\* "Close relinquishes leadership" (HealthLeadership): a working session holds the
\* advisory lock for the polls of a running instance, never for one that gave
\* leadership up or is down, so that nobody is kept from being elected in vain.
LockIsInUse ==
  connected => \E i \in Instances : /\ lockHolder = i
                                    /\ life[i] = "running"
                                    /\ electionPc[i] # "standby"

-----------------------------------------------------------------------------
(***************************************************************************)
(* Progress: elections of running instances go on, PostgreSQL notices a    *)
(* broken session in the end, and from some moment on no connection breaks *)
(* and neither the check of the session nor the read of the start time     *)
(* errs.  Health requests may fail for ever, and nothing restarts an       *)
(* instance that is down.                                                  *)
(***************************************************************************)
Mishap ==
  \/ ConnectionBreaks
  \/ \E i \in Instances : HoldsLock(i) /\ CheckFails(i)
  \/ \E i \in Instances : PollStartErrs(i)
  \/ \E i \in Instances : GoesDown(i) /\ ElectionGoesDown(i)

ProgressSpec ==
  /\ Spec
  /\ \A i \in Instances : WF_vars(ElectionStep(i))
  /\ WF_vars(SessionEnds)
  /\ <>[][~Mishap]_vars

\* Whatever leaders crashed, lost their session or gave it up before, as long
\* as one instance stays up both Processors are asked for their availability
\* for ever.
PollingResumes ==
  (\E i \in Instances : <>[](life[i] = "running")) =>
    \A s \in Services : []<>(\E i \in Instances : electionPc[i] = "request" /\ target[i] = s)
=============================================================================
