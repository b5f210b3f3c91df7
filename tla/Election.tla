------------------------------ MODULE Election ------------------------------
(***************************************************************************)
(* The Processor Availability poller (internal/availability/election.go):  *)
(* every running instance tries to take a PostgreSQL session-level         *)
(* advisory lock on a dedicated connection; the holder polls Default, then *)
(* Fallback, checking before each that its session is still connected, and *)
(* commits what they answer.                                               *)
(***************************************************************************)
EXTENDS Availability

VARIABLES
  lockHolder,   \* the instance in whose session PostgreSQL holds the advisory lock
  connected,    \* whether that session's connection still works
  electionPc,   \* the call each instance's election makes next
  target,       \* the Processor it polls
  startedAt,    \* AvailabilityPollStartedAt of the poll
  answer,       \* whether the Processor answered that it is available
  committed     \* the new state its observation committed, to be applied

lockVars     == <<lockHolder, connected>>
pollVars     == <<electionPc, target, startedAt, answer, committed>>
electionVars == <<lockVars, pollVars>>

ElectionTypeOK ==
  /\ lockHolder \in Instances \cup {None}
  /\ connected \in BOOLEAN
  /\ electionPc \in [Instances ->
       {"standby", "check", "start", "request", "record", "apply", "close"}]
  /\ target \in [Instances -> Services]
  /\ startedAt \in [Instances -> {Never} \cup Times]
  /\ answer \in [Instances -> BOOLEAN]
  /\ committed \in [Instances -> States]
  /\ \A i \in Instances : electionPc[i] = "apply" <=> committed[i] # Unknown

ElectionInit ==
  /\ lockHolder = None
  /\ connected = FALSE
  /\ electionPc = [i \in Instances |-> "standby"]
  /\ target = [i \in Instances |-> "default"]
  /\ startedAt = [i \in Instances |-> Never]
  /\ answer = [i \in Instances |-> FALSE]
  /\ committed = [i \in Instances |-> Unknown]

Polling(i, from, to) ==
  /\ life[i] = "running"
  /\ electionPc[i] = from
  /\ electionPc' = [electionPc EXCEPT ![i] = to]

KeepPoll == UNCHANGED <<target, startedAt, answer, committed>>

\* poll's loop goes on to the other Processor: the next one of this round, or
\* the first of the next round after PROCESSOR_POLL_INTERVAL.
NextProcessor(i, from) ==
  /\ Polling(i, from, "check")
  /\ target' = [target EXCEPT ![i] = IF @ = "default" THEN "fallback" ELSE "default"]
  /\ startedAt' = [startedAt EXCEPT ![i] = Never]
  /\ answer' = [answer EXCEPT ![i] = FALSE]
  /\ committed' = [committed EXCEPT ![i] = Unknown]

-----------------------------------------------------------------------------
(***************************************************************************)
(* The advisory lock.                                                      *)
(***************************************************************************)
\* TryHealthLeadership on a fresh pool connection; polling starts at once.
TryHealthLeadership(i) ==
  /\ Polling(i, "standby", "check")
  /\ lockHolder = None
  /\ lockHolder' = i
  /\ connected' = TRUE
  /\ target' = [target EXCEPT ![i] = "default"]
  /\ UNCHANGED <<availabilityVars, startedAt, answer, committed>>

HoldsLock(i) == lockHolder = i /\ connected

\* The network or the server breaks the leader's connection.  PostgreSQL
\* keeps the session, and the lock with it, until it notices.
ConnectionBreaks ==
  /\ connected
  /\ connected' = FALSE
  /\ UNCHANGED <<availabilityVars, lockHolder, pollVars>>

SessionEnds ==
  /\ lockHolder # None
  /\ ~connected
  /\ lockHolder' = None
  /\ UNCHANGED <<availabilityVars, connected, pollVars>>

\* Alive, before each poll of a Processor.
CheckSucceeds(i) ==
  /\ Polling(i, "check", "start")
  /\ HoldsLock(i)
  /\ KeepPoll
  /\ UNCHANGED <<availabilityVars, lockVars>>

\* The connection is gone, or the query errs on it for another reason.
CheckFails(i) ==
  /\ Polling(i, "check", "close")
  /\ KeepPoll
  /\ UNCHANGED <<availabilityVars, lockVars>>

\* Mutant: the connection returns to the pool with its session still locked.
CloseReleasesOnly(i) ==
  /\ Polling(i, "close", "standby")
  /\ KeepPoll
  /\ UNCHANGED <<availabilityVars, lockVars>>

\* HealthLeadership.Close unlocks, or closes a session it cannot reach.
Close(i) ==
  /\ Polling(i, "close", "standby")
  /\ \/ HoldsLock(i) /\ lockHolder' = None /\ connected' = FALSE
     \/ ~HoldsLock(i) /\ UNCHANGED lockVars
  /\ target' = [target EXCEPT ![i] = "default"]
  /\ UNCHANGED <<availabilityVars, startedAt, answer, committed>>

-----------------------------------------------------------------------------
(***************************************************************************)
(* pollProcessor                                                           *)
(***************************************************************************)
PollStarts(i) ==
  /\ Polling(i, "start", "request")
  /\ TimePasses
  /\ startedAt' = [startedAt EXCEPT ![i] = clock']
  /\ UNCHANGED <<row, persisted, failures, announced, instanceVars, report, lockVars, target, answer, committed>>

\* A complete 200 response.
ProcessorAnswers(i) ==
  /\ Polling(i, "request", "record")
  /\ WithinBound(target[i])
  /\ \E available \in BOOLEAN : answer' = [answer EXCEPT ![i] = available]
  /\ UNCHANGED <<availabilityVars, lockVars, target, startedAt, committed>>

\* Mutant: the row that the statement returns is not read.
ObservationCommitsUnread(i) ==
  /\ Polling(i, "record", "apply")
  /\ UpsertObservation(target[i], answer[i], startedAt[i])
  /\ UNCHANGED <<instanceVars, report, lockVars, target, startedAt, answer, committed>>

ObservationCommits(i) ==
  /\ Polling(i, "record", "apply")
  /\ UpsertObservation(target[i], answer[i], startedAt[i])
  /\ committed' = [committed EXCEPT ![i] = StateOf(row'[target[i]])]
  /\ UNCHANGED <<instanceVars, report, lockVars, target, startedAt, answer>>

ObservationRejected(i) ==
  /\ NextProcessor(i, "record")
  /\ ~ObservationHolds(target[i], answer[i], startedAt[i])
  /\ UNCHANGED <<availabilityVars, lockVars>>

\* RecordPollObservation errs at the poller, before or after its commit.
ObservationErrs(i) ==
  /\ Faults
  /\ NextProcessor(i, "record")
  /\ \/ UpsertObservation(target[i], answer[i], startedAt[i])
     \/ UNCHANGED tableVars
  /\ UNCHANGED <<instanceVars, report, lockVars>>

ObservationReturns(i) ==
  /\ NextProcessor(i, "apply")
  /\ ApplyAndBroadcast(i, target[i], committed[i])
  /\ UNCHANGED <<rowVars, report, lockVars>>

\* The database does not tell the start time: there is no request.
PollStartErrs(i) ==
  /\ NextProcessor(i, "start")
  /\ UNCHANGED <<availabilityVars, lockVars>>

\* No complete 200 response: there is no observation.
HealthRequestFails(i) ==
  /\ NextProcessor(i, "request")
  /\ UNCHANGED <<availabilityVars, lockVars>>

-----------------------------------------------------------------------------
\* The election goroutine goes down with its instance, mid-call only when
\* there are faults, and its session with it.
ElectionGoesDown(i) ==
  /\ Faults \/ electionPc[i] # "apply"
  /\ electionPc' = [electionPc EXCEPT ![i] = "standby"]
  /\ target' = [target EXCEPT ![i] = "default"]
  /\ startedAt' = [startedAt EXCEPT ![i] = Never]
  /\ answer' = [answer EXCEPT ![i] = FALSE]
  /\ committed' = [committed EXCEPT ![i] = Unknown]
  /\ connected' = (connected /\ lockHolder # i)
  /\ UNCHANGED lockHolder

ElectionStep(i) ==
  \/ TryHealthLeadership(i)
  \/ CheckSucceeds(i)
  \/ CheckFails(i)
  \/ Close(i)
  \/ PollStarts(i)
  \/ ProcessorAnswers(i)
  \/ ObservationCommits(i)
  \/ ObservationRejected(i)
  \/ ObservationErrs(i)
  \/ ObservationReturns(i)
  \/ PollStartErrs(i)
  \/ HealthRequestFails(i)
=============================================================================
