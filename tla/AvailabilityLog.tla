--------------------------- MODULE AvailabilityLog ---------------------------
(***************************************************************************)
(* What Processor Availability promises, without statements, broadcasts    *)
(* or leaders: of each Processor there is one sequence of assessments, and *)
(* each instance holds a view of it that only moves forward.  An instance  *)
(* may skip assessments and may lag behind, but it never holds one that    *)
(* was not persisted and never falls back to an older one.                 *)
(***************************************************************************)
EXTENDS Domain, Naturals, Sequences

CONSTANT Instances

VARIABLES
  log,   \* of each Processor, its assessments (available or not) in order
  view   \* of each instance and Processor, an assessment and its position; 0 for none

logVars == <<log, view>>

NoView == [available |-> FALSE, version |-> 0]

LogInit ==
  /\ log = [s \in Services |-> <<>>]
  /\ view = [i \in Instances |-> [s \in Services |-> NoView]]

Assess ==
  /\ log' # log
  /\ UNCHANGED view
  /\ \E s \in Services, available \in BOOLEAN : log' = [log EXCEPT ![s] = Append(@, available)]

Learn(i, s) ==
  \E n \in (view[i][s].version + 1) .. Len(log[s]) :
    view' = [view EXCEPT ![i][s] = [available |-> log[s][n], version |-> n]]

Forget(i) == view' = [view EXCEPT ![i] = [s \in Services |-> NoView]]

\* The log grows, or one view changes, never both.
LogNext ==
  \/ Assess
  \/ /\ view' # view
     /\ UNCHANGED log
     /\ \E i \in Instances : Forget(i) \/ \E s \in Services : Learn(i, s)

LogSpec == LogInit /\ [][LogNext]_logVars
=============================================================================
