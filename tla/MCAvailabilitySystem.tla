------------------------ MODULE MCAvailabilitySystem ------------------------
(***************************************************************************)
(* TLC instances of AvailabilitySystem.                                    *)
(***************************************************************************)
EXTENDS AvailabilitySystem

CONSTANTS i1, i2

NoReporters   == {}
OneReporter   == {<<i1, 1>>}
TwoReporters  == {<<i1, 1>>, <<i1, 2>>}

TwoDefault    == [s \in Services |-> IF s = "default" THEN 2 ELSE 0]
ThreeDefault  == [s \in Services |-> IF s = "default" THEN 3 ELSE 0]
NoVersions    == [s \in Services |-> 0]
=============================================================================
