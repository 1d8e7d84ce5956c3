--------------------------- MODULE MCFleetDispatch ---------------------------
(* The instances of FleetDispatch that TLC checks.                         *)
EXTENDS FleetDispatch

CONSTANTS workflow, person

TwoIssues == {1, 12}

\* A text that holds "#12" holds "#1" as well.
NamedAlso == [i \in TwoIssues |-> IF i = 12 THEN {1, 12} ELSE {1}]

TwoRunners == {workflow, person}
OnlyTheWorkflow == {workflow}
=============================================================================
