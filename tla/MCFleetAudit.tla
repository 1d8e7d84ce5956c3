---------------------------- MODULE MCFleetAudit ----------------------------
(* The instance of FleetAudit that TLC checks.                             *)
EXTENDS FleetAudit, TLC

CONSTANTS a, b, fix, docs, bug, sprint

TwoAudits == {a, b}
\* They do not differ in anything.
Swapped == Permutations(TwoAudits)
TwoPRs == {fix, docs}

\* All are in milestone sprint, and fix mentions issue bug: from bug, sprint is met after
\* fix, which leads to it as well, and docs, which is closed, behind sprint.  The lists
\* have a second page.
TwoIssues ==
  [n \in {fix, docs, bug, sprint} |->
     CASE n = bug -> <<fix, sprint>> [] n = sprint -> <<bug, fix, docs>>
       [] n = fix -> <<sprint>> [] n = docs -> <<sprint>>]
OneIssue == {bug}
OpenOnes == <<bug, fix>>
OneOfThem == <<bug>>
IssueOrFull == {bug, Full}
=============================================================================
