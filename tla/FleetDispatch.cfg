\* Two issues, one number the beginning of the other; the workflow and a person,
\* who run the command at the same time; one failure, anywhere.
CONSTANTS
  workflow = workflow
  person = person
  Issues <- TwoIssues
  Named <- NamedAlso
  Runners <- TwoRunners
  Scheduled <- OnlyTheWorkflow
  MaxMishaps = 1
SPECIFICATION FairSpec
INVARIANTS
  FewSessions
  StatusIsConsistent
 
\* When every issue is closed, nothing is left to do.
CHECK_DEADLOCK FALSE
