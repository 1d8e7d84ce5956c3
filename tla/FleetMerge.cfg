\* Two pull requests, one with a session to ask, and three runs, each of which
\* may cancel the one before it; a push and a failing call anywhere.
CONSTANTS
  PRs <- TwoPRs
  Files = {"a", "b"}
  Layouts <- SharedOrNot
  SessionBranches = {1}
  MaxNotifications = 2
  MaxRuns = 3
  MaxPushes = 1
  MaxMishaps = 1
SPECIFICATION Spec
INVARIANTS
  ReportIsTrue
PROPERTIES
  
  PatientClose
\* After the last run the repository may rest.
CHECK_DEADLOCK FALSE
