CONSTANTS
  p = p
  q = q
  f = f
  g = g
  a = a
  b = b
  Recon = recon
  None = none
  Absent = absent
  PRs <- TwoPRs
  Files <- TwoFiles
  Agents <- TwoAgents
  Touched <- AllHot
  Edited <- OneFile
  MaxCommits = 6
  Leads <- OneAgent
  MaxScans = 2
SPECIFICATION ReconcileSpec
INVARIANTS
  HotFilesAreResolved
PROPERTIES
  ClosedIsMerged
  BaseIsKept
CONSTRAINT FirstMerge
CONSTRAINT OneAtATime
\* When the reconciliation is merged, or the bounds are reached, nothing is left to do.
CHECK_DEADLOCK FALSE
