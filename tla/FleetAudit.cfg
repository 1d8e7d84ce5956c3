\* Two audits of two pull requests, and a change of each kind.
CONSTANTS
  a = a
  b = b
  fix = fix
  docs = docs
  bug = bug
  sprint = sprint
  None = none
  Full = full
  PRs <- TwoPRs
  IssueNodes <- OneIssue
  Refs <- TwoIssues
  Listing <- OpenOnes
  FirstPage <- OneOfThem
  EntryPoints <- IssueOrFull
  Depth = 2
  Audits <- TwoAudits
  Ttl = 2
  MaxAudits = 2
  MaxNow = 2
  MaxChanges = 1
SPECIFICATION AuditSpec
INVARIANTS
  NothingIsMissed
PROPERTIES
  FindingsAreRecent
  
\* Audits end, and the bounds stop everybody.
CHECK_DEADLOCK FALSE
SYMMETRY Swapped
