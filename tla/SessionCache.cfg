\* Two calls of any kind at once, any of which may fail.
CONSTANTS
  c = c
  d = d
  None = none
  Torn = torn
  Calls <- TwoCalls
  Day = 1
  Month = 2
  Delay = 1
  MayFail = TRUE
  MaxNow = 3
  MaxPhase = 2
SPECIFICATION Spec
SYMMETRY CallSymmetry
INVARIANTS
  CacheGoesForward
  ArchivedIsKept
  DeletedIsGone
  AnswerIsRecent
  ScanIsComplete
\* Every call may be over, and every bound reached.
CHECK_DEADLOCK FALSE
