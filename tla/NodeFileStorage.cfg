\* One storage object per process, initialised before it is used, and a crash.
CONSTANTS
  a1 = a1
  a2 = a2
  o1 = o1
  c1 = c1
  c2 = c2
  c3 = c3
  Newline = Newline
  Fragment = Fragment
  None = None
  Activities <- TwoActivities
  Objects <- OneObject
  Calls <- ThreeCalls
  InitFirst = TRUE
  MaxCrashes = 1
SPECIFICATION FairSpec
INVARIANTS
  GetIsSound
  CrashCostsOneLine
 
\* When every call has ended, the system rests.
CHECK_DEADLOCK FALSE
