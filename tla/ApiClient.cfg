\* Three calls over one slot: two wait at once, in either order, and the
\* retries queue behind them.
CONSTANTS
  r1 = r1
  r2 = r2
  r3 = r3
  Requests <- ThreeRequests
  MaxConcurrent = 1
  RequestTimeout = 1
  MaxRetryTime = 3
  BaseDelay = 1
  MaxDelay = 2
SPECIFICATION FairSpec
INVARIANTS
  SlotAccounting
  RetryBudget
PROPERTIES
  NoOvertaking
  EveryCallSettles
\* Every call may have settled: nothing is left to do.
CHECK_DEADLOCK FALSE
