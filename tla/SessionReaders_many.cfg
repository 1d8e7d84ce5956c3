\* Two consumers of the cached stream and a get(), on either storage, with ageing.
CONSTANTS
  s1 = s1
  s2 = s2
  g1 = g1
  MaxActivity = 2
  Millis <- DistinctMillis
  Stamp <- SharedStamps
  Streams <- TwoStreams
  Getters <- OneGetter
  MayAge = TRUE
  MaxRestarts = 1
  InitialRetries = 1
  MaxReopens = 0
  MaxMillis = 1
  Skew = 0
  Timeouts = {0}
  PollingInterval = 1
  RequestTime = 0
SPECIFICATION Spec
SYMMETRY StreamSymmetry
INVARIANTS
  NoGaps
  
\* A session that is over and streams that have stopped are no deadlock.
CHECK_DEADLOCK FALSE
