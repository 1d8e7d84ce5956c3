\* One consumer of either stream, which starts again, or one ask() and one wait.
CONSTANTS
  s1 = s1
  s2 = s2
  g1 = g1
  MaxActivity = 4
  Millis <- DistinctMillis
  Stamp <- SharedStamps
  Streams <- OneStream
  Getters <- NoGetter
  MayAge = FALSE
  MaxRestarts = 2
  InitialRetries = 2
  MaxReopens = 1
  MaxMillis = 9
  Skew = 0
  Timeouts = {0, 3}
  PollingInterval = 2
  RequestTime = 1
SPECIFICATION FairSpec
INVARIANTS
  AnswerIsFirst
  
PROPERTIES
  
  RunImplementsFeed
  AskSettles
\* A session that is over, and calls that have ended, are no deadlock.
CHECK_DEADLOCK FALSE
