\* Three workers over five items; the mappers may all fail at any time, and the
\* errors reject the call or are collected.
CONSTANTS
  ItemCount = 5
  Concurrency = 3
  Delayed = TRUE
SPECIFICATION PMSpec
INVARIANTS
  EachItemOnce
  OutcomeIsComplete
\* The call is over once it has settled and the workers have run out.
CHECK_DEADLOCK FALSE
