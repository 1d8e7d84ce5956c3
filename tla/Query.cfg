\* Three sessions in chunks of two, three activities in two logs, and two changes.
CONSTANTS
  run = run
  stop = stop
  Missing = missing
  None = none
  Sessions = {1, 2, 3}
  Activities = {4, 5, 6}
  Time <- Times
  Home <- Homes
  Tags <- TwoTags
  Paths <- SomePaths
  Infinity = 9
  ChunkSize = 2
  Queries <- SomeQueries
  MaxChanges = 2
SPECIFICATION Spec
INVARIANTS
  
  
  PagesAreWhole
\* The last page ends it.
CHECK_DEADLOCK FALSE
