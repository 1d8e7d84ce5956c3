\* Two calls, each used in any way; one failure, abort or crash and one deletion,
\* anywhere.
CONSTANTS
  c1 = c1
  c2 = c2
  MaxSession = 3
  Calls <- TwoCalls
  Options <- EveryUse
  MaxMishaps = 1
  MaxDeletes = 1
SPECIFICATION Spec
SYMMETRY CallSymmetry
INVARIANTS
  
  CheckpointIsCached
PROPERTIES
  CompleteMirrorsServer
  CompleteLeavesNoHole
\* When every call has ended, the system rests.
CHECK_DEADLOCK FALSE
