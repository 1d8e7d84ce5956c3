--------------------------- MODULE MCActivityCache ---------------------------
(* An instance of ActivityCache with several activities in a millisecond.  *)
EXTENDS ActivityCache

CONSTANT s1

OneStream == {s1}
NoGetter == {}

\* The last two activities are created in the same millisecond.
SharedMillis == [a \in Activities |-> IF a < MaxActivity THEN a ELSE a - 1]

=============================================================================
