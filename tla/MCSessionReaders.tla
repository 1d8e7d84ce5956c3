-------------------------- MODULE MCSessionReaders --------------------------
(* The instances of SessionReaders that TLC checks.                        *)
EXTENDS SessionReaders, TLC

CONSTANTS s1, s2, g1

OneStream == {s1}
TwoStreams == {s1, s2}
NoGetter == {}
OneGetter == {g1}

\* Every activity in a millisecond of its own.
DistinctMillis == [a \in 1 .. MaxActivity |-> 2 * a]
\* The second and the third have the same createTime.
SharedStamps == [a \in 1 .. MaxActivity |-> IF a < 3 THEN a ELSE a - 1]

\* A client whose clock is behind that of the service.
Behind == -4

StreamSymmetry == Permutations(TwoStreams)

=============================================================================
