---------------------------- MODULE MCFleetMerge ----------------------------
EXTENDS FleetMerge

TwoPRs == 1 .. 2

\* The two change one file, or each its own.
SharedOrNot == {[p \in TwoPRs |-> {"a"}], [p \in TwoPRs |-> IF p = 1 THEN {"a"} ELSE {"b"}]}
=============================================================================
