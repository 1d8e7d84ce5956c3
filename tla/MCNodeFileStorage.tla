-------------------------- MODULE MCNodeFileStorage --------------------------
(* The instances of NodeFileStorage that TLC checks.                       *)
EXTENDS NodeFileStorage, TLC

CONSTANTS a1, a2, o1, c1, c2, c3

TwoActivities == {a1, a2}
OneObject == {o1}
ThreeCalls == {c1, c2, c3}
=============================================================================
