---------------------------- MODULE MCSessionSync ----------------------------
(* The instances of SessionSync that TLC checks.                           *)
EXTENDS SessionSync, TLC

CONSTANTS c1, c2

TwoCalls == {c1, c2}
CallSymmetry == Permutations(TwoCalls)

Option(incremental, checkpoint, depth, limit) ==
  [incremental |-> incremental, checkpoint |-> checkpoint, depth |-> depth, limit |-> limit,
   sessionId |-> 0]

\* One kind of call for each way of use; 100 is no limit.
Full == Option(FALSE, FALSE, "activities", 100)
Checkpointed == Option(FALSE, TRUE, "metadata", 100)
Limited == Option(FALSE, TRUE, "metadata", 1)
Incremental == Option(TRUE, FALSE, "metadata", 100)
IncrementalDeep == Option(TRUE, FALSE, "activities", 100)
OneSession == [Checkpointed EXCEPT !.sessionId = 2]

EveryUse == {Full, Checkpointed, Limited, Incremental, IncrementalDeep, OneSession}

\* What sync({ checkpoint: true }) uses, the default being incremental.
DefaultCheckpointed == {Option(TRUE, TRUE, "metadata", 100)}
OnlyFull == {Full}
=============================================================================
