--------------------------- MODULE MCSessionCache ---------------------------
(* The instances of SessionCache that TLC checks.                          *)
EXTENDS SessionCache, TLC

CONSTANTS c, d

TwoCalls == {c, d}
CallSymmetry == Permutations(TwoCalls)
=============================================================================
