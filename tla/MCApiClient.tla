----------------------------- MODULE MCApiClient -----------------------------
(* The instance of ApiClient that TLC checks.                              *)
EXTENDS ApiClient, TLC

CONSTANTS r1, r2, r3

ThreeRequests == {r1, r2, r3}
=============================================================================
