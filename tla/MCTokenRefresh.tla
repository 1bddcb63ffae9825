--------------------------- MODULE MCTokenRefresh ---------------------------
(* Model values and symmetry for TLC runs of TokenRefresh.                 *)
EXTENDS TokenRefresh, TLC

CONSTANTS r1, r2, l1

MCRequests == {r1, r2}
MCLogouts == {l1}
RequestSymmetry == Permutations(MCRequests)
=============================================================================
