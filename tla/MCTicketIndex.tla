---------------------------- MODULE MCTicketIndex ----------------------------
(* Model values and symmetry for TLC runs of TicketIndex.                  *)
EXTENDS TicketIndex, TLC

CONSTANTS r1, r2, c1, k1, k2, k3, s1, s2

MCRequests == {r1, r2}
MCCalls == {c1}
MCKeys == {k1, k2, k3}
MCSids == {s1, s2}
IndexSymmetry ==
  Permutations(MCRequests) \cup Permutations(MCKeys) \cup Permutations(MCSids)
=============================================================================
