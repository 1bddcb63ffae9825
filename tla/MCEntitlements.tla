--------------------------- MODULE MCEntitlements ---------------------------
(* Model values and symmetry for TLC runs of Entitlements.                 *)
EXTENDS Entitlements, TLC

CONSTANTS c1, c2, c3, e1, why

MCCommands == {c1, c2, c3}
MCEvaluators == {e1}
MCReasons == {why}
CommandSymmetry == Permutations(MCCommands)
=============================================================================
