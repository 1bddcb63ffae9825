--------------------------- MODULE MCTenantScope ----------------------------
(* Model values and symmetry for TLC runs of TenantScope.                  *)
EXTENDS TenantScope, TLC

CONSTANTS s1, s2, m1, u1, u2, t1, t2, i1

MCScopes == {s1, s2}
MCMessages == {m1}
MCUsers == {u1, u2}
MCAcceptable == {u1}
MCTenants == {t1, t2}
MCIds == {i1}
ScopeSymmetry == Permutations(MCScopes) \cup Permutations(MCTenants)
=============================================================================
