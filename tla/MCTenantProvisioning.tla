------------------------ MODULE MCTenantProvisioning ------------------------
(* Model values for TLC runs of TenantProvisioning: three requests of two  *)
(* users for one tenant.  Tenants share nothing but the requests' slots.   *)
EXTENDS TenantProvisioning

CONSTANTS r1, r2, r3, u1, u2, t1

MCRequests == {r1, r2, r3}
MCUsers == {u1, u2}
MCTenants == {t1}
=============================================================================
