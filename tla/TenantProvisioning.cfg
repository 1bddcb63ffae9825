CONSTANTS
  r1 = r1
  r2 = r2
  r3 = r3
  u1 = u1
  u2 = u2
  t1 = t1
  NoTenant = NoTenant
  Users <- MCUsers
  Requests <- MCRequests
  Tenants <- MCTenants
SPECIFICATION FairSpec
INVARIANT OneOwner
INVARIANT OwnerNeverRefused
INVARIANT PassedGateIsMember
PROPERTY EveryRequestAnswered
PROPERTY ImplementsTenantOwnership
