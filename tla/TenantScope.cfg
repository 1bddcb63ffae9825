CONSTANTS
  s1 = s1
  s2 = s2
  m1 = m1
  u1 = u1
  u2 = u2
  t1 = t1
  t2 = t2
  i1 = i1
  Scopes <- MCScopes
  Messages <- MCMessages
  Users <- MCUsers
  Acceptable <- MCAcceptable
  Tenants <- MCTenants
  Ids <- MCIds
  None = None
  Invalid = Invalid
  NoUser = NoUser
  NoRow = NoRow
  NoScope = NoScope
  Untenanted = Untenanted
SPECIFICATION Spec
SYMMETRY ScopeSymmetry
PROPERTY OwnRowsOnly
INVARIANT HandlerRunsForSender
PROPERTY RowsKeepTheirTenant
