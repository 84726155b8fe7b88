SPECIFICATION Spec
CONSTANTS
  c1 = c1
  o1 = o1
  admin = admin
  a1 = a1
  x1 = x1
  x2 = x2
  t1 = t1
  t2 = t2
  v1 = v1
  None = None
  Requests = {a1, x1, x2, t1}
  EndpointOf <- CodeRace
  Clients = {c1}
  AllowedScopes <- AllScopes
  AllowedGrants <- BothGrants
  Protected = {}
  Reassigned = {o1}
  Operators = {o1}
  Scopes = {admin}
  AdminScope = admin
  CodeTtl = 0
  RefreshTtl = 1
  MaxTime = 1
INVARIANTS
  TypeOK
  RedeemedByOne
  ExpiredNeverRedeemed
  ChainNeverWidens
  AdminScopeNeedsRole
CHECK_DEADLOCK FALSE
