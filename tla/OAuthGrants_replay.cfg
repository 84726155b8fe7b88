SPECIFICATION Spec
CONSTANTS
  c1 = c1
  o1 = o1
  admin = admin
  a1 = a1
  x1 = x1
  x2 = x2
  t1 = t1
  t2 = t2
  v1 = v1
  None = None
  Requests = {a1, x1, t1, t2, v1}
  EndpointOf <- TokenRace
  Clients = {c1}
  AllowedScopes <- AllScopes
  AllowedGrants <- BothGrants
  Protected = {c1}
  Reassigned = {}
  Operators = {o1}
  Scopes = {admin}
  AdminScope = admin
  CodeTtl = 1
  RefreshTtl = 0
  MaxTime = 1
PROPERTIES
  ReplayRevokesAll
CHECK_DEADLOCK FALSE
