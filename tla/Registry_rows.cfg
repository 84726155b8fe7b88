SPECIFICATION Spec
CONSTANTS
  None = None
  t1 = t1
  t2 = t2
  t3 = t3
  kapp = kapp
  kagent = kagent
  gapp = gapp
  gagent = gagent
  r1 = r1
  r2 = r2
  agent = agent
  app = app
  console = console
  audA = audA
  audB = audB
  prov = prov
  c1 = c1
  c2 = c2
  Targets = {t1, t2, t3}
  Conns = {kapp, kagent}
  Grants = {gapp, gagent}
  Runtimes = {r1, r2}
  Agents = {agent}
  Clients = {app, console}
  AgentOf <- MCAgentOf
  Audiences = {audA, audB}
  Providers = {prov}
  Words = {"active", "inactive", "suspended", "revoked", "stateful", "stateless"}
  Calls = {c1, c2}
  Pools <- MCPools
  Legacy <- MCLegacy
  SeedApp = app
  SeedAgent = agent
  SeedTarget = t1
  SeedAudience = audA
  AppConn = kapp
  AgentConn = kagent
  AppGrant = gapp
  AgentGrant = gagent
  Day = 1
  MaxTime = 1
INVARIANTS
  TypeOK
  AskedAudiencesDiffer
  Tightened
  SeededWorks
SYMMETRY CallSymmetry
CHECK_DEADLOCK FALSE
