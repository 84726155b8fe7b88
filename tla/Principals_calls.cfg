SPECIFICATION Spec
CONSTANTS
  None = None
  app = app
  console = console
  s0 = s0
  agent = agent
  t1 = t1
  s1 = s1
  s2 = s2
  s3 = s3
  s4 = s4
  bound1 = bound1
  free1 = free1
  AdminApp = console
  Applications = {app, console}
  Agents = {agent}
  Runtimes = {t1}
  RuntimeOf <- RuntimeOfAgent
  Credentials = {s0, s1, s2, s3, s4, bound1, free1}
  OwnerOf <- OwnerOfEach
  BoundTo <- BoundOfEach
  Calls = {a1, a2, a3}
  Requests = {u1}
INVARIANTS
  TypeOK
  DeletedStaysOut
  OldSecretsDie
  NewSecretAlone
SYMMETRY Symmetry
CHECK_DEADLOCK FALSE
