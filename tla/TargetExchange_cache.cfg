SPECIFICATION Spec
CONSTANTS
  None = None
  agent = agent
  application = application
  runtime = runtime
  target = target
  secret = secret
  spare = spare
  wide = wide
  narrow = narrow
  grant = grant
  grant2 = grant2
  Targets = {target}
  Agents = {}
  Applications = {application}
  Runtimes = {}
  Connections = {wide}
  Grants = {grant}
  AgentOf <- NoRuntime
  OwnerOf <- AppSecret
  BoundTo <- Unbound
  PrincipalOf <- WideOfApp
  TargetOf <- WideTarget
  ConnectionOf <- GrantOfWide
  Credentials = {secret}
  Contexts = {ctx}
  Audiences = {aud1}
  Requests = {r1, r2}
  Calls = {c1, c2}
  RequesterTtl = 1
  ReplayTtl = 1
  TargetTtl = 2
  Threshold = 1
  CheckLag = 1
  AnswerLag = 1
  Governed = {secret, grant}
  Expiries = {1}
  Ttls = {2}
  Policies = {{None, ctx}}
  MaxTime = 2
  Page = 1
INVARIANTS
  AnswersOwnContext
  UsableOnArrival
PROPERTIES
  KeepsTokenPromise
SYMMETRY Symmetry
CHECK_DEADLOCK FALSE
