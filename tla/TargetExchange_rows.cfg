SPECIFICATION Spec
CONSTANTS
  None = None
  agent = agent
  application = application
  runtime = runtime
  target = target
  secret = secret
  spare = spare
  wide = wide
  narrow = narrow
  grant = grant
  grant2 = grant2
  Targets = {target}
  Agents = {agent}
  Applications = {}
  Runtimes = {runtime}
  Connections = {wide, narrow}
  Grants = {grant, grant2}
  AgentOf <- AgentOfRuntime
  OwnerOf <- AgentSecrets
  BoundTo <- BothBound
  PrincipalOf <- BothOf
  TargetOf <- BothTarget
  ConnectionOf <- BothGrants
  Credentials = {secret, spare}
  Contexts = {ctx}
  Audiences = {aud1, aud2}
  Requests = {r1}
  Calls = {c1}
  RequesterTtl = 1
  ReplayTtl = 1
  TargetTtl = 1
  Threshold = 0
  CheckLag = 0
  AnswerLag = 0
  Governed = {agent, target, secret, wide}
  Expiries = {1, 2}
  Ttls = {1}
  Policies = {{None}, {ctx}}
  MaxTime = 1
  Page = 1
INVARIANTS
  TypeOK
  RevalidatedOnEveryAnswer
CHECK_DEADLOCK FALSE
