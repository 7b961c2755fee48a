SPECIFICATION Run
CONSTANTS
  r1 = r1  r2 = r2
  cred = cred  acct = acct  quota = quota  m1 = m1  m2 = m2
  a1 = a1  a2 = a2
  Routes = {r1, r2}
  Keys = {cred, acct, quota, m1, m2}
  Scopes = {"credential", "account", "bucket", "model"}
  keyOf <- MCKeyOf
  keyed = {r1}
  q1 = q1  q2 = q2  q3 = q3
  Requests = {q1, q2, q3}
  NoRoute = NoRoute
  Turns <- ThreeTurns
  HostedTurns = {2}
  Names = {}
  Mixes <- WsOrHttp
  MaxMessages = 5
  MaxStored = 2
  MaxItems = 1
  MaxSends = 1
  HostedRequests = {r1}
  SubAgents = {a1, a2}
  ClientCalls <- SomeCalls
  MaxAgents = 1
  MaxIterations = 2
  MaxLoops = 3
  MaxHosted = 2
INVARIANT HalfOpenIsDue
INVARIANT ClientCallsReachClient
PROPERTY CooldownsHold
PROPERTY TurnsRemembered
PROPERTY BranchesApart
PROPERTY ResponsesForgotten
CHECK_DEADLOCK FALSE
