SPECIFICATION FairSpec
CONSTANTS
  r1 = r1  r2 = r2
  cred = cred  acct = acct  quota = quota  m1 = m1  m2 = m2
  q1 = q1  q2 = q2  q3 = q3
  Routes = {r1, r2}
  Keys = {cred, acct, quota, m1, m2}
  Scopes = {"credential", "account", "bucket", "model"}
  keyOf <- MCKeyOf
  keyed = {r1}
  Requests = {q1, q2}
  NoRoute = NoRoute
PROPERTY ProbeEnds
