SPECIFICATION Run
CONSTANTS
  a = a  b = b  c = c  d = d
  ma = ma  mc = mc  md = md
  q1 = q1  q2 = q2  q3 = q3
  primary = primary  worker = worker
  NoPin = NoPin
  Providers = {a, b, c, d}
  Models = {ma, mc, md}
  modelOf <- MCModelOf
  named <- MCNamed
  Primary = primary
  WorkerRoles = {worker}
  HiddenRoles = {}
  MaxSlots = 2
  ReservationLog = 2
  Requests = {q1, q2, q3}
  roleOf <- MCRoleOf
  routesFor <- MCRoutesFor
  LargeRequests = {}
  MaxAttempts <- PrimaryTwice
  Hashes = {h1, h2}
  SessionOf <- OneSession
  Calls = {c1, c2}
  MaxRecords = 2
  Stores = {s1, s2}
  Keys = {k1, k2}
  Sizes = {1, 2, 4}
  MaxBytes = 3
  MaxEntries = 1
  MaxKnown = 3
SYMMETRY Alike
INVARIANT HistoryComplete
INVARIANT RoutedOnceApproved
INVARIANT BytesExact
PROPERTY FailedRoutesStayOut
PROPERTY PrimaryMovesOnFailureOnly
PROPERTY FurtherPrimaryOnlyAfterAllFailed
PROPERTY PromptIsUsable
PROPERTY SlotReleasedOnFailureOnly
