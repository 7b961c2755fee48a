SPECIFICATION Run
CONSTANTS
  p1 = p1  p2 = p2  p3 = p3
  here = here  there = there
  i1 = i1  i2 = i2  i3 = i3
  None = None
  Processes = {p1, p2, p3}
  Spaces <- HereOrApart
  Inodes = {i1, i2}
  MaxUpdates = 1
  a = a  b = b  c = c  d = d
  ma = ma  mc = mc  md = md
  q1 = q1  q2 = q2  q3 = q3
  primary = primary  worker = worker
  NoPin = NoPin
  Providers = {a, c}
  Models = {ma, mc}
  modelOf <- MCModelOf
  named <- MCNamed
  Primary = primary
  WorkerRoles = {worker}
  HiddenRoles = {}
  MaxSlots = 1
  ReservationLog = 100
  Requests = {q1, q3}
  roleOf <- MCRoleOf
  routesFor <- AllRoutes
  LargeRequests = {q1}
  MaxAttempts <- PrimaryThrice
  e1 = e1  e2 = e2
  g1 = g1  g2 = g2
  Seeds = {g1, g2}
  CatalogOnly = {g2}
  Endpoints = 2
  Clients = {"repeat", "parts", "odd", "forget"}
  LoopAt = 2
  FlatAbove = 2
  DedupFrom = 4
  MaxHistory = 6
  MaxTries = 2
CHECK_DEADLOCK FALSE
INVARIANT SlotsBounded
INVARIANT CallsStayPaired
INVARIANT ExchangesStay
PROPERTY UpdatesAreAtomic
PROPERTY LockIsKept
PROPERTY CrashedLockIsTaken
PROPERTY EveryRequestEnds
PROPERTY ItemsAreTried
PROPERTY RevivedByProofOnly
