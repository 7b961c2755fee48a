SPECIFICATION Run
CONSTANTS
  Scopes = {s1, s2, s3}
  Leases = {l1, l2}
  None = None
  MaxRoots = 1
  MaxLease = 1
  MaxRetained = 2
  BodyRequests = {1, 2, 3}
  BodySlots = 2
  BodyBytes = 2
  MaxBody = 2
CHECK_DEADLOCK FALSE
INVARIANT LeasesHaveOwners
INVARIANT BudgetExact
INVARIANT AdmissionExact
PROPERTY RequestOutlivesHelpers
PROPERTY NothingAfterDeadline
PROPERTY MemoryComesBack
