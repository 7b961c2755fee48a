SPECIFICATION Spec
CONSTANTS
  Clients = {"parts"}
  LoopAt = 5
  FlatAbove = 12
  DedupFrom = 4
  MaxMessages = 4
  MaxAttempts = 2
CHECK_DEADLOCK FALSE
INVARIANT LinkageKept
