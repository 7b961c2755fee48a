SPECIFICATION Spec
CONSTANTS
  Providers = {p1, p2}
  Requests = {r1, r2}
  Bannable = {p1}
  Long = 2
  Short = 1
PROPERTY BannedKeptAway
CHECK_DEADLOCK FALSE
