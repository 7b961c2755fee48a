SPECIFICATION LockSpec
CONSTANTS
  p1 = p1  p2 = p2  p3 = p3
  here = here  there = there
  i1 = i1  i2 = i2  i3 = i3
  None = None
  Processes = {p1, p2, p3}
  Spaces <- OnlyHere
  Inodes = {i1, i2, i3}
  MaxUpdates = 1
CHECK_DEADLOCK FALSE
PROPERTY HealthyWriterStays
