CONSTANTS
  Requests = {1, 2, 3}
  Hosted = {2}
  Names = {n}
  Mixes <- Apart
  MaxMessages = 5
  MaxStored = 2
  MaxItems = 1
  MaxSends = 1
SPECIFICATION Spec
PROPERTY ResumedInTask
