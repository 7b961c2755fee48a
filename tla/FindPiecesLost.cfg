SPECIFICATION Spec
CONSTANTS
  Calls = {c1}
  Plans <- OnePlan
  MaxFrames = 3
  AnyPieces = TRUE
INVARIANT ArgumentsArrive
