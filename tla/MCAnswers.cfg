SPECIFICATION Run
CONSTANTS
  p1 = p1  p2 = p2  r1 = r1  r2 = r2  c1 = c1  c2 = c2
  Providers = {p1, p2}
  Claude = {p2}
  MaxHidden = 1
  Mixes <- AllMixes
  Calls = {c1, c2}
  KindSets <- KindMixes
  MaxTexts = 2
  MaxPieces = 3
  ChunkKinds <- WholeKinds
  FlushAfter = 3
  Terminated = TRUE
  MaxChunks = 5
  Ranked = {p1, p2}
  Groups = {r1, r2}
  Bannable = {p1}
  Long = 1
  Short = 1
INVARIANT AnsweredOnce
INVARIANT NoFailoverAfterFirstByte
INVARIANT NothingLost
INVARIANT WellFormed
INVARIANT EventsInOrder
INVARIANT ResponseComplete
INVARIANT CallsGivenOnce
INVARIANT FramesArriveWhole
PROPERTY KeepsPromise
PROPERTY RequestAnswered
PROPERTY SkippedIfCooledSince
