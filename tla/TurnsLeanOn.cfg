SPECIFICATION TurnsSpec
CONSTANTS
  Services = {s1, s2, s3}
  Keys = {k1}
  MaxStarts = 2
  MaxTurns = 4
  MaxLinks = 2
  MaxPhotos = 2
  MaxWrites = 1
  Chunks <- MCChunks
  TopK = 2
  TopDense = 3
  TopBm25 = 3
  RrfK = 60
  Scale = 238266
  MaxAsked = 1
  MaxChanges = 2
INVARIANTS
  OneStore
  ToldAgainOnlyWhenPutBack
  BothBeatOne
  TextIsCurrent
PROPERTIES
  RouterIsFreed
CHECK_DEADLOCK FALSE
