SPECIFICATION CallSpec
CONSTANTS
  Setups <- MCSetups
  Keep = 2
  Summaries = {300, 6000}
  ToolResults <- MCToolResults
  PathBytes = 100
  ChunkTexts <- MCTexts
  MaxSegment = 3
  MinCut = 0
  MaxAttempts = 3
  MaxIndex = 1
  MaxChunks = 2
  MaxTurns = 4
CHECK_DEADLOCK FALSE
INVARIANTS
  FullIsTruthful
  
  OutputAccounted
