SPECIFICATION Spec
CONSTANTS
  s1 = s1
  s2 = s2
  p1 = p1
  b1 = b1
  b2 = b2
  b3 = b3
  b4 = b4
  Req <- TwoSessions
  Plain = {}
  Block <- FourBlocks
  NullBlock = NullBlock
  BlockSize = 2
  PromptTokens = 2
  MaxTokens <- LongAndShort
  Async = TRUE
  MaxRunning = 2
  MaxTurns = 2
  EagerClient = TRUE
  EosStops = FALSE
  MayReset = FALSE
  WarmCapacity = 1
  Depth = 2
SYMMETRY SymmetryFour
CHECK_DEADLOCK FALSE
INVARIANTS
  QueueMembership
