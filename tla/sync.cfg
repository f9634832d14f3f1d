SPECIFICATION Spec
CONSTANTS
  s1 = s1
  s2 = s2
  p1 = p1
  b1 = b1
  b2 = b2
  b3 = b3
  b4 = b4
  Req <- TwoSessions
  Plain = {}
  Block <- FourBlocks
  NullBlock = NullBlock
  BlockSize = 2
  PromptTokens = 2
  MaxTokens <- ThreeEach
  Async = FALSE
  MaxRunning = 2
  MaxTurns = 2
  EagerClient = TRUE
  EosStops = TRUE
  MayReset = FALSE
  WarmCapacity = 2
  Depth = 1
SYMMETRY SymmetryFour
CHECK_DEADLOCK FALSE
INVARIANTS
  TypeOK
  NeverRaises
  QueueMembership
  TierAgreement
  PlansNeverStale
PROPERTIES
  AttentionReadsOwnHistory
  TurnKeepsHistory
  MovesAreAtomic
