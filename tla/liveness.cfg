SPECIFICATION FairSpec
CONSTANTS
  s1 = s1
  s2 = s2
  p1 = p1
  b1 = b1
  b2 = b2
  b3 = b3
  b4 = b4
  Req <- SessionAndPlain
  Plain <- PlainOne
  Block <- TwoBlocks
  NullBlock = NullBlock
  BlockSize = 3
  PromptTokens = 2
  MaxTokens <- ShortPlain
  Async = TRUE
  MaxRunning = 2
  MaxTurns = 2
  EagerClient = FALSE
  EosStops = FALSE
  MayReset = TRUE
  WarmCapacity = 1
  Depth = 2
CHECK_DEADLOCK FALSE
INVARIANTS
  FramesAccounted
PROPERTIES
  DeferredFinishHappens
  QueuedUpdateConsumed
