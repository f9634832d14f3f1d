SPECIFICATION CacheSpec
CONSTANTS
  s1 = s1
  p1 = p1
  p2 = p2
  Req <- SessionAndTwo
  Plain <- TwoPlain
  NumBlocks = 4
  Token <- Bits
  FirstPrompts <- SharedPrefix
  TurnPrompts <- OneToken
  BlockSize = 2
  MaxTokens = 3
  MaxModelLen = 7
  MaxDemotions = 1
  AlignedTurns = TRUE
CHECK_DEADLOCK FALSE
INVARIANT HashNamesContent
