SPECIFICATION PoolsSpec
CONSTANTS
  k1 = k1
  k2 = k2
  k3 = k3
  k4 = k4
  Key <- MCKey
  Capacity = 3
  NoSlot = NoSlot
  NoKey = NoKey
  NoReservation = NoReservation
  s1 = s1
  p1 = p1
  p2 = p2
  Req <- SessionAndTwo
  Plain <- TwoPlain
  NumBlocks = 4
  Token <- Bits
  FirstPrompts <- SharedPrefix
  TurnPrompts <- OneToken
  BlockSize = 2
  MaxTokens = 3
  MaxModelLen = 7
  MaxDemotions = 1
  AlignedTurns = FALSE
SYMMETRY PlainSymmetry
CHECK_DEADLOCK FALSE
INVARIANTS
  TypeOK
  OwnershipConsistent
  ReservationHeld
  PoolConsistent
  HistoryIsOwn
  AllocationNeverFails
  EvictionInOrder
PROPERTY
  TransactionalOwnership
