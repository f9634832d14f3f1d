SPECIFICATION PreflightSpec
CONSTANTS
  Session <- ThreeAndBallast
  NoId <- NoTransition
  HotBlocks = 12
  WarmSlots = 8
  Start = 75
  Stop = 50
  MaxCooldown = 4
  MaxFailures = 3
  Depth = 2
  MayBeStale = FALSE
  Scored <- FirstThree
  CompleteOf <- TwoBlocksEach
  Margin = 1
CHECK_DEADLOCK FALSE
INVARIANTS
  FeasibleRunConfirmsWarm
