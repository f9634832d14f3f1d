SPECIFICATION FairSpec
CONSTANTS
  Session <- TwoSessions
  NoId <- NoTransition
  HotBlocks = 6
  WarmSlots = 2
  Start = 80
  Stop = 50
  MaxCooldown = 4
  MaxFailures = 3
  Depth = 2
  MayBeStale = TRUE
  Scored = {}
  CompleteOf <- TwoBlocksEach
  Margin = 0
INVARIANTS
  ProbeNamesPending
  ProbeAlone
PROPERTIES
  NoSecondRelease
  BackoffEnds
