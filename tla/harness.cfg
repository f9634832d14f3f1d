SPECIFICATION Spec
CONSTANTS
  Replayed = {1, 2}
  TurnsOf <- Turns
  FinalTokens = 2
  Evaluated = 3
  Raised = Raised
  Absent = Absent
  Examples = 4
  BatchSize = 2
  MaxCrashes = 2
  Traces <- AllTraces
  BlockSize = 2
  MinTurns <- TurnsWanted
  MaxLength = 0
  MaxSessions = 2
  OnlyType = "text"
  Scale <- Third
  LowLoad = 2
  HighLoad = 5
  Layout <- SmallLayout
  Budget = 110
  ModelLen = 4
  ModelSeqs = 1
  WarmPools = {1, 2}
  PrimaryPool = 2
  Policies <- Watermarks
  PrimaryPolicy <- MiddleWatermarks
  Requested = {2, 4}
  RequiredCounts = {4, 5}
  RequiredFrom = 3
  SmokeCount = 1
  MediumCount = 4
  ReturnAfter = {1, 3}
INVARIANTS
  CompletedTurnsExact
  PassedRunIsClean
  PassedRunIsComplete
  SmokeAssertsWhatItSaw
  RecordsSound
  ReportsComplete
  GroupingExact
  SameHashSameTokens
  AnalysisSelectsTheReplayed
  OccupancyExact
  BestPrefixFound
  ReportConsistent
PROPERTIES
  EveryRunEnds
  EventuallyRecorded
