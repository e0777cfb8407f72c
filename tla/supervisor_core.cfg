CONSTANTS
  s1 = s1  s2 = s2  NoSpec = NoSpec
  p1 = p1  p2 = p2  p3 = p3  NoPid = NoPid
  Specs <- MCSpecs
  Pids <- MCPids
  MaxFailures = 3
  MaxRecords = 1
  CanaryFrames = 3
  GenMax = 3
  SaveOutcomes <- OnlySaved
SPECIFICATION FairSpec
INVARIANTS HandoffShape NoOrphans PhaseIsBacked StoredIsCurrent
PROPERTIES GenerationNamesOneSource  HandoffResolves RecoverySettles
