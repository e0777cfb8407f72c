CONSTANTS
  s1 = s1  s2 = s2  NoSpec = NoSpec
  p1 = p1  p2 = p2  p3 = p3  NoPid = NoPid
  Specs <- MCSpecs
  Pids <- MCPids
  MaxFailures = 2
  MaxRecords = 2
  CanaryFrames = 2
  GenMax = 3
  SaveOutcomes <- SavedOrLost
SPECIFICATION Spec
SYMMETRY Symmetry
PROPERTIES ServesClients OldSourceAvailable FallbackAwaitsCommit QuarantineStands
