CONSTANTS
  s1 = s1  s2 = s2  NoSpec = NoSpec
  o1 = o1  stock = stock  KWE = KWE
  Specs <- MCSpecs
  Outputs <- MCOutputs
  Configs <- MCConfigs
  StockConfig = stock
  QueueMax = 1
  RawCommands <- MCRaw
  WriteOutcomes <- SavedOrLost
SPECIFICATION Spec
PROPERTIES FailureLeavesRecord SuccessKeepsOriginal SuccessWasShown 
SYMMETRY Sym
