CONSTANTS
  w1 = w1  w2 = w2  w3 = w3
  None = None
  Wallpapers = {w1, w2, w3}
  Definitions <- MCDefinitions
  Duration = 2
  MaxEvents = 1
  MaxRestores = 1
SPECIFICATION FairSpec
PROPERTIES ShuffleReachesAll
