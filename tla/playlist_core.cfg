CONSTANTS
  w1 = w1  w2 = w2  w3 = w3
  None = None
  Wallpapers = {w1, w2, w3}
  Definitions <- MCDefinitions
  Duration = 2
  MaxEvents = 2
  MaxRestores = 2
SPECIFICATION FairSpec
INVARIANTS TimeIsKept
PROPERTIES NeverCutShort NothingReplayed NoImmediateRepeat ExhaustedIsTrue EntriesGetTheirTurn
