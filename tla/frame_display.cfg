SPECIFICATION FairSpec
CONSTANTS
  Files = {a, b}
  NoFile = noFile
  MaxSequence = 2
INVARIANTS DisplayInv
PROPERTIES LastGoodKept LateFileOpens EndIsShown
