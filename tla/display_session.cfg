CONSTANTS
  f1 = f1  f2 = f2  f3 = f3  NoFile = NoFile
  Files <- MCFiles
  MaxEvents = 5
SPECIFICATION FairSpec
INVARIANTS PendingAckIsDue
PROPERTIES AckMeansSeen AckArrives DisplayFollows
