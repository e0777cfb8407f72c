CONSTANTS
  w1 = w1  w2 = w2  NoWorker = NoWorker
  Workers <- MCWorkers
  PipeRoom = 1
  MaxPointer = 3
  MaxFrames = 1
  MaxEvents = 4
SPECIFICATION FairSpec
INVARIANTS AcksAreTaken
PROPERTIES ReadsInOrder PendingArrives ClientRecovers
CHECK_DEADLOCK FALSE
