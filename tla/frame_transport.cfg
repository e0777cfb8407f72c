SPECIFICATION FairSpec
CONSTANTS
  Words <- MCWords
  Pixels <- MCPixels
  BlankPixel = 0
  Frames <- MCFrames
  Readers = {"supervisor"}
  Attempts <- MCAttempts
  MaxGeneration = 6
PROPERTIES AtomicFrames LastFrameArrives
