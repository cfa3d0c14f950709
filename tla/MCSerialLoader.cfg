SPECIFICATION FairSpec
CONSTANTS
  Files <- MCFiles
  LineSize = 13
  RingSize = 5
  FifoDepth = 4
  DrainSlots = 1
  StepsPerSlot = 2
  Overshoot = 2
INVARIANTS
  TypeOK
  NothingLost
  StartsWholeFile
PROPERTIES
  LoadEnds
