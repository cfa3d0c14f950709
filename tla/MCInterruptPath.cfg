SPECIFICATION FairSpec
CONSTANTS
  Width = 6
  Reload = 45
  Masks <- MCMasks
  FifoDepth = 2
  ByteClocks = 5
  BufferSize = 2
  MaxThink = 1
INVARIANTS
  TypeOK
  NoWakeUpLost
PROPERTIES
  OnlyHandlerDropsByte
  TimerServed
