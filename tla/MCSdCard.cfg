SPECIFICATION FairSpec
CONSTANTS
  Bits = 2
  SlowDiv = 2
  FastDiv = 1
  Dummies = 2
  Polls = 2
  Retries = 2
  BlockLen = 2
  Content <- MCContent
  NcrMax = 1
  TokenMax = 2
INVARIANTS
  TypeOK
  ReadReturnsBlock
  FastOnlyWhenReady
  DeselectedBetweenCalls
PROPERTIES
  ShiftUndisturbed
  CallReturns
