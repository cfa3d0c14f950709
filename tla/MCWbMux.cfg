SPECIFICATION FairSpec
CONSTANTS
  PORTS_COUNT = 3
  Requests = {r1, r2}
INVARIANTS
  TypeOK
  OwnRequestAnswered
  BoundedBypass
PROPERTIES
  EveryHostServed
