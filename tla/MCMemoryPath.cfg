SPECIFICATION FairSpec
CONSTANTS
  PORTS_COUNT = 2
  Requests <- MCRequests
  Burst <- MCBurst
  Byte = {0, 1}
  NoWord = NoWord
INVARIANTS
  TypeOK
PROPERTIES
  AdapterIsPeripheral
  SharesOneMemory
  EveryHostServed
