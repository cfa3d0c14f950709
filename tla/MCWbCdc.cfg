SPECIFICATION FairSpec
CONSTANTS
  Adr = {0, 1}
  Byte = {0, 1}
  Requests <- MCRequests
  NoWord = NoWord
INVARIANTS
  TypeOK
  CrossingDataStable
PROPERTIES
  CrossesOnce
  HostServed
