SPECIFICATION FairSpec
CONSTANTS
  depth = 3
  last_char = 1
  MaxTransfers = 8
INVARIANTS
  TypeOK
  QuietDumpOldestFirst
  DumpComplete
  StreamsWindowOnce
PROPERTIES
  DumpEnds
