SPECIFICATION Spec
CONSTANTS
  depth = 3
  last_char = 1
  MaxTransfers = 8
INVARIANTS
  DumpOldestFirst
