SPECIFICATION Spec
CONSTANTS
  AdrCount = 2
  Transactions <- MCTransactions
  ReadyAlways = TRUE
INVARIANTS
  DeliversOwed
