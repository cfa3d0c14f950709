SPECIFICATION FairSpec
CONSTANTS
  AdrCount = 2
  Transactions <- MCTransactions
  ReadyAlways = TRUE
INVARIANTS
  TypeOK
  DeliversOwed
  IdleMeansDone
PROPERTIES
  AllAnswered
