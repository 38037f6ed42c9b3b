SPECIFICATION MCSpec
CONSTANTS
  Txns <- MCTxns
  Program <- MCProgram
  Workers = {"w1", "w2"}
  NoOwner = "nobody"
  MaxAttempts = 3
  MaxTime = 3
CHECK_DEADLOCK FALSE
INVARIANTS
  ErrorsHaveTwoCauses
PROPERTIES
  Serializable
  EveryTransactionEnds
