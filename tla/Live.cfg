SPECIFICATION FairLiveSpec
CONSTANTS
  Price <- Prices
  Overhead = 1
  MaxTokens = 2
  MaxModelCalls = 4
  MaxCost = 28
  MAX_USAGE_COUNT = 40
  Requests <- SomeRequests
  Replies <- SomeReplies
  Cases = 3
  CallsPerCase = 2
  Absorbs = TRUE
  None = None
INVARIANTS
  SpendWithinCap
  LedgerReconciles
  FailureNeverHidden
  OutcomeIsGenuine
PROPERTIES
  ImplementsAccount
  NoCaseAfterStop
  RunEnds
CHECK_DEADLOCK FALSE
