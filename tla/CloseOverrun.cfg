SPECIFICATION MeterSpec
CONSTANTS
  Price <- Prices
  Overhead = 1
  MaxTokens = 2
  MaxModelCalls = 4
  MaxCost = 28
  MAX_USAGE_COUNT = 40
  Requests <- SomeRequests
  Replies <- SomeReplies
  Absorbs = FALSE
  None = None
INVARIANT OverrunStops
