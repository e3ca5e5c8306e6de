SPECIFICATION FileSpec
CONSTANTS
  Processes = {p1, p2, p3}
  Readers = {r1}
  LastRecord = 3
  MaxLosses = 2
  None = None
  Unclaimed = Unclaimed
  Empty = Empty
INVARIANTS
  NeverTorn
  CrashedClaimStaysBlocked
PROPERTIES
  ReadsNeverGoBack
  ImplementsStore
CHECK_DEADLOCK FALSE
