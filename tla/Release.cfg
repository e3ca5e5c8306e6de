SPECIFICATION Spec
CONSTANTS
  Runs = {r1, r2}
  Commits = {c1, c2}
  Version = "v1"
  Dists <- SomeDists
  None = None
INVARIANTS
  CreatedWhereTested
  PublishedIsVerified
  UncertaintyFailsClosed
  SuccessMeansReleased
