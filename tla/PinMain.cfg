SPECIFICATION Spec
CONSTANTS
  Modules = {"evals", "live", "metering"}
  Package = "evals"
  Main = "live"
  Contents = {"a", "b"}
  Revisions = {"r1", "r2", "r3"}
  Blob <- Blobs
  Replaceable = {}
  Absent = Absent
  None = None
INVARIANT MainIsPinned
CHECK_DEADLOCK FALSE
