SPECIFICATION Spec
CONSTANTS
  Modules = {"evals", "live", "metering"}
  Package = "evals"
  Main = "live"
  Contents = {"a", "b"}
  Revisions = {"r1", "r2", "r3"}
  Blob <- Blobs
  Replaceable = {"metering", "protocol"}
  Absent = Absent
  None = None
INVARIANTS
  RuntimeIsPinned
  ChecksDoNotAge
CHECK_DEADLOCK FALSE
