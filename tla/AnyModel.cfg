SPECIFICATION MCSpec
CONSTANTS
  s1 = s1
  s2 = s2
  Submissions = {s1}
  Configs <- AllConfigs
  Requests <- AllRequests
  Contents = {"content", "other content"}
  Faults = {"crash", "read", "write", "context", "oversize", "malformed", "unencodable"}
  ProviderFaults = {"Exception", "ModelError", "ToolExecutionError", "TimeoutError", "PersistenceError"}
  None = None
  Fabricated = Fabricated
INVARIANTS
  TypeOK
  UsageIsAudited
  OnlyPermittedReads
  VerdictIsGrounded
  FailureNeverBenign
PROPERTY NoCallAfterExhaustion
CHECK_DEADLOCK FALSE
