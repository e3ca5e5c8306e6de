SPECIFICATION MCFairSpec
CONSTANTS
  s1 = s1
  s2 = s2
  Submissions = {s1, s2}
  Configs <- TightConfigs
  Requests <- SomeRequests
  Contents = {"content"}
  Faults = {"crash", "read", "write", "context", "oversize", "unencodable"}
  ProviderFaults = {"ToolExecutionError", "TimeoutError"}
  None = None
  Fabricated = Fabricated
INVARIANTS
  OneInvestigator
  AnswersAgree
  AnswersAreDurable
PROPERTIES
  Settles
  ReachesVerdict
CHECK_DEADLOCK FALSE
