SPECIFICATION ReplaySpec
CONSTANTS
  s1 = s1
  s2 = s2
  Submissions = {s1, s2}
  Configs <- Changed
  Requests <- MCRequests
  Fixtures <- Complete
  Contents = {"content"}
  Faults = {"write"}
  ProviderFaults = {"ToolExecutionError"}
  None = None
  Fabricated = Fabricated
INVARIANT SuccessOnlyWhenTerminal
CHECK_DEADLOCK FALSE
