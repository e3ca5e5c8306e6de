SPECIFICATION ReplaySpec
CONSTANTS
  s1 = s1
  s2 = s2
  Submissions = {s1, s2}
  Configs <- Changed
  Requests <- MCRequests
  Fixtures <- MCFixtures
  Contents = {"content"}
  Faults = {}
  ProviderFaults = {"ToolExecutionError"}
  None = None
  Fabricated = Fabricated
INVARIANT ChangedSubmissionRefused
CHECK_DEADLOCK FALSE
