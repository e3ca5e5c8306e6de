SPECIFICATION ReplaySpec
CONSTANTS
  s1 = s1
  s2 = s2
  Submissions = {s1, s2}
  Configs <- Colliding
  Requests <- MCRequests
  Fixtures <- MCFixtures
  Contents = {"content"}
  Faults = {"crash", "write", "oversize", "unencodable"}
  ProviderFaults = {"ToolExecutionError"}
  None = None
  Fabricated = Fabricated
SYMMETRY Symmetry
INVARIANTS
  WriteAhead
  ExitsNeverContradict
PROPERTIES
  ImplementsRegister
CHECK_DEADLOCK FALSE
