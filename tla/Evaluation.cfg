SPECIFICATION EvaluationSpec
CONSTANTS
  Orders <- MCOrders
  HoldoutPercents = {10, 30}
  Selections <- MCSelections
  Calls <- MCCalls
  Edits = {"none", "drop", "relabel", "resplit", "swap"}
  FactoryEdits = {"resplit"}
  MockResults <- MCMockResults
  None = None
INVARIANTS
  CatalogueHolds
  NoDangerousBenign
  ReplayErrsOnlyAsDocumented
  SplitsCoverCategories
  RunsMatchSet
  OracleIsCeiling
  ViolationMeansAWrongRun
  ReportAddsUp
CHECK_DEADLOCK FALSE
