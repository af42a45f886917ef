CONSTANTS
  Users <- MCUsers
  Tags <- MCTags
  Scores <- MCScores
  NoScore = NoScore
  InitialList <- MCList
  InitialTag <- MCInitialTag
  Scenarios <- RemovalScenario
  MaxRedeliveries = 0
SPECIFICATION Spec
CHECK_DEADLOCK FALSE
PROPERTY RemovalsRemoveOneUser
