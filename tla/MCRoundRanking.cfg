CONSTANTS
  Users <- MCUsers
  Tags <- MCTags
  Scores <- MCScores
  NoScore = NoScore
  InitialList <- BothAccepted
  InitialTag <- MCInitialTag
  Scenarios <- ScoredScenario
  MaxRedeliveries = 0
SPECIFICATION Spec
CHECK_DEADLOCK FALSE
PROPERTY TaggedPlayersAreRanked
