CONSTANTS
  Users <- MCUsers
  Tags <- MCTags
  Scores <- MCScores
  NoScore = NoScore
  InitialList <- BothAccepted
  InitialTag <- MCInitialTag
  Scenarios <- ImportScenario
  MaxRedeliveries = 0
SPECIFICATION Spec
CHECK_DEADLOCK FALSE
INVARIANT OnlyScoredPlayersAreRanked
