CONSTANTS
  Users <- MCUsers
  Tags <- MCTags
  Scores <- MCScores
  NoScore = NoScore
  InitialList <- MCList
  InitialTag <- MCInitialTag
  Scenarios <- MCScenarios
  MaxRedeliveries = 1
SPECIFICATION Spec
CHECK_DEADLOCK FALSE
INVARIANTS
  TypeOK
  ScoresWereSubmitted
  TagsWereHeld
PROPERTIES
  CompleteRoundsAreProcessed
  RedeliveredResultsMoveNoTags
  CompletionIsKept
