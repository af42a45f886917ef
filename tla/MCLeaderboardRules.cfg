SPECIFICATION RulesSpec
CONSTANTS
  ProvisionalRounds = 3
  Players <- MCPlayers
  MaxTag = 4
  MaxRank = 3
  SeasonSizes = {0, 3, 11}
INVARIANTS
  ClosedPoolIsSorting
  PointsAreSummedMatchups
  BetterFinishNeverPaysLess
\* A behaviour ends once its round is scored.
CHECK_DEADLOCK FALSE
