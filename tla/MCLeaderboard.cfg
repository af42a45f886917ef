SPECIFICATION Spec
CONSTANTS
  Members <- MCMembers
  Tags <- MCTags
  Finishes <- MCFinishes
  Requests <- MCRequests
  ResetOrders <- MCResetOrders
  Nobody = Nobody
  ProvisionalRounds = 1
  Rounds = {r1, r2}
  SeasonIds = {s1, s2}
  NoSeason = NoSeason
  Deltas <- MCDeltas
  MaxAdjustments = 1
INVARIANTS
  TypeOK
  HistoryMatchesOutcome
  RoundsPlayedIsHistory
  TotalsExplainedByHistory
PROPERTIES
  ClosedSeasonsAreFrozen
  OutcomesSettle
SYMMETRY IdSymmetry
