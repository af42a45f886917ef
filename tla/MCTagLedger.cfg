SPECIFICATION TagSpec
CONSTANTS
  Members <- MCMembers
  Tags <- MCTags
  Finishes <- MCFinishes
  Requests <- MCRequests
  ResetOrders <- MCResetOrders
  Nobody = Nobody
INVARIANTS
  UniqueTags
  HistoryExplainsTags
PROPERTIES
  RoundsKeepThePool
  ImplementsOwnership
