SPECIFICATION SagaSpec
CONSTANTS
  Members <- MCMembers
  Tags <- MCTags
  Finishes <- MCFinishes
  Requests = {}
  ResetOrders = {}
  Nobody = Nobody
  Messages <- CycleMessages
  InitialTag <- MCInitialTag
  MaxEvents = 1
INVARIANTS
  SagaTypeOK
PROPERTIES
  SwapsAreAskedFor
  CyclesAreNoticed
  CyclesAreExecuted
CHECK_DEADLOCK FALSE
