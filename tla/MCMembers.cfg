CONSTANTS
  Guilds = {1, 2}
  Users = {1, 2, 3}
  Ids = {"c", "d"}
  Names = {"ann", "bob"}
  Devices = {1, 2}
  None = None
  TagHolders <- MCTagHolders
  InitialTables <- MCTables
  Scenarios <- MCScenarios
  MaxRedeliveries = 1
  MaxCalls = 3
  MaxExpiries = 1
SPECIFICATION Spec
CHECK_DEADLOCK FALSE
INVARIANTS
  TypeOK
  DevicesKeepTheirSessions
  TicketsConnect
  RequestsAreKept
PROPERTIES
  RequestsAreAnswered
  RightsAreKept
  NamesAreKept
