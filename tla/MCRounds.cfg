CONSTANTS
  Rounds = {1, 2}
  Users = {1, 2, 3}
  Titles = {"Open", "Cup"}
  MaxHour = 4
  Scores <- MCScores
  Nobody = Nobody
  NoScore = NoScore
  Same = Same
  MaxRedeliveries = 1
  MaxFailures = 1
  InitialRows <- MCRows
  InitialJobs <- MCJobs
  Scenarios <- MCScenarios
  Names <- MCNames
  ByDisplayName <- MCDisplay
  ByUsername <- MCUsername
  Globally <- MCGlobally
  Cards <- MCCards
SPECIFICATION Spec
CHECK_DEADLOCK FALSE
INVARIANTS
  TypeOK
  OnlySparedRemindersOutliveDeletion
  ImportsCountOnce
  ImportedScoresAreOnACard
  ImportsAreKept
PROPERTIES
  RoundsMoveForward
  RemindersAreKept
  RemindersAskTheList
  AnnouncedRoundsAreReminded
  EveryImportEnds
