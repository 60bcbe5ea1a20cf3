SPECIFICATION FairSpec
CONSTANTS
  Clients = {c1, c2}
  LastOrder = 2
  MaxHealth = 2
  c1 = c1
  c2 = c2
  Moves <- RaceMoves
  NumMaps = 2
  BadMaps = {1}
  RaceTotalTime = 2
  RaceCountdownTime = 1
  ResultsScreen = 2
  UpgradesScreen = 1
  TicksPerSecond = 2
  Frames = {1, 2}
  Upgrades = {0}
  Penalty <- Penalties
CHECK_DEADLOCK FALSE
INVARIANTS FinishesRecorded FinishedByTheGoal
PROPERTIES TournamentEnds
