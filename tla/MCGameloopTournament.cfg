SPECIFICATION Spec
CONSTANTS
  Clients = {c1, c2}
  LastOrder = 1
  MaxHealth = 1
  c1 = c1
  c2 = c2
  Moves <- TournamentMoves
  NumMaps = 3
  BadMaps = {2}
  RaceTotalTime = 2
  RaceCountdownTime = 1
  ResultsScreen = 2
  UpgradesScreen = 2
  TicksPerSecond = 2
  Frames = {1, 2}
  Upgrades = {4, 10}
  Penalty <- Penalties
CHECK_DEADLOCK FALSE
SYMMETRY ClientSymmetry
INVARIANTS LeaversDestroyed UpgradesKept RacesCountedOnce TotalsAccount
PROPERTIES FinishTimeFixed ImplementsTournament
