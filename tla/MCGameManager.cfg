SPECIFICATION GSpec
CONSTANTS
  Clients = {c1, c2, c3}
  Games = {g1, g2}
  LobbyIds = {1001, 1002}
  MaxPlayers = 2
INVARIANTS LobbyViewsCurrent LobbyNotOverfull OnlyRacersRegistered LeaversReported NoAbandonedGame
SYMMETRY Interchangeable
