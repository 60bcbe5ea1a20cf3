SPECIFICATION SFairSpec
CONSTANTS
  Clients = {1, 2}
  Games = {g1}
  LobbyIds = {1001}
  MaxPlayers = 2
  NoGame = NoGame
  NoClient = NoClient
  Quitters = {1}
  Aborters = {}
  AcceptErrors = TRUE
  FreeClients = {1, 2}
CHECK_DEADLOCK FALSE
INVARIANT OthersLetGo
PROPERTIES FinishedHandlersReaped DetachedGamesDestroyed ShutdownEnds
VIEW Control
