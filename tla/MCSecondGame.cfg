SPECIFICATION SSpec
CONSTANTS
  Clients = {1}
  Games = {g1, g2}
  LobbyIds = {1001, 1002}
  MaxPlayers = 2
  NoGame = NoGame
  NoClient = NoClient
  Quitters = {1}
  Aborters = {}
  AcceptErrors = TRUE
  FreeClients = {}
CHECK_DEADLOCK FALSE
INVARIANT RegistryLetsGo
VIEW Control
