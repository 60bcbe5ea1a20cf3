SPECIFICATION Spec
CONSTANTS
  Clients = {1, 2}
  Games = {g1, g2}
  LobbyIds = {1001, 1002}
  MaxPlayers = 2
  NoGame = NoGame
  NoClient = NoClient
  Quitters = {1}
  Aborters = {1}
  AcceptErrors = TRUE
  FreeClients = {}
INVARIANTS ReceiverPointersLive OneDestroyer PlayersRegistered
SYMMETRY Interchangeable
VIEW Control
