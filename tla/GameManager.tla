----------------------------- MODULE GameManager -----------------------------
(***************************************************************************)
(* The lobbies of the server: GameManager (src/server/conection), the Game *)
(* objects it owns, and the ClientRegistryMonitor of each one.  Every      *)
(* public operation of GameManager runs under its mutex and is one action; *)
(* disconnect and reap_finished_games are split where they release it, to  *)
(* stop, join and destroy the games they took out of the map.              *)
(*                                                                         *)
(* A Game is known by its address, an element of Games, never used twice:  *)
(* a pointer to a destroyed game stays a pointer to a destroyed game.      *)
(***************************************************************************)
EXTENDS Naturals, FiniteSets

CONSTANTS
  Clients,     \* client ids
  Games,       \* addresses of Game objects
  LobbyIds,    \* the ids next_lobby_id chooses from (default_id upwards)
  MaxPlayers   \* size_max_players

ASSUME LobbyIdsAssumption == LobbyIds \subseteq Nat
ASSUME MaxPlayersAssumption == MaxPlayers \in Nat \ {0}
ASSUME ClientsAssumption == IsFiniteSet(Clients)

VARIABLES
  mem,       \* "mapped": owned by GameManager::games; "detached": taken out of it
  lobby,     \* the key of the game in GameManager::games
  started,   \* Game::lobby_started
  players,   \* the keys of Game::lobby_players
  registry,  \* the keys of ClientRegistryMonitor::out_queue_sender
  cars,      \* the clients a NewCar command was queued for
  told,      \* the clients a Disconect command was queued for
  closed,    \* Game::command_queue is closed
  loop,      \* the Gameloop thread: "off", "alive" or "ended"
  view,      \* view[g][c]: the players in the last lobby snapshot queued to c
  outq       \* the clients whose output queue is not empty

gvars == <<mem, lobby, started, players, registry, cars, told, closed, loop, view, outq>>

Mapped(g) == mem[g] = "mapped"
HasPlayer(g, c) == c \in players[g]
\* Mutants of can_join: one player too many, or after the start.
CanJoin_OffByOne(g) == ~started[g] /\ Cardinality(players[g]) <= MaxPlayers
CanJoin_AfterStart(g) == Cardinality(players[g]) < MaxPlayers

CanJoin(g) == ~started[g] /\ Cardinality(players[g]) < MaxPlayers
HasFinished(g) == loop[g] = "ended"
IsEmpty(g) == registry[g] = {}

GInit ==
  /\ mem = [g \in Games |-> "unused"]
  /\ lobby = [g \in Games |-> 0]
  /\ started = [g \in Games |-> FALSE]
  /\ players = [g \in Games |-> {}]
  /\ registry = [g \in Games |-> {}]
  /\ cars = [g \in Games |-> {}]
  /\ told = [g \in Games |-> {}]
  /\ closed = [g \in Games |-> FALSE]
  /\ loop = [g \in Games |-> "off"]
  /\ view = [g \in Games |-> [c \in Clients |-> {}]]
  /\ outq = {}

-----------------------------------------------------------------------------
\* ClientRegistryMonitor::broadcast pushes an event to every registered client.
Broadcast(members) == outq' = outq \cup members

\* The broadcast of a lobby snapshot that lists who.
BroadcastLobby(g, who, members) ==
  /\ view' = [view EXCEPT ![g] = [c \in Clients |-> IF c \in members THEN who ELSE @[c]]]
  /\ Broadcast(members)

\* next_lobby_id: the first id that is not a key of the map
FreeId(id) == \A g \in Games : Mapped(g) => lobby[g] # id

\* default_id, or the first after it that is free.
NextLobbyId(id) ==
  /\ id \in LobbyIds /\ FreeId(id)
  /\ \A lower \in LobbyIds : lower < id => ~FreeId(lower)

CreateLobbyAndJoin(c, g) ==
  /\ mem[g] = "unused"
  /\ \E id \in LobbyIds : NextLobbyId(id) /\ lobby' = [lobby EXCEPT ![g] = id]
  /\ mem' = [mem EXCEPT ![g] = "mapped"]
  /\ loop' = [loop EXCEPT ![g] = "alive"]
  /\ registry' = [registry EXCEPT ![g] = {c}]
  /\ players' = [players EXCEPT ![g] = {c}]
  /\ BroadcastLobby(g, {c}, {c})
  /\ UNCHANGED <<started, cars, told, closed>>

\* Mutant: the lobby is sent to those who were there before.
JoinLobby_SendsEarly(c, g) ==
  /\ Mapped(g) /\ CanJoin(g) /\ ~HasPlayer(g, c)
  /\ registry' = [registry EXCEPT ![g] = @ \cup {c}]
  /\ players' = [players EXCEPT ![g] = @ \cup {c}]
  /\ BroadcastLobby(g, players'[g], registry[g])
  /\ UNCHANGED <<mem, lobby, started, cars, told, closed, loop>>

JoinLobby(c, g) ==
  /\ Mapped(g) /\ CanJoin(g) /\ ~HasPlayer(g, c)
  /\ registry' = [registry EXCEPT ![g] = @ \cup {c}]
  /\ players' = [players EXCEPT ![g] = @ \cup {c}]
  /\ BroadcastLobby(g, players'[g], registry'[g])
  /\ UNCHANGED <<mem, lobby, started, cars, told, closed, loop>>

\* join_lobby returned false: the handler queues a JoinErrorEvent.
RefuseJoin(c, id) ==
  /\ \A g \in Games :
       Mapped(g) /\ lobby[g] = id => ~CanJoin(g) \/ HasPlayer(g, c)
  /\ Broadcast({c})
  /\ UNCHANGED <<mem, lobby, started, players, registry, cars, told, closed, loop, view>>

StartLobby(g) ==
  /\ Mapped(g) /\ ~started[g]
  /\ started' = [started EXCEPT ![g] = TRUE]
  /\ cars' = [cars EXCEPT ![g] = players[g]]
  /\ Broadcast(registry[g])
  /\ UNCHANGED <<mem, lobby, players, registry, told, closed, loop, view>>

\* disconnect stops at the first game, in the order of the map, that has the
\* client among its lobby players.
FirstGameOf(c, g) ==
  /\ Mapped(g) /\ HasPlayer(g, c)
  /\ \A h \in Games : Mapped(h) /\ HasPlayer(h, c) => lobby[g] <= lobby[h]

\* Mutant: the race is not told who left.
OnDisconnect_Silent(c, g) ==
  /\ registry' = [registry EXCEPT ![g] = @ \ {c}]
  /\ \/ /\ ~started[g]
        /\ players' = [players EXCEPT ![g] = @ \ {c}]
        /\ BroadcastLobby(g, players'[g], registry'[g])
        /\ UNCHANGED told
     \/ started[g] /\ UNCHANGED <<told, players, view, outq>>

\* Game::on_disconnect.  A started game keeps the client in lobby_players.
OnDisconnect(c, g) ==
  /\ registry' = [registry EXCEPT ![g] = @ \ {c}]
  /\ \/ /\ ~started[g]
        /\ players' = [players EXCEPT ![g] = @ \ {c}]
        /\ BroadcastLobby(g, players'[g], registry'[g])
        /\ UNCHANGED told
     \/ /\ started[g]
        /\ told' = [told EXCEPT ![g] = IF closed[g] THEN @ ELSE @ \cup {c}]
        /\ UNCHANGED <<players, view, outq>>

\* Mutant: an emptied game stays in the map.
DisconnectFrom_KeepsEmpty(c, g) ==
  /\ FirstGameOf(c, g)
  /\ OnDisconnect(c, g)
  /\ UNCHANGED <<mem, lobby, started, cars, closed, loop>>

\* The part of disconnect under the mutex: an emptied game leaves the map.
DisconnectFrom(c, g) ==
  /\ FirstGameOf(c, g)
  /\ OnDisconnect(c, g)
  /\ mem' = [mem EXCEPT ![g] = IF registry'[g] = {} THEN "detached" ELSE @]
  /\ UNCHANGED <<lobby, started, cars, closed, loop>>

InNoGame(c) == \A g \in Games : Mapped(g) => ~HasPlayer(g, c)

\* Mutant: Game::stop does not close the queue.
StopGame_LeavesOpen(g) == mem[g] = "detached" /\ UNCHANGED gvars

\* Game::stop, by disconnect on the game it detached
StopGame(g) ==
  /\ mem[g] = "detached"
  /\ closed' = [closed EXCEPT ![g] = TRUE]
  /\ UNCHANGED <<mem, lobby, started, players, registry, cars, told, loop, view, outq>>

\* unique_ptr destroys the games of S, and all their state.
Cleared(f, S, initial) == [g \in Games |-> IF g \in S THEN initial ELSE f[g]]
Destroy(S) ==
  /\ mem' = Cleared(mem, S, "freed")
  /\ lobby' = Cleared(lobby, S, 0)
  /\ started' = Cleared(started, S, FALSE)
  /\ players' = Cleared(players, S, {})
  /\ registry' = Cleared(registry, S, {})
  /\ cars' = Cleared(cars, S, {})
  /\ told' = Cleared(told, S, {})
  /\ closed' = Cleared(closed, S, FALSE)
  /\ loop' = Cleared(loop, S, "off")
  /\ view' = Cleared(view, S, [c \in Clients |-> {}])
  /\ UNCHANGED outq

\* Game::join returns, by the thread that detached the game.
DestroyGame(g) ==
  /\ mem[g] = "detached" /\ HasFinished(g)
  /\ Destroy({g})

\* The part of reap_finished_games under the mutex
Reapable == {g \in Games : Mapped(g) /\ HasFinished(g) /\ IsEmpty(g)}

\* Mutant: the map keeps the entry of what is destroyed.
ReapFinishedGames_KeepsEntry == UNCHANGED gvars

ReapFinishedGames ==
  /\ mem' = [g \in Games |-> IF g \in Reapable THEN "detached" ELSE mem[g]]
  /\ UNCHANGED <<lobby, started, players, registry, cars, told, closed, loop, view, outq>>

-----------------------------------------------------------------------------
\* The last race is over: the game loop sends the last results and closes its
\* own command queue.
TournamentOver(g) ==
  /\ loop[g] = "alive" /\ started[g] /\ ~closed[g]
  /\ closed' = [closed EXCEPT ![g] = TRUE]
  /\ Broadcast(registry[g])
  /\ UNCHANGED <<mem, lobby, started, players, registry, cars, told, loop, view>>

\* try_pop throws ClosedQueue: the thread leaves its loop.
LoopExits(g) ==
  /\ loop[g] = "alive" /\ closed[g]
  /\ loop' = [loop EXCEPT ![g] = "ended"]
  /\ UNCHANGED <<mem, lobby, started, players, registry, cars, told, closed, view, outq>>

\* Any other exception ends the thread too, and leaves the queue open.
LoopCrashes(g) ==
  /\ loop[g] = "alive" /\ started[g] /\ ~closed[g]
  /\ loop' = [loop EXCEPT ![g] = "ended"]
  /\ UNCHANGED <<mem, lobby, started, players, registry, cars, told, closed, view, outq>>

\* A race snapshot goes out.
LoopBroadcasts(g) ==
  /\ loop[g] = "alive" /\ started[g]
  /\ Broadcast(registry[g])
  /\ UNCHANGED <<mem, lobby, started, players, registry, cars, told, closed, loop, view>>

\* The sender thread of c takes what is in its queue.
Drain(c) ==
  /\ c \in outq
  /\ outq' = outq \ {c}
  /\ UNCHANGED <<mem, lobby, started, players, registry, cars, told, closed, loop, view>>

-----------------------------------------------------------------------------
\* The monitor on its own: its callers call what they like, in any order.
GNext ==
  \/ ReapFinishedGames
  \/ \E g \in Games :
       \/ StartLobby(g) \/ StopGame(g) \/ DestroyGame(g)
       \/ TournamentOver(g) \/ LoopExits(g) \/ LoopCrashes(g) \/ LoopBroadcasts(g)
  \/ \E c \in Clients :
       \/ Drain(c)
       \/ \E id \in LobbyIds : RefuseJoin(c, id)
       \/ \E g \in Games :
            CreateLobbyAndJoin(c, g) \/ JoinLobby(c, g) \/ DisconnectFrom(c, g)

GSpec == GInit /\ [][GNext]_gvars

-----------------------------------------------------------------------------
GTypeOK ==
  /\ mem \in [Games -> {"unused", "mapped", "detached", "freed"}]
  /\ lobby \in [Games -> Nat]
  /\ started \in [Games -> BOOLEAN]
  /\ players \in [Games -> SUBSET Clients]
  /\ registry \in [Games -> SUBSET Clients]
  /\ cars \in [Games -> SUBSET Clients]
  /\ told \in [Games -> SUBSET Clients]
  /\ closed \in [Games -> BOOLEAN]
  /\ loop \in [Games -> {"off", "alive", "ended"}]
  /\ view \in [Games -> [Clients -> SUBSET Clients]]
  /\ outq \in SUBSET Clients

\* Two lobbies never answer to the same id: emplace would drop the new game.
UniqueLobbyIds ==
  \A g, h \in Games : Mapped(g) /\ Mapped(h) /\ lobby[g] = lobby[h] => g = h

\* While a lobby waits, its players and its registered clients are the same
\* set, no larger than a race takes, and each of them has been sent it.
LobbyViewsCurrent ==
  \A g \in Games : Mapped(g) /\ ~started[g] =>
    /\ registry[g] = players[g]
    /\ \A c \in registry[g] : view[g][c] = players[g]

LobbyNotOverfull ==
  \A g \in Games : Cardinality(players[g]) <= MaxPlayers

\* Once started, a game sends its race to nobody who has no car in it.
OnlyRacersRegistered ==
  \A g \in Games : started[g] => registry[g] \subseteq cars[g]

\* A client that left a running race has been reported to the game loop.
LeaversReported ==
  \A g \in Games :
    Mapped(g) /\ started[g] /\ ~closed[g] => cars[g] \ registry[g] \subseteq told[g]

\* "Si quedo vacia, la borramos": no game stays in the map without a client.
NoAbandonedGame ==
  \A g \in Games : Mapped(g) => ~IsEmpty(g)

=============================================================================
