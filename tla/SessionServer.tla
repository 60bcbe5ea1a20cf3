---------------------------- MODULE SessionServer ----------------------------
(***************************************************************************)
(* The connections of the server around the lobby monitor of GameManager:  *)
(* a ClientHandler per connection with its Receiver and Sender threads, and*)
(* the Acceptor thread that accepts connections and reaps finished games   *)
(* and handlers.  A handler keeps a raw pointer to the game it is in; this *)
(* module is about what those pointers, and the registry's pointers to the *)
(* handlers' queues, point to.                                             *)
(*                                                                         *)
(* A receiver's step ends where it takes or gives up a lock, or uses a     *)
(* pointer it read in an earlier step.                                     *)
(***************************************************************************)
EXTENDS GameManager

CONSTANTS
  NoGame,       \* nullptr
  NoClient,     \* the acceptor is joining no handler
  Quitters,     \* the clients that may close their connection
  Aborters,     \* those whose receiver may end by an exception (reset, bad map)
  AcceptErrors, \* accept may fail with nobody having closed the socket
  FreeClients   \* those that send any message at any time, not only the game's own

ASSUME PointersAssumption == NoGame \notin Games /\ NoClient \notin Clients
ASSUME AcceptErrorsAssumption == AcceptErrors \in BOOLEAN
ASSUME KindsAssumption ==
  Quitters \subseteq Clients /\ Aborters \subseteq Clients /\ FreeClients \subseteq Clients
ASSUME OrderedClients == Clients \subseteq Nat

VARIABLES
  hs,        \* the handler: "new", "up" (in Acceptor::clients) or "gone" (destroyed)
  rpc,       \* where the Receiver thread is
  rgame,     \* the Game pointer local to the receiver's current operation
  definite,  \* the disconnection in progress ends the receiver
  snd,       \* the Sender thread: "off", "alive" or "done"
  cur,       \* ClientHandler::current_game
  cmdq,      \* ClientHandler::game_cmd_q, as the game it belongs to
  at,        \* external: the game the client program believes it is in
  peer,      \* external: the client's end of the socket, "open" or "closed"
  apc,       \* where the Acceptor thread is
  reaped,    \* the games the current reap took out of the map
  todo,      \* the handlers the current reap has not visited yet
  joining,   \* the handler being joined
  snapshot   \* the lobby snapshot ClientHandler::join has built

hvars == <<hs, rpc, rgame, definite, snd, cur, cmdq, at, peer>>
avars == <<apc, reaped, todo, joining, snapshot>>
vars == <<gvars, hvars, avars>>

Init ==
  /\ GInit
  /\ hs = [c \in Clients |-> "new"]
  /\ rpc = [c \in Clients |-> "off"]
  /\ rgame = [c \in Clients |-> NoGame]
  /\ definite = [c \in Clients |-> FALSE]
  /\ snd = [c \in Clients |-> "off"]
  /\ cur = [c \in Clients |-> NoGame]
  /\ cmdq = [c \in Clients |-> NoGame]
  /\ at = [c \in Clients |-> NoGame]
  /\ peer = [c \in Clients |-> "open"]
  /\ apc = "reap_games" /\ reaped = {} /\ todo = {} /\ joining = NoClient /\ snapshot = {}

-----------------------------------------------------------------------------
\* The client program, modelled from what it sends.  It asks for a lobby from
\* its menu, and starts, plays or leaves only the game it is in.
InMenu(c) == c \in FreeClients \/ at[c] = NoGame
InGame(c) == c \in FreeClients \/ at[c] # NoGame

Reading(c) == rpc[c] = "idle"
Goto(c, label) == rpc' = [rpc EXCEPT ![c] = label]

\* After the last race the client goes back to its menu, and tells nobody.
ClientSeesResults(c) ==
  /\ hs[c] = "up" /\ at[c] # NoGame /\ closed[at[c]]
  /\ at' = [at EXCEPT ![c] = NoGame]
  /\ UNCHANGED <<gvars, hs, rpc, rgame, definite, snd, cur, cmdq, peer, avars>>

ClientQuits(c) ==
  /\ c \in Quitters /\ hs[c] = "up" /\ peer[c] = "open"
  /\ peer' = [peer EXCEPT ![c] = "closed"]
  /\ UNCHANGED <<gvars, hs, rpc, rgame, definite, snd, cur, cmdq, at, avars>>

-----------------------------------------------------------------------------
\* Receiver, on a CreateLobby or JoinLobby message: the call to the manager
RecvCreateLobby(c) ==
  /\ Reading(c) /\ InMenu(c)
  /\ \E g \in Games :
       /\ CreateLobbyAndJoin(c, g)
       /\ rgame' = [rgame EXCEPT ![c] = g]
       /\ at' = [at EXCEPT ![c] = g]
  /\ Goto(c, "attach")
  /\ UNCHANGED <<hs, definite, snd, cur, cmdq, peer, avars>>

RecvJoinLobby(c) ==
  /\ Reading(c) /\ InMenu(c)
  /\ \E g \in Games :
       /\ JoinLobby(c, g)
       /\ rgame' = [rgame EXCEPT ![c] = g]
       /\ at' = [at EXCEPT ![c] = g]
  /\ Goto(c, "attach")
  /\ UNCHANGED <<hs, definite, snd, cur, cmdq, peer, avars>>

RecvJoinRefused(c) ==
  /\ Reading(c) /\ InMenu(c)
  /\ \E id \in LobbyIds : RefuseJoin(c, id)
  /\ UNCHANGED <<hvars, avars>>

\* attach_to_game, once the manager has released its mutex
Attach(c) ==
  /\ rpc[c] = "attach"
  /\ cur' = [cur EXCEPT ![c] = rgame[c]]
  /\ rgame' = [rgame EXCEPT ![c] = NoGame]
  /\ Goto(c, "idle")
  /\ UNCHANGED <<gvars, hs, definite, snd, cmdq, at, peer, avars>>

\* StartLobby carries the lobby's id; the handler must be in some game.
RecvStartLobby(c) ==
  /\ Reading(c) /\ InGame(c) /\ cur[c] # NoGame
  /\ \E g \in Games :
       /\ c \in FreeClients \/ g = at[c]
       /\ StartLobby(g)
  /\ Goto(c, "get_queue")
  /\ UNCHANGED <<hs, rgame, definite, snd, cur, cmdq, at, peer, avars>>

\* get_queue_gameloop looks into the current game, and forgets a finished one.
GetQueueGameloop(c) ==
  \/ /\ cur[c] # NoGame /\ HasFinished(cur[c])
     /\ cur' = [cur EXCEPT ![c] = NoGame]
     /\ cmdq' = [cmdq EXCEPT ![c] = NoGame]
  \/ /\ cur[c] # NoGame /\ ~HasFinished(cur[c]) /\ started[cur[c]]
     /\ cmdq' = [cmdq EXCEPT ![c] = cur[c]]
     /\ UNCHANGED cur
  \/ /\ cur[c] # NoGame => ~HasFinished(cur[c]) /\ ~started[cur[c]]
     /\ UNCHANGED <<cur, cmdq>>

\* The end of the StartLobby message: the queue is that of the current game,
\* whichever lobby was started.
RecvStarted(c) ==
  /\ rpc[c] = "get_queue"
  /\ \/ /\ cur[c] # NoGame /\ ~HasFinished(cur[c])
        /\ cmdq' = [cmdq EXCEPT ![c] = cur[c]]
        /\ UNCHANGED cur
     \/ /\ cur[c] # NoGame => HasFinished(cur[c])
        /\ GetQueueGameloop(c)
  /\ Goto(c, "idle")
  /\ UNCHANGED <<gvars, hs, rgame, definite, snd, at, peer, avars>>

\* Move and Upgrade: the receiver pushes to the queue it got, if any.
RecvCommand(c) ==
  /\ Reading(c) /\ InGame(c)
  /\ GetQueueGameloop(c)
  /\ Goto(c, IF cmdq'[c] # NoGame THEN "push" ELSE "idle")
  /\ UNCHANGED <<gvars, hs, rgame, definite, snd, at, peer, avars>>

\* The command goes to the game loop's queue, or meets ClosedQueue.
PushCommand(c) ==
  /\ rpc[c] = "push"
  /\ Goto(c, "idle")
  /\ UNCHANGED <<gvars, hs, rgame, definite, snd, cur, cmdq, at, peer, avars>>

\* Disconect (the client leaves its game) or, when the peer has closed,
\* DefiniteDisconect: GameManager::disconnect under the mutex
RecvDisconnect(c) ==
  /\ Reading(c)
  /\ \/ InGame(c) /\ definite' = definite
     \/ peer[c] = "closed" /\ definite' = [definite EXCEPT ![c] = TRUE]
  /\ \/ \E g \in Games :
          /\ DisconnectFrom(c, g)
          /\ rgame' = [rgame EXCEPT ![c] = IF mem'[g] = "detached" THEN g ELSE NoGame]
          /\ Goto(c, IF mem'[g] = "detached" THEN "stop" ELSE "forget")
     \/ /\ InNoGame(c)
        /\ Goto(c, "forget")
        /\ UNCHANGED <<gvars, rgame>>
  /\ at' = [at EXCEPT ![c] = NoGame]
  /\ UNCHANGED <<hs, snd, cur, cmdq, peer, avars>>

RecvStopGame(c) ==
  /\ rpc[c] = "stop"
  /\ StopGame(rgame[c])
  /\ Goto(c, "destroy")
  /\ UNCHANGED <<hs, rgame, definite, snd, cur, cmdq, at, peer, avars>>

RecvDestroyGame(c) ==
  /\ rpc[c] = "destroy"
  /\ DestroyGame(rgame[c])
  /\ rgame' = [rgame EXCEPT ![c] = NoGame]
  /\ Goto(c, "forget")
  /\ UNCHANGED <<hs, definite, snd, cur, cmdq, at, peer, avars>>

\* Mutant: one of the two pointers survives the disconnection.
RecvForget_KeepsQueue(c) ==
  /\ rpc[c] = "forget"
  /\ cur' = [cur EXCEPT ![c] = NoGame]
  /\ Goto(c, IF definite[c] THEN "done" ELSE "idle")
  /\ UNCHANGED <<gvars, hs, rgame, definite, snd, cmdq, at, peer, avars>>

\* ClientHandler::disconnect forgets the game, whichever one was left.
RecvForget(c) ==
  /\ rpc[c] = "forget"
  /\ cur' = [cur EXCEPT ![c] = NoGame]
  /\ cmdq' = [cmdq EXCEPT ![c] = NoGame]
  /\ Goto(c, IF definite[c] THEN "done" ELSE "idle")
  /\ UNCHANGED <<gvars, hs, rgame, definite, snd, at, peer, avars>>

\* An exception ends Receiver::run: nothing calls disconnect.
RecvThrows(c) ==
  /\ c \in Aborters /\ Reading(c)
  /\ Goto(c, "done")
  /\ UNCHANGED <<gvars, hs, rgame, definite, snd, cur, cmdq, at, peer, avars>>

-----------------------------------------------------------------------------
\* Sender: it waits in pop while its queue is empty, and learns that the peer
\* is gone only from a send that fails.  A first send may still succeed.
SenderSends(c) ==
  /\ snd[c] = "alive"
  /\ Drain(c)
  /\ UNCHANGED <<hvars, avars>>

SenderFails(c) ==
  /\ snd[c] = "alive" /\ peer[c] = "closed"
  /\ Drain(c)
  /\ snd' = [snd EXCEPT ![c] = "done"]
  /\ UNCHANGED <<hs, rpc, rgame, definite, cur, cmdq, at, peer, avars>>

-----------------------------------------------------------------------------
\* Acceptor::reap, first half: reap_finished_games
ReapGames ==
  /\ apc = "reap_games"
  /\ ReapFinishedGames
  /\ reaped' = Reapable
  /\ apc' = IF Reapable = {} THEN "visit" ELSE "reap_free"
  /\ todo' = Clients
  /\ UNCHANGED <<hvars, joining, snapshot>>

\* The games it took are joined and destroyed outside the mutex.
ReapFree ==
  /\ apc = "reap_free"
  /\ Destroy(reaped)
  /\ reaped' = {}
  /\ apc' = "visit"
  /\ UNCHANGED <<hvars, todo, joining, snapshot>>

\* Second half: the handlers, in the order they were accepted.  The ones that
\* are not finished, and are passed over, make one step with what follows.
IsFinished(c) == hs[c] = "up" /\ rpc[c] = "done" /\ snd[c] = "done"
NextFinished(c) ==
  /\ c \in todo /\ IsFinished(c)
  /\ \A d \in todo : d < c => ~IsFinished(d)

\* ClientHandler::join, on the acceptor's thread, outside the mutex
JoinHandler ==
  /\ apc = "visit"
  /\ \E c \in Clients :
       /\ NextFinished(c)
       /\ todo' = {d \in todo : d > c}
       /\ joining' = c
       /\ apc' = IF cur[c] # NoGame THEN "join_players" ELSE "join_erase"
  /\ UNCHANGED <<gvars, hvars, reaped, snapshot>>

ReapEnds ==
  /\ apc = "visit" /\ \A c \in todo : ~IsFinished(c)
  /\ apc' = "accept" /\ todo' = {}
  /\ UNCHANGED <<gvars, hvars, reaped, joining, snapshot>>

\* Mutant: join only unregisters.
JoinRemovesPlayer_Skips ==
  /\ apc = "join_players"
  /\ apc' = "join_registry"
  /\ UNCHANGED <<gvars, hvars, reaped, todo, joining, snapshot>>

JoinRemovesPlayer ==
  /\ apc = "join_players"
  /\ players' = [players EXCEPT ![cur[joining]] = @ \ {joining}]
  /\ apc' = "join_registry"
  /\ UNCHANGED <<mem, lobby, started, registry, cars, told, closed, loop, view, outq>>
  /\ UNCHANGED <<hvars, reaped, todo, joining, snapshot>>

JoinUnregisters ==
  /\ apc = "join_registry"
  /\ registry' = [registry EXCEPT ![cur[joining]] = @ \ {joining}]
  /\ apc' = "join_snapshot"
  /\ UNCHANGED <<mem, lobby, started, players, cars, told, closed, loop, view, outq>>
  /\ UNCHANGED <<hvars, reaped, todo, joining, snapshot>>

JoinBuildsSnapshot ==
  /\ apc = "join_snapshot"
  /\ snapshot' = IF started[cur[joining]] THEN {} ELSE players[cur[joining]]
  /\ apc' = IF started[cur[joining]] THEN "join_erase" ELSE "join_broadcast"
  /\ UNCHANGED <<gvars, hvars, reaped, todo, joining>>

JoinBroadcasts ==
  /\ apc = "join_broadcast"
  /\ BroadcastLobby(cur[joining], snapshot, registry[cur[joining]])
  /\ apc' = "join_erase"
  /\ snapshot' = {}
  /\ UNCHANGED <<mem, lobby, started, players, registry, cars, told, closed, loop>>
  /\ UNCHANGED <<hvars, reaped, todo, joining>>

\* The pointers are cleared, the queue closed, the threads joined, and the
\* handler erased from the list, its queue with it.
JoinErases ==
  /\ apc = "join_erase"
  /\ cur' = [cur EXCEPT ![joining] = NoGame]
  /\ cmdq' = [cmdq EXCEPT ![joining] = NoGame]
  /\ hs' = [hs EXCEPT ![joining] = "gone"]
  /\ joining' = NoClient
  /\ apc' = "visit"
  /\ UNCHANGED <<gvars, rpc, rgame, definite, snd, at, peer, reaped, todo, snapshot>>

\* Acceptor::run: a connection comes in; ids are given in increasing order.
Accept(c) ==
  /\ apc = "accept" /\ hs[c] = "new"
  /\ \A d \in Clients : d < c => hs[d] # "new"
  /\ hs' = [hs EXCEPT ![c] = "up"]
  /\ rpc' = [rpc EXCEPT ![c] = "idle"]
  /\ snd' = [snd EXCEPT ![c] = "alive"]
  /\ apc' = "reap_games"
  /\ UNCHANGED <<gvars, rgame, definite, cur, cmdq, at, peer, reaped, todo, joining, snapshot>>

\* Mutant: after an error the loop accepts again without reaping.
AcceptFails_SkipsReap == AcceptErrors /\ apc = "accept" /\ UNCHANGED vars

\* accept fails although nobody closed the listening socket: the loop goes on.
AcceptFails ==
  /\ AcceptErrors /\ apc = "accept"
  /\ apc' = "reap_games"
  /\ UNCHANGED <<gvars, hvars, reaped, todo, joining, snapshot>>

-----------------------------------------------------------------------------
Receiver(c) ==
  \/ RecvCreateLobby(c) \/ RecvJoinLobby(c) \/ RecvJoinRefused(c) \/ Attach(c)
  \/ RecvStartLobby(c) \/ RecvStarted(c) \/ RecvCommand(c) \/ PushCommand(c)
  \/ RecvDisconnect(c) \/ RecvStopGame(c) \/ RecvDestroyGame(c) \/ RecvForget(c)
  \/ RecvThrows(c)

Acceptor ==
  \/ ReapGames \/ ReapFree \/ JoinHandler \/ JoinRemovesPlayer
  \/ JoinUnregisters \/ JoinBuildsSnapshot \/ JoinBroadcasts \/ JoinErases \/ ReapEnds

GameThread(g) ==
  /\ TournamentOver(g) \/ LoopExits(g) \/ LoopCrashes(g) \/ LoopBroadcasts(g)
  /\ UNCHANGED <<hvars, avars>>

Next ==
  \/ Acceptor \/ AcceptFails \/ \E c \in Clients : Accept(c)
  \/ \E g \in Games : GameThread(g)
  \/ \E c \in Clients :
       Receiver(c) \/ SenderSends(c) \/ SenderFails(c) \/ ClientSeesResults(c) \/ ClientQuits(c)

Spec == Init /\ [][Next]_vars

\* The threads of the server run.  A receiver need not get another message,
\* but finishes the one it has; a sender takes what is in its queue.
ReceiverBusy(c) ==
  \/ Attach(c) \/ RecvStarted(c) \/ PushCommand(c)
  \/ RecvStopGame(c) \/ RecvDestroyGame(c) \/ RecvForget(c)

\* Assumed of the environment: accept keeps returning, with a connection or
\* with an error.  The acceptor reaps only then.
AcceptReturns == AcceptFails \/ \E c \in Clients : Accept(c)

-----------------------------------------------------------------------------
TypeOK ==
  /\ GTypeOK
  /\ hs \in [Clients -> {"new", "up", "gone"}]
  /\ rpc \in [Clients -> {"off", "idle", "attach", "get_queue", "push",
                          "stop", "destroy", "forget", "done"}]
  /\ rgame \in [Clients -> Games \cup {NoGame}]
  /\ definite \in [Clients -> BOOLEAN]
  /\ snd \in [Clients -> {"off", "alive", "done"}]
  /\ cur \in [Clients -> Games \cup {NoGame}]
  /\ cmdq \in [Clients -> Games \cup {NoGame}]
  /\ at \in [Clients -> Games \cup {NoGame}]
  /\ peer \in [Clients -> {"open", "closed"}]
  /\ apc \in {"reap_games", "reap_free", "visit", "join_players", "join_registry",
              "join_snapshot", "join_broadcast", "join_erase", "accept"}
  /\ reaped \in SUBSET Games
  /\ todo \in SUBSET Clients
  /\ joining \in Clients \cup {NoClient}
  /\ snapshot \in SUBSET Clients

\* The games a connection's threads may use next
Holds(c) == ({cur[c], cmdq[c]} \cup IF rpc[c] = "attach" THEN {rgame[c]} ELSE {}) \ {NoGame}
Leaving(c) == rpc[c] \in {"stop", "destroy", "forget"} \/ joining = c

\* A receiver never uses a destroyed game: while it can use a game pointer
\* (the current game, the command queue, the result of create or join), the
\* game is still in the manager's map and lists the client, whatever other
\* clients, the reaper and the game's own thread do meanwhile.
ReceiverPointersLive ==
  \A c \in Clients : ~Leaving(c) => \A g \in Holds(c) : Mapped(g) /\ c \in registry[g]

\* A game taken out of the map has one thread that destroys it: the receiver
\* that emptied it or the reaper, never both, never two, and never after it
\* was destroyed.
Destroys(c, g) == rpc[c] \in {"stop", "destroy"} /\ rgame[c] = g
OneDestroyer ==
  /\ \A g \in Games : mem[g] = "detached" => g \in reaped \/ \E c \in Clients : Destroys(c, g)
  /\ \A g \in reaped : mem[g] = "detached"
  /\ \A g \in Games, c \in Clients : Destroys(c, g) =>
       mem[g] = "detached" /\ g \notin reaped /\ \A d \in Clients : Destroys(d, g) => d = c

\* Nor does the acceptor use a destroyed game, in ClientHandler::join.
JoinPointerLive ==
  apc \in {"join_players", "join_registry", "join_snapshot", "join_broadcast"}
    => mem[cur[joining]] # "freed"

\* A waiting lobby shows no player that is not registered with it: join takes
\* the player out first, so even between its two unlocked steps no lobby
\* starts a car for a client that gets no events.
PlayersRegistered ==
  \A g \in Games : Mapped(g) /\ ~started[g] => players[g] \subseteq registry[g]

=============================================================================
