--------------------------- MODULE ServerShutdown ---------------------------
(***************************************************************************)
(* The server with its end: ServerLogic stops the acceptor, which joins    *)
(* every handler while its threads still run, and then stops and joins the *)
(* games that are left.  The receivers, the senders and the games go on    *)
(* meanwhile.                                                              *)
(*                                                                         *)
(* The acceptor reads current_game anew at each use, with no mutex, while  *)
(* the receiver may clear it: a null pointer ends the process, a destroyed *)
(* game ends it or not.                                                    *)
(***************************************************************************)
EXTENDS SessionServer

\* The exceptions here are those the shutdown causes.
ASSUME NoOtherExceptions == Aborters = {}

VARIABLES
  stage,     \* of the process: "serving", "stopping", "clearing", "stop_all",
             \* "join_all", "exited", or "crashed"
  clearing,  \* the handler that Acceptor::clear joins
  cstep,     \* and where in ClientHandler::join it is
  closedOut, \* the clients whose queue_out is closed
  threw,     \* history: the receivers ended by an exception
  twice      \* history: the clients that two games of the map listed at once

shvars == <<stage, clearing, cstep, closedOut, threw>>
svars == <<vars, shvars>>
allvars == <<svars, twice>>

SInit ==
  /\ Init
  /\ stage = "serving" /\ clearing = NoClient /\ cstep = "pick"
  /\ closedOut = {} /\ threw = {} /\ twice = {}

Running == stage \notin {"exited", "crashed"}

-----------------------------------------------------------------------------
\* A push on the client's closed queue ends the receiver in the middle of
\* create_lobby_and_join or join_lobby: the client is in the game, and nobody
\* was told.  No disconnection follows.
PushThrows(c) ==
  /\ Reading(c) /\ InMenu(c) /\ c \in closedOut
  /\ \/ \E g \in Games :
          /\ mem[g] = "unused"
          /\ \E id \in LobbyIds : NextLobbyId(id) /\ lobby' = [lobby EXCEPT ![g] = id]
          /\ mem' = [mem EXCEPT ![g] = "mapped"]
          /\ loop' = [loop EXCEPT ![g] = "alive"]
          /\ registry' = [registry EXCEPT ![g] = {c}]
          /\ players' = [players EXCEPT ![g] = {c}]
     \/ \E g \in Games :
          /\ Mapped(g) /\ CanJoin(g) /\ ~HasPlayer(g, c)
          /\ registry' = [registry EXCEPT ![g] = @ \cup {c}]
          /\ players' = [players EXCEPT ![g] = @ \cup {c}]
          /\ UNCHANGED <<mem, lobby, loop>>
     \/ UNCHANGED <<mem, lobby, loop, registry, players>>
  /\ Goto(c, "done") /\ threw' = threw \cup {c}
  /\ UNCHANGED <<started, cars, told, closed, view, outq>>
  /\ UNCHANGED <<hs, rgame, definite, snd, cur, cmdq, at, peer, avars>>
  /\ UNCHANGED <<stage, clearing, cstep, closedOut>>

\* The stream of a socket that was shut ends inside a message.
CutShort(c) ==
  /\ Reading(c) /\ c \in closedOut
  /\ Goto(c, "done") /\ threw' = threw \cup {c}
  /\ UNCHANGED <<gvars, hs, rgame, definite, snd, cur, cmdq, at, peer, avars>>
  /\ UNCHANGED <<stage, clearing, cstep, closedOut>>

Asking(c) == RecvCreateLobby(c) \/ RecvJoinLobby(c) \/ RecvJoinRefused(c)
ReceiverRuns(c) ==
  \/ Receiver(c) /\ (Asking(c) => c \notin closedOut) /\ UNCHANGED shvars
  \/ PushThrows(c) \/ CutShort(c)

\* On an empty closed queue pop throws; what a queue still holds cannot be
\* sent on the socket that was shut.  The sender ends either way.
SenderMeetsClosed(c) ==
  /\ snd[c] = "alive" /\ c \in closedOut
  /\ snd' = [snd EXCEPT ![c] = "done"]
  /\ UNCHANGED <<gvars, hs, rpc, rgame, definite, cur, cmdq, at, peer, avars>>
SenderRuns(c) ==
  /\ \/ c \notin closedOut /\ (SenderSends(c) \/ SenderFails(c))
     \/ SenderMeetsClosed(c)
  /\ UNCHANGED shvars

-----------------------------------------------------------------------------
\* ServerLogic::run ends, and Acceptor::stop shuts the listening socket.
Quit ==
  /\ stage = "serving" /\ stage' = "stopping"
  /\ UNCHANGED <<vars, clearing, cstep, closedOut, threw>>

\* accept fails, or the loop sees that it is to stop.  A reap goes on to its
\* end.
AcceptorEnds ==
  /\ stage = "stopping" /\ apc \in {"reap_games", "accept"}
  /\ stage' = "clearing"
  /\ apc' = "accept" /\ todo' = {c \in Clients : hs[c] = "up"}
  /\ UNCHANGED <<gvars, hvars, reaped, joining, snapshot, clearing, cstep, closedOut, threw>>

AcceptorRuns ==
  /\ \/ stage \in {"serving", "stopping"} /\ Acceptor
     \/ stage = "serving" /\ AcceptReturns
  /\ UNCHANGED shvars

\* Acceptor::clear joins the handlers in their order.
ClearPicks ==
  /\ stage = "clearing" /\ clearing = NoClient
  /\ \E c \in todo :
       /\ \A d \in todo : c <= d
       /\ clearing' = c /\ todo' = todo \ {c}
       /\ cstep' = IF cur[c] # NoGame THEN "players" ELSE "close"
  /\ UNCHANGED <<gvars, hvars, apc, reaped, joining, snapshot, stage, closedOut, threw>>

\* What join does with the current game, as long as it is one.
Uses == {"players", "registry", "snapshot", "broadcast"}
Clearing(label) == stage = "clearing" /\ cstep = label
Usable == cur[clearing] # NoGame /\ mem[cur[clearing]] # "freed"

ClearRemovesPlayer ==
  /\ Clearing("players") /\ Usable
  /\ players' = [players EXCEPT ![cur[clearing]] = @ \ {clearing}]
  /\ cstep' = "registry"
  /\ UNCHANGED <<mem, lobby, started, registry, cars, told, closed, loop, view, outq>>
  /\ UNCHANGED <<hvars, avars, stage, clearing, closedOut, threw>>
\* Mutant: the client stays registered.
ClearUnregisters_Skips ==
  /\ Clearing("registry") /\ cstep' = "snapshot"
  /\ UNCHANGED <<vars, stage, clearing, closedOut, threw>>
ClearUnregisters ==
  /\ Clearing("registry") /\ Usable
  /\ registry' = [registry EXCEPT ![cur[clearing]] = @ \ {clearing}]
  /\ cstep' = "snapshot"
  /\ UNCHANGED <<mem, lobby, started, players, cars, told, closed, loop, view, outq>>
  /\ UNCHANGED <<hvars, avars, stage, clearing, closedOut, threw>>
ClearBuildsSnapshot ==
  /\ Clearing("snapshot") /\ Usable
  /\ snapshot' = IF started[cur[clearing]] THEN {} ELSE players[cur[clearing]]
  /\ cstep' = IF started[cur[clearing]] THEN "forget" ELSE "broadcast"
  /\ UNCHANGED <<gvars, hvars, apc, reaped, todo, joining, stage, clearing, closedOut, threw>>
ClearBroadcasts ==
  /\ Clearing("broadcast") /\ Usable
  /\ BroadcastLobby(cur[clearing], snapshot, registry[cur[clearing]])
  /\ snapshot' = {} /\ cstep' = "forget"
  /\ UNCHANGED <<mem, lobby, started, players, registry, cars, told, closed, loop>>
  /\ UNCHANGED <<hvars, apc, reaped, todo, joining, stage, clearing, closedOut, threw>>

\* A destroyed game takes no harm and gives no answer, or ends the process.
ClearUsesFreed ==
  /\ cstep \in Uses /\ stage = "clearing" /\ cur[clearing] # NoGame /\ ~Usable
  /\ cstep' \in CASE cstep = "players" -> {"registry"} [] cstep = "registry" -> {"snapshot"}
                  [] cstep = "snapshot" -> {"broadcast", "forget"} [] OTHER -> {"forget"}
  /\ snapshot' = {}
  /\ UNCHANGED <<gvars, hvars, apc, reaped, todo, joining, stage, clearing, closedOut, threw>>

\* The receiver, too, may have tested the pointer that is cleared now, or
\* take the command queue of no game.
Crash ==
  /\ stage = "clearing"
  /\ \/ cstep \in Uses /\ ~Usable
     \/ cstep = "forget" /\ rpc[clearing] \in {"idle", "get_queue"} /\ cur[clearing] # NoGame
     \/ clearing # NoClient /\ rpc[clearing] = "get_queue" /\ cur[clearing] = NoGame
  /\ stage' = "crashed"
  /\ UNCHANGED <<vars, clearing, cstep, closedOut, threw>>

ClearForgets ==
  /\ Clearing("forget")
  /\ cur' = [cur EXCEPT ![clearing] = NoGame]
  /\ cmdq' = [cmdq EXCEPT ![clearing] = NoGame]
  /\ cstep' = "close"
  /\ UNCHANGED <<gvars, hs, rpc, rgame, definite, snd, at, peer, avars>>
  /\ UNCHANGED <<stage, clearing, closedOut, threw>>

\* Mutant: the socket stays open.
ClearCloses_LeavesOpen ==
  /\ Clearing("close")
  /\ closedOut' = closedOut
  /\ cstep' = "wait"
  /\ UNCHANGED <<vars, stage, clearing, threw>>
\* The queue is closed and the socket shut, so that both threads end.
ClearCloses ==
  /\ Clearing("close")
  /\ closedOut' = closedOut \cup {clearing}
  /\ peer' = [peer EXCEPT ![clearing] = "closed"]
  /\ cstep' = "wait"
  /\ UNCHANGED <<gvars, hs, rpc, rgame, definite, snd, cur, cmdq, at, avars>>
  /\ UNCHANGED <<stage, clearing, threw>>

ClearJoins ==
  /\ Clearing("wait") /\ rpc[clearing] = "done" /\ snd[clearing] = "done"
  /\ clearing' = NoClient /\ cstep' = "pick"
  /\ UNCHANGED <<vars, stage, closedOut, threw>>

\* clients.clear(), and the acceptor's thread ends.
ClearFrees ==
  /\ stage = "clearing" /\ clearing = NoClient /\ todo = {}
  /\ hs' = [c \in Clients |-> IF hs[c] = "up" THEN "gone" ELSE hs[c]]
  /\ cur' = [c \in Clients |-> NoGame] /\ cmdq' = [c \in Clients |-> NoGame]
  /\ stage' = "stop_all"
  /\ UNCHANGED <<gvars, rpc, rgame, definite, snd, at, peer, avars, clearing, cstep, closedOut, threw>>

Clear ==
  \/ ClearPicks \/ ClearRemovesPlayer \/ ClearUnregisters \/ ClearBuildsSnapshot \/ ClearBroadcasts
  \/ ClearUsesFreed \/ ClearForgets \/ ClearCloses \/ ClearJoins \/ ClearFrees

-----------------------------------------------------------------------------
\* The games that are left.
StopAll ==
  /\ stage = "stop_all" /\ stage' = "join_all"
  /\ closed' = [g \in Games |-> closed[g] \/ Mapped(g)]
  /\ UNCHANGED <<mem, lobby, started, players, registry, cars, told, loop, view, outq>>
  /\ UNCHANGED <<hvars, avars, clearing, cstep, closedOut, threw>>

\* They are destroyed with the manager.
JoinAll ==
  /\ stage = "join_all" /\ \A g \in Games : Mapped(g) => HasFinished(g)
  /\ Destroy({g \in Games : Mapped(g)})
  /\ stage' = "exited"
  /\ UNCHANGED <<hvars, avars, clearing, cstep, closedOut, threw>>

-----------------------------------------------------------------------------
ClientActs(c) == (ClientSeesResults(c) \/ ClientQuits(c)) /\ UNCHANGED shvars
GameRuns(g) == GameThread(g) /\ UNCHANGED shvars

\* A client may go on to a second game while a first one, that it left or
\* whose end it saw, is still in the map and lists it.
Listed(c, g) == Mapped(g) /\ (HasPlayer(g, c) \/ c \in registry[g])
InTwoGames(c) == \E g, h \in Games : g # h /\ Listed(c, g) /\ Listed(c, h)

SNext ==
  /\ Running
  /\ \/ AcceptorRuns \/ Quit \/ AcceptorEnds \/ Clear \/ Crash \/ StopAll \/ JoinAll
     \/ \E g \in Games : GameRuns(g)
     \/ \E c \in Clients : ReceiverRuns(c) \/ SenderRuns(c) \/ ClientActs(c)
  /\ twice' = twice \cup {c \in Clients : InTwoGames(c)'}

SSpec == SInit /\ [][SNext]_allvars

\* The threads of the server run.  A receiver need not get another message,
\* but finishes the one it has, and what a shut socket still holds is finite:
\* it comes to the end of it.  A sender takes what is in its queue.
StreamEnds(c) ==
  /\ c \in closedOut
  /\ CutShort(c) \/ (RecvDisconnect(c) /\ definite'[c] /\ UNCHANGED shvars)
SFairSpec ==
  /\ SSpec
  /\ WF_svars(stage \in {"serving", "stopping"} /\ Acceptor /\ UNCHANGED shvars)
  /\ WF_svars(stage = "serving" /\ AcceptReturns /\ UNCHANGED shvars)
  /\ WF_svars(AcceptorEnds \/ Clear \/ Crash \/ StopAll \/ JoinAll)
  /\ \A g \in Games : WF_svars(Running /\ LoopExits(g) /\ UNCHANGED <<hvars, avars, shvars>>)
  /\ \A c \in Clients :
       /\ WF_svars(Running /\ ReceiverBusy(c) /\ UNCHANGED shvars)
       /\ WF_svars(Running /\ SenderRuns(c))
       /\ SF_svars(Running /\ StreamEnds(c))

-----------------------------------------------------------------------------
Crashed == stage = "crashed"

\* A handler both of whose threads ended does not stay so: it is joined and
\* destroyed.  (Only its destruction ends IsFinished.)
FinishedHandlersReaped == \A c \in Clients : []<>(~IsFinished(c) \/ Crashed)

\* A game taken out of the map is destroyed: its thread ends, so the join in
\* disconnect or in the reaper returns.
DetachedGamesDestroyed == \A g \in Games : []<>(mem[g] # "detached" \/ Crashed)

\* Once stopped the server ends, and no join waits for ever: the stages are
\* only passed forward, so it rests in none between the first and the last.
ShutdownEnds == []<>(stage \in {"serving", "exited"} \/ Crashed)

\* "When a client disconnects it is taken out of the registry": a game sends
\* its events to no destroyed handler, unless an exception ended its receiver.
RegistryLetsGo ==
  \A g \in Games : \A c \in registry[g] : hs[c] = "gone" => c \in threw

\* What disconnect does keep, with any number of games: whoever takes the
\* client out of its game does so before the handler goes, also when clear and
\* the receiver do it at once.  It takes the client out of the first game that
\* lists it only, so the clients that were in two at once may stay in one.
OthersLetGo ==
  \A g \in Games : \A c \in registry[g] : hs[c] = "gone" => c \in threw \cup twice

=============================================================================
