-------------------------- MODULE SessionServerProofs --------------------------
(***************************************************************************)
(* The raw Game pointers of the connections' receivers, for any number of  *)
(* clients and games, with connections that end in any way.                *)
(***************************************************************************)
EXTENDS SessionServer, GameManagerProofs

Joins == {"join_players", "join_registry", "join_snapshot", "join_broadcast"}

\* The handler being joined has no receiver any more, a handler that was not
\* accepted has none yet, and what the threads are about to destroy or to use
\* is a game.
ThreadsInPlace ==
  /\ joining \in Clients => rpc[joining] = "done"
  /\ \A c \in Clients : hs[c] = "new" => rpc[c] = "off"
  /\ \A c \in Clients : rpc[c] \in {"stop", "destroy"} => rgame[c] \in Games
  /\ apc \in Joins => joining \in Clients /\ cur[joining] \in Games
  /\ apc # "reap_free" => reaped = {}
  /\ apc \notin Joins \cup {"join_erase"} => joining = NoClient

\* A step of the session that changes the monitor's state is a step of the
\* monitor, unless it is the reaper that destroys what it took or the acceptor
\* in ClientHandler::join.
LEMMA SessionStepsOfMonitor ==
  ASSUME ThreadsInPlace, [Next]_vars
  PROVE  [GNext]_gvars \/ ReapFree \/ JoinRemovesPlayer \/ JoinUnregisters \/ JoinBroadcasts
<1>1. ASSUME NEW c \in Clients, Receiver(c) PROVE [GNext]_gvars
  <2>1. CASE RecvCreateLobby(c)
    BY <2>1, Zenon DEF RecvCreateLobby, GNext
  <2>2. CASE RecvJoinLobby(c)
    BY <2>2, Zenon DEF RecvJoinLobby, GNext
  <2>3. CASE RecvJoinRefused(c)
    BY <2>3, Zenon DEF RecvJoinRefused, GNext
  <2>4. CASE RecvStartLobby(c)
    BY <2>4, Zenon DEF RecvStartLobby, GNext
  <2>5. CASE RecvDisconnect(c)
    BY <2>5, Zenon DEF RecvDisconnect, GNext
  <2>6. CASE RecvStopGame(c) \/ RecvDestroyGame(c)
    <3>1. rgame[c] \in Games
      BY <2>6 DEF RecvStopGame, RecvDestroyGame, ThreadsInPlace
    <3> QED
      BY <2>6, <3>1, Zenon DEF RecvStopGame, RecvDestroyGame, GNext
  <2>7. CASE \/ Attach(c) \/ RecvStarted(c) \/ RecvCommand(c) \/ PushCommand(c)
             \/ RecvForget(c) \/ RecvThrows(c)
    BY <2>7, Zenon DEF Attach, RecvStarted, RecvCommand, PushCommand, RecvForget, RecvThrows
  <2> QED
    BY <1>1, <2>1, <2>2, <2>3, <2>4, <2>5, <2>6, <2>7, Zenon DEF Receiver
<1>2. ASSUME NEW g \in Games, GameThread(g) PROVE [GNext]_gvars
  BY <1>2, Zenon DEF GameThread, GNext
<1>3. ASSUME NEW c \in Clients, SenderSends(c) \/ SenderFails(c) PROVE [GNext]_gvars
  BY <1>3, Zenon DEF SenderSends, SenderFails, GNext
<1>4. ASSUME NEW c \in Clients, Accept(c) \/ ClientSeesResults(c) \/ ClientQuits(c)
      PROVE  [GNext]_gvars
  BY <1>4, Zenon DEF Accept, ClientSeesResults, ClientQuits
<1>5. CASE ReapGames
  BY <1>5, Zenon DEF ReapGames, GNext
<1>6. CASE JoinHandler \/ JoinBuildsSnapshot \/ JoinErases \/ ReapEnds \/ AcceptFails
  BY <1>6, Zenon DEF JoinHandler, JoinBuildsSnapshot, JoinErases, ReapEnds, AcceptFails
<1>7. CASE UNCHANGED vars
  BY <1>7, Zenon DEF vars
<1> QED
  BY <1>1, <1>2, <1>3, <1>4, <1>5, <1>6, <1>7, Zenon DEF Next, Acceptor

\* Every step of the session keeps the monitor's state well typed.
LEMMA SessionMonitorTypes ==
  ASSUME TypeOK, ThreadsInPlace, [Next]_vars
  PROVE  GTypeOK'
<1> GTypeOK /\ reaped \in SUBSET Games /\ snapshot \in SUBSET Clients
  BY DEF TypeOK
<1>1. CASE [GNext]_gvars
  BY <1>1, MonitorTypesStep
<1>2. CASE ReapFree
  BY <1>2 DEF ReapFree, Destroy, Cleared, GTypeOK
<1>3. CASE JoinRemovesPlayer
  BY <1>3 DEF JoinRemovesPlayer, GTypeOK
<1>4. CASE JoinUnregisters
  BY <1>4 DEF JoinUnregisters, GTypeOK
<1>5. CASE JoinBroadcasts
  <2>1. cur[joining] \in Games
    BY <1>5 DEF JoinBroadcasts, ThreadsInPlace, Joins
  <2> QED
    BY <1>5, <2>1 DEF JoinBroadcasts, BroadcastLobby, Broadcast, GTypeOK
<1> QED
  BY <1>1, <1>2, <1>3, <1>4, <1>5, SessionStepsOfMonitor

\* The types of the connections' state, and of the acceptor's
HandlerTypes ==
  /\ hs \in [Clients -> {"new", "up", "gone"}]
  /\ rpc \in [Clients -> {"off", "idle", "attach", "get_queue", "push",
                          "stop", "destroy", "forget", "done"}]
  /\ rgame \in [Clients -> Games \cup {NoGame}]
  /\ definite \in [Clients -> BOOLEAN]
  /\ snd \in [Clients -> {"off", "alive", "done"}]
  /\ cur \in [Clients -> Games \cup {NoGame}]
  /\ cmdq \in [Clients -> Games \cup {NoGame}]
  /\ at \in [Clients -> Games \cup {NoGame}]
  /\ peer \in [Clients -> {"open", "closed"}]

AcceptorTypes ==
  /\ apc \in {"reap_games", "reap_free", "visit", "join_players", "join_registry",
              "join_snapshot", "join_broadcast", "join_erase", "accept"}
  /\ reaped \in SUBSET Games
  /\ todo \in SUBSET Clients
  /\ joining \in Clients \cup {NoClient}
  /\ snapshot \in SUBSET Clients

LEMMA TypesSplit == TypeOK <=> GTypeOK /\ HandlerTypes /\ AcceptorTypes
BY Zenon DEF TypeOK, HandlerTypes, AcceptorTypes

LEMMA HandlersUnchanged == HandlerTypes /\ UNCHANGED hvars => HandlerTypes'
BY Zenon DEF HandlerTypes, hvars

LEMMA AcceptorUnchanged == AcceptorTypes /\ UNCHANGED avars => AcceptorTypes'
BY Zenon DEF AcceptorTypes, avars

\* Every step of the session keeps the types of its state.
LEMMA SessionTypesStep ==
  ASSUME TypeOK, ThreadsInPlace, [Next]_vars
  PROVE  TypeOK'
<1>1. GTypeOK /\ HandlerTypes /\ AcceptorTypes
  BY TypesSplit
<1>2. ASSUME NEW c \in Clients, Receiver(c) PROVE HandlerTypes' /\ UNCHANGED avars
  <2>1. CASE RecvCreateLobby(c)
    BY <1>1, <2>1 DEF RecvCreateLobby, Goto, HandlerTypes
  <2>2. CASE RecvJoinLobby(c)
    BY <1>1, <2>2 DEF RecvJoinLobby, Goto, HandlerTypes
  <2>3. CASE RecvJoinRefused(c)
    BY <1>1, <2>3, HandlersUnchanged DEF RecvJoinRefused
  <2>4. CASE Attach(c)
    BY <1>1, <2>4 DEF Attach, Goto, HandlerTypes
  <2>5. CASE RecvStartLobby(c)
    BY <1>1, <2>5 DEF RecvStartLobby, Goto, HandlerTypes
  <2>6. CASE RecvStarted(c)
    BY <1>1, <2>6 DEF RecvStarted, GetQueueGameloop, Goto, HandlerTypes
  <2>7. CASE RecvCommand(c)
    BY <1>1, <2>7 DEF RecvCommand, GetQueueGameloop, Goto, HandlerTypes
  <2>8. CASE PushCommand(c)
    BY <1>1, <2>8 DEF PushCommand, Goto, HandlerTypes
  <2>9. CASE RecvDisconnect(c)
    <3>1. rpc' \in [Clients -> {"off", "idle", "attach", "get_queue", "push",
                                "stop", "destroy", "forget", "done"}]
      BY <1>1, <2>9 DEF RecvDisconnect, Goto, HandlerTypes
    <3>2. rgame' \in [Clients -> Games \cup {NoGame}] /\ at' \in [Clients -> Games \cup {NoGame}]
      BY <1>1, <2>9 DEF RecvDisconnect, HandlerTypes
    <3>3. definite' \in [Clients -> BOOLEAN]
      BY <1>1, <2>9 DEF RecvDisconnect, HandlerTypes
    <3> QED
      BY <1>1, <2>9, <3>1, <3>2, <3>3, Zenon DEF RecvDisconnect, HandlerTypes
  <2>10. CASE RecvStopGame(c)
    BY <1>1, <2>10 DEF RecvStopGame, Goto, HandlerTypes
  <2>11. CASE RecvDestroyGame(c)
    BY <1>1, <2>11 DEF RecvDestroyGame, Goto, HandlerTypes
  <2>12. CASE RecvForget(c)
    BY <1>1, <2>12 DEF RecvForget, Goto, HandlerTypes
  <2>13. CASE RecvThrows(c)
    BY <1>1, <2>13 DEF RecvThrows, Goto, HandlerTypes
  <2> QED
    BY <1>2, <2>1, <2>2, <2>3, <2>4, <2>5, <2>6, <2>7, <2>8, <2>9, <2>10, <2>11, <2>12, <2>13, Zenon DEF Receiver
<1>3. ASSUME Acceptor PROVE HandlerTypes' /\ AcceptorTypes'
  <2>1. CASE ReapGames
    <3>1. HandlerTypes'
      BY <1>1, <2>1, HandlersUnchanged DEF ReapGames
    <3>2. AcceptorTypes'
      BY <1>1, <2>1 DEF ReapGames, Reapable, AcceptorTypes
    <3> QED
      BY <3>1, <3>2
  <2>2. CASE ReapFree
    <3>1. HandlerTypes'
      BY <1>1, <2>2, HandlersUnchanged DEF ReapFree
    <3>2. AcceptorTypes'
      BY <1>1, <2>2 DEF ReapFree, AcceptorTypes
    <3> QED
      BY <3>1, <3>2
  <2>3. CASE JoinHandler
    <3>1. HandlerTypes'
      BY <1>1, <2>3, HandlersUnchanged DEF JoinHandler
    <3>2. AcceptorTypes'
      BY <1>1, <2>3 DEF JoinHandler, AcceptorTypes
    <3> QED
      BY <3>1, <3>2
  <2>4. CASE JoinRemovesPlayer
    <3>1. HandlerTypes'
      BY <1>1, <2>4, HandlersUnchanged DEF JoinRemovesPlayer
    <3>2. AcceptorTypes'
      BY <1>1, <2>4 DEF JoinRemovesPlayer, AcceptorTypes
    <3> QED
      BY <3>1, <3>2
  <2>5. CASE JoinUnregisters
    <3>1. HandlerTypes'
      BY <1>1, <2>5, HandlersUnchanged DEF JoinUnregisters
    <3>2. AcceptorTypes'
      BY <1>1, <2>5 DEF JoinUnregisters, AcceptorTypes
    <3> QED
      BY <3>1, <3>2
  <2>6. CASE JoinBuildsSnapshot
    <3>1. HandlerTypes'
      BY <1>1, <2>6, HandlersUnchanged DEF JoinBuildsSnapshot
    <3>2. AcceptorTypes'
      BY <1>1, <2>6 DEF JoinBuildsSnapshot, AcceptorTypes, ThreadsInPlace, Joins, GTypeOK
    <3> QED
      BY <3>1, <3>2
  <2>7. CASE JoinBroadcasts
    <3>1. HandlerTypes'
      BY <1>1, <2>7, HandlersUnchanged DEF JoinBroadcasts
    <3>2. AcceptorTypes'
      BY <1>1, <2>7 DEF JoinBroadcasts, AcceptorTypes
    <3> QED
      BY <3>1, <3>2
  <2>8. CASE JoinErases
    BY <1>1, <2>8 DEF JoinErases, HandlerTypes, AcceptorTypes
  <2>9. CASE ReapEnds
    <3>1. HandlerTypes'
      BY <1>1, <2>9, HandlersUnchanged DEF ReapEnds
    <3>2. AcceptorTypes'
      BY <1>1, <2>9 DEF ReapEnds, AcceptorTypes
    <3> QED
      BY <3>1, <3>2
  <2> QED
    BY <1>3, <2>1, <2>2, <2>3, <2>4, <2>5, <2>6, <2>7, <2>8, <2>9, Zenon DEF Acceptor
<1>4. ASSUME NEW c \in Clients, Accept(c) PROVE HandlerTypes' /\ AcceptorTypes'
  BY <1>1, <1>4 DEF Accept, HandlerTypes, AcceptorTypes
<1>5. ASSUME NEW c \in Clients, SenderSends(c) \/ SenderFails(c)
      PROVE  HandlerTypes' /\ UNCHANGED avars
  BY <1>1, <1>5, HandlersUnchanged DEF SenderSends, SenderFails, HandlerTypes
<1>6. ASSUME NEW c \in Clients, ClientSeesResults(c) \/ ClientQuits(c)
      PROVE  HandlerTypes' /\ UNCHANGED avars
  BY <1>1, <1>6 DEF ClientSeesResults, ClientQuits, HandlerTypes
<1>7. ASSUME NEW g \in Games, GameThread(g) PROVE UNCHANGED <<hvars, avars>>
  BY <1>7 DEF GameThread
<1>8. ASSUME AcceptFails PROVE UNCHANGED hvars /\ AcceptorTypes'
  BY <1>1, <1>8 DEF AcceptFails, AcceptorTypes
<1>9. ASSUME UNCHANGED vars PROVE UNCHANGED <<hvars, avars>>
  BY <1>9 DEF vars
<1>10. HandlerTypes' /\ AcceptorTypes'
  BY <1>1, <1>2, <1>3, <1>4, <1>5, <1>6, <1>7, <1>8, <1>9, HandlersUnchanged, AcceptorUnchanged
     DEF Next
<1> QED
  BY <1>10, SessionMonitorTypes, TypesSplit, PTL

\* The threads stay where ThreadsInPlace puts them: a receiver that is done
\* makes no step, and the acceptor starts one only for a new handler.
LEMMA ThreadsInPlaceStep ==
  ASSUME TypeOK, ThreadsInPlace, [Next]_vars
  PROVE  ThreadsInPlace'
<1> USE PointersAssumption DEF ThreadsInPlace, Joins
<1>1. HandlerTypes /\ AcceptorTypes
  BY TypesSplit
<1> USE DEF HandlerTypes, AcceptorTypes
<1>2. ASSUME NEW c \in Clients, Receiver(c) PROVE ThreadsInPlace'
  <2>1. CASE RecvCreateLobby(c)
    BY <1>1, <2>1 DEF RecvCreateLobby, Reading, Goto, avars
  <2>2. CASE RecvJoinLobby(c)
    BY <1>1, <2>2 DEF RecvJoinLobby, Reading, Goto, avars
  <2>3. CASE RecvJoinRefused(c)
    BY <1>1, <2>3 DEF RecvJoinRefused, hvars, avars
  <2>4. CASE Attach(c)
    BY <1>1, <2>4 DEF Attach, Reading, Goto, avars
  <2>5. CASE RecvStartLobby(c)
    BY <1>1, <2>5 DEF RecvStartLobby, Reading, Goto, avars
  <2>6. CASE RecvStarted(c)
    BY <1>1, <2>6 DEF RecvStarted, GetQueueGameloop, Goto, avars
  <2>7. CASE RecvCommand(c)
    BY <1>1, <2>7 DEF RecvCommand, GetQueueGameloop, Goto, Reading, avars
  <2>8. CASE PushCommand(c)
    BY <1>1, <2>8 DEF PushCommand, Reading, Goto, avars
  <2>9. CASE RecvDisconnect(c)
    BY <1>1, <2>9 DEF RecvDisconnect, Reading, Goto, avars
  <2>10. CASE RecvStopGame(c)
    BY <1>1, <2>10 DEF RecvStopGame, Reading, Goto, avars
  <2>11. CASE RecvDestroyGame(c)
    BY <1>1, <2>11 DEF RecvDestroyGame, Reading, Goto, avars
  <2>12. CASE RecvForget(c)
    BY <1>1, <2>12 DEF RecvForget, Reading, Goto, avars
  <2>13. CASE RecvThrows(c)
    BY <1>1, <2>13 DEF RecvThrows, Reading, Goto, avars
  <2> QED
    BY <1>2, <2>1, <2>2, <2>3, <2>4, <2>5, <2>6, <2>7, <2>8, <2>9, <2>10, <2>11, <2>12, <2>13, Zenon DEF Receiver
<1>3. ASSUME Acceptor PROVE ThreadsInPlace'
  <2>1. CASE ReapGames
    BY <1>1, <2>1 DEF ReapGames, hvars
  <2>2. CASE ReapFree
    BY <1>1, <2>2 DEF ReapFree, hvars
  <2>3. CASE JoinHandler
    BY <1>1, <2>3 DEF JoinHandler, hvars, NextFinished, IsFinished
  <2>4. CASE JoinRemovesPlayer
    BY <1>1, <2>4 DEF JoinRemovesPlayer, hvars
  <2>5. CASE JoinUnregisters
    BY <1>1, <2>5 DEF JoinUnregisters, hvars
  <2>6. CASE JoinBuildsSnapshot
    BY <1>1, <2>6 DEF JoinBuildsSnapshot, hvars
  <2>7. CASE JoinBroadcasts
    BY <1>1, <2>7 DEF JoinBroadcasts, hvars
  <2>8. CASE JoinErases
    BY <1>1, <2>8 DEF JoinErases, hvars
  <2>9. CASE ReapEnds
    BY <1>1, <2>9 DEF ReapEnds, hvars
  <2> QED
    BY <1>3, <2>1, <2>2, <2>3, <2>4, <2>5, <2>6, <2>7, <2>8, <2>9, Zenon DEF Acceptor
<1>4. ASSUME NEW c \in Clients, Accept(c) PROVE ThreadsInPlace'
  BY <1>1, <1>4 DEF Accept
<1>5. ASSUME NEW c \in Clients, SenderSends(c) \/ SenderFails(c) PROVE ThreadsInPlace'
  BY <1>1, <1>5 DEF SenderSends, SenderFails, hvars, avars
<1>6. ASSUME NEW c \in Clients, ClientSeesResults(c) \/ ClientQuits(c) PROVE ThreadsInPlace'
  BY <1>1, <1>6 DEF ClientSeesResults, ClientQuits, avars
<1>7. ASSUME UNCHANGED <<hvars, avars>> PROVE ThreadsInPlace'
  BY <1>1, <1>7 DEF hvars, avars
<1>8. ASSUME AcceptFails PROVE ThreadsInPlace'
  BY <1>1, <1>8 DEF AcceptFails, hvars
<1> QED
  BY <1>2, <1>3, <1>4, <1>5, <1>6, <1>7, <1>8 DEF Next, GameThread, vars

\* Held(c, g): g is one of the pointers of c, spelled out.
Held(c, g) == g = cur[c] \/ g = cmdq[c] \/ (rpc[c] = "attach" /\ g = rgame[c])
Live ==
  \A c \in Clients, g \in Games :
    ~Leaving(c) /\ Held(c, g) => mem[g] = "mapped" /\ c \in registry[g]

LEMMA LiveMeansLive ==
  ASSUME TypeOK, Live
  PROVE  ReceiverPointersLive
<1> SUFFICES ASSUME NEW c \in Clients, ~Leaving(c), NEW g \in Holds(c)
             PROVE  Mapped(g) /\ c \in registry[g]
  BY DEF ReceiverPointersLive
<1>1. g \in Games /\ Held(c, g)
  BY DEF Holds, Held, TypeOK
<1> QED
  BY <1>1 DEF Live, Mapped

\* What a step must do to keep Live: a client that still uses a pointer had it
\* before, or got it on a game that lists the client, and the games that are
\* in use stay.
LEMMA LiveKept ==
  ASSUME Live,
         \A c \in Clients, g \in Games :
           ~Leaving(c)' /\ Held(c, g)' =>
             \/ mem'[g] = "mapped" /\ c \in registry'[g]
             \/ ~Leaving(c) /\ Held(c, g),
         \A c \in Clients, g \in Games :
           mem[g] = "mapped" /\ c \in registry[g] /\ ~Leaving(c)' =>
             mem'[g] = "mapped" /\ c \in registry'[g]
  PROVE  Live'
BY DEF Live

\* A step that moves nobody into or out of the destruction of a game
LEMMA DestroyersKept ==
  ASSUME OneDestroyer, UNCHANGED <<mem, reaped>>,
         \A c \in Clients, g \in Games : Destroys(c, g)' <=> Destroys(c, g)
  PROVE  OneDestroyer'
BY DEF OneDestroyer

\* A game is detached for one destroyer: disconnect detaches only a game that
\* is in the map, the reaper too, and each one destroys what it detached.
LEMMA OneDestroyerStep ==
  ASSUME TypeOK, ThreadsInPlace, OneDestroyer, [Next]_vars
  PROVE  OneDestroyer'
<1>1. GTypeOK /\ HandlerTypes /\ AcceptorTypes
  BY TypesSplit
<1> DEFINE SameDestroyers ==
      /\ UNCHANGED <<mem, reaped>>
      /\ \A c \in Clients, g \in Games : Destroys(c, g)' <=> Destroys(c, g)
<1>2. ASSUME NEW c \in Clients, Receiver(c) PROVE OneDestroyer'
  <2>1. ASSUME RecvJoinRefused(c) PROVE SameDestroyers
    BY <1>1, <2>1 DEF RecvJoinRefused, RefuseJoin, hvars, Reading, Goto, gvars, avars, Destroys, HandlerTypes
  <2>2. ASSUME Attach(c) PROVE SameDestroyers
    BY <1>1, <2>2 DEF Attach, Reading, Goto, gvars, avars, Destroys, HandlerTypes
  <2>3. ASSUME RecvStartLobby(c) PROVE SameDestroyers
    BY <1>1, <2>3 DEF RecvStartLobby, StartLobby, Reading, Goto, gvars, avars, Destroys, HandlerTypes
  <2>4. ASSUME RecvStarted(c) PROVE SameDestroyers
    BY <1>1, <2>4 DEF RecvStarted, GetQueueGameloop, Reading, Goto, gvars, avars, Destroys, HandlerTypes
  <2>5. ASSUME RecvCommand(c) PROVE SameDestroyers
    BY <1>1, <2>5 DEF RecvCommand, GetQueueGameloop, Reading, Goto, gvars, avars, Destroys, HandlerTypes
  <2>6. ASSUME PushCommand(c) PROVE SameDestroyers
    BY <1>1, <2>6 DEF PushCommand, Reading, Goto, gvars, avars, Destroys, HandlerTypes
  <2>7. ASSUME RecvStopGame(c) PROVE SameDestroyers
    BY <1>1, <2>7 DEF RecvStopGame, StopGame, Reading, Goto, gvars, avars, Destroys, HandlerTypes
  <2>8. ASSUME RecvForget(c) PROVE SameDestroyers
    BY <1>1, <2>8 DEF RecvForget, Reading, Goto, gvars, avars, Destroys, HandlerTypes
  <2>9. ASSUME RecvThrows(c) PROVE SameDestroyers
    BY <1>1, <2>9 DEF RecvThrows, Reading, Goto, gvars, avars, Destroys, HandlerTypes
  <2>10. ASSUME RecvJoinLobby(c) PROVE SameDestroyers
    BY <1>1, <2>10 DEF RecvJoinLobby, JoinLobby, Reading, Goto, gvars, avars, Destroys, HandlerTypes
  <2>11. CASE RecvCreateLobby(c)
    BY <1>1, <2>11 DEF RecvCreateLobby, CreateLobbyAndJoin, Reading, Goto, avars, OneDestroyer,
                       Destroys, GTypeOK, HandlerTypes, AcceptorTypes
  <2>12. CASE RecvDestroyGame(c)
    BY <1>1, <2>12 DEF RecvDestroyGame, DestroyGame, Destroy, Cleared, Reading, Goto, avars,
                       OneDestroyer, Destroys, ThreadsInPlace, GTypeOK, HandlerTypes, AcceptorTypes
  <2>13. CASE RecvDisconnect(c)
    <3>1. CASE UNCHANGED <<gvars, rgame>> /\ Goto(c, "forget")
      <4>1. SameDestroyers
        BY <1>1, <2>13, <3>1 DEF RecvDisconnect, Reading, Goto, gvars, avars, Destroys, HandlerTypes
      <4> QED
        BY <4>1, DestroyersKept
    <3>2. ASSUME NEW g \in Games, DisconnectFrom(c, g),
                 rgame' = [rgame EXCEPT ![c] = IF mem'[g] = "detached" THEN g ELSE NoGame],
                 Goto(c, IF mem'[g] = "detached" THEN "stop" ELSE "forget")
          PROVE  OneDestroyer'
      <4>1. Leaves(c, g)
        BY <3>2, DisconnectLeaves
      <4>2. mem[g] = "mapped" /\ (mem' = mem \/ mem' = [mem EXCEPT ![g] = "detached"])
        BY <1>1, <4>1 DEF Leaves, GTypeOK
      <4>3. rpc[c] = "idle" /\ reaped' = reaped
        BY <2>13 DEF RecvDisconnect, Reading, avars
      <4>4. CASE mem' = mem
        <5>1. SameDestroyers
          BY <1>1, <3>2, <4>2, <4>3, <4>4 DEF Goto, Destroys, HandlerTypes
        <5> QED
          BY <5>1, DestroyersKept
      <4>5. CASE mem' = [mem EXCEPT ![g] = "detached"]
        <5>1. /\ mem'[g] = "detached" /\ Destroys(c, g)'
              /\ \A h \in Games : h # g => mem'[h] = mem[h]
          BY <1>1, <3>2, <4>5 DEF Goto, Destroys, HandlerTypes, GTypeOK
        <5>2. \A d \in Clients, h \in Games : d # c => (Destroys(d, h)' <=> Destroys(d, h))
          BY <1>1, <3>2 DEF Goto, Destroys, HandlerTypes
        <5>3. \A h \in Games : ~Destroys(c, h) /\ (Destroys(c, h)' => h = g)
          BY <1>1, <3>2, <4>3, <5>1 DEF Goto, Destroys, HandlerTypes
        <5>4. g \notin reaped /\ \A d \in Clients : ~Destroys(d, g)
          BY <4>2 DEF OneDestroyer
        <5> QED
          BY <1>1, <4>2, <4>3, <5>1, <5>2, <5>3, <5>4 DEF OneDestroyer, AcceptorTypes
      <4> QED
        BY <4>2, <4>4, <4>5
    <3> QED
      BY <2>13, <3>1, <3>2 DEF RecvDisconnect
  <2> QED
    BY <1>2, DestroyersKept, <2>1, <2>2, <2>3, <2>4, <2>5, <2>6, <2>7, <2>8, <2>9, <2>10, <2>11, <2>12, <2>13 DEF Receiver
<1>3. CASE ReapGames
  BY <1>1, <1>3 DEF ReapGames, ReapFinishedGames, Reapable, Mapped, hvars, OneDestroyer, Destroys,
                    ThreadsInPlace, GTypeOK, AcceptorTypes
<1>4. CASE ReapFree
  BY <1>1, <1>4 DEF ReapFree, Destroy, Cleared, hvars, OneDestroyer, Destroys, GTypeOK, AcceptorTypes
<1>5. ASSUME \/ JoinHandler \/ JoinRemovesPlayer \/ JoinUnregisters \/ JoinBuildsSnapshot
             \/ JoinBroadcasts \/ JoinErases \/ ReapEnds \/ AcceptFails
      PROVE  UNCHANGED <<mem, reaped, rpc, rgame>>
  BY <1>5, Zenon DEF JoinHandler, JoinRemovesPlayer, JoinUnregisters, JoinBuildsSnapshot, JoinBroadcasts,
                     JoinErases, ReapEnds, AcceptFails, gvars, hvars
<1>6. ASSUME NEW c \in Clients,
             SenderSends(c) \/ SenderFails(c) \/ ClientSeesResults(c) \/ ClientQuits(c)
      PROVE  UNCHANGED <<mem, reaped, rpc, rgame>>
  BY <1>6, Zenon DEF SenderSends, SenderFails, ClientSeesResults, ClientQuits, Drain, gvars, hvars, avars
<1>7. ASSUME NEW g \in Games, GameThread(g) PROVE UNCHANGED <<mem, reaped, rpc, rgame>>
  BY <1>7, Zenon DEF GameThread, TournamentOver, LoopExits, LoopCrashes, LoopBroadcasts, hvars, avars
<1>8. ASSUME UNCHANGED vars PROVE UNCHANGED <<mem, reaped, rpc, rgame>>
  BY <1>8, Zenon DEF vars, gvars, hvars, avars
<1>9. ASSUME UNCHANGED <<mem, reaped, rpc, rgame>> PROVE SameDestroyers
  BY <1>9 DEF Destroys
<1>10. ASSUME NEW c \in Clients, Accept(c) PROVE SameDestroyers
  <2>1. rpc[c] = "off"
    BY <1>10 DEF Accept, ThreadsInPlace
  <2> QED
    BY <1>1, <1>10, <2>1 DEF Accept, gvars, Destroys, HandlerTypes
<1> QED
  BY <1>2, <1>3, <1>4, <1>5, <1>6, <1>7, <1>8, <1>9, <1>10, DestroyersKept DEF Next, Acceptor

\* Every step keeps the pointers in use on games that are in the map.
LEMMA LiveStep ==
  ASSUME TypeOK, ThreadsInPlace, OneDestroyer, Live, [Next]_vars
  PROVE  Live'
<1> USE PointersAssumption DEF ThreadsInPlace, OneDestroyer, Destroys, Live, Held, Leaving
<1>1. GTypeOK /\ HandlerTypes /\ AcceptorTypes
  BY TypesSplit
<1> USE DEF GTypeOK, HandlerTypes, AcceptorTypes
<1>2. ASSUME NEW c \in Clients, Receiver(c) PROVE Live'
  <2>1. CASE RecvCreateLobby(c)
    BY <1>1, <2>1 DEF RecvCreateLobby, CreateLobbyAndJoin, Reading, Goto, gvars, avars
  <2>2. CASE RecvJoinLobby(c)
    <3>1. PICK g \in Games : /\ registry' = [registry EXCEPT ![g] = @ \cup {c}]
                             /\ mem' = mem /\ mem[g] = "mapped"
                             /\ rgame' = [rgame EXCEPT ![c] = g]
      BY <2>2, Zenon DEF RecvJoinLobby, JoinLobby, Mapped
    <3>2. \A d \in Clients, h \in Games :
            d \in registry[h] \/ (d = c /\ h = g) => d \in registry'[h]
      BY <1>1, <3>1 DEF GTypeOK
    <3>3. \A d \in Clients, h \in Games :
            ~Leaving(d)' /\ Held(d, h)' => ~Leaving(d) /\ (Held(d, h) \/ (d = c /\ h = g))
      BY <1>1, <2>2, <3>1 DEF RecvJoinLobby, Reading, Goto, avars, HandlerTypes, Leaving, Held
    <3> QED
      BY <3>1, <3>2, <3>3 DEF Live
  <2>3. CASE RecvJoinRefused(c)
    BY <1>1, <2>3 DEF RecvJoinRefused, RefuseJoin, hvars, Reading, Goto, gvars, avars
  <2>4. CASE Attach(c)
    BY <1>1, <2>4 DEF Attach, Reading, Goto, gvars, avars
  <2>5. CASE RecvStartLobby(c)
    BY <1>1, <2>5 DEF RecvStartLobby, StartLobby, Reading, Goto, gvars, avars
  <2>6. CASE RecvStarted(c)
    BY <1>1, <2>6 DEF RecvStarted, GetQueueGameloop, Reading, Goto, gvars, avars
  <2>7. CASE RecvCommand(c)
    BY <1>1, <2>7 DEF RecvCommand, GetQueueGameloop, Reading, Goto, gvars, avars
  <2>8. CASE PushCommand(c)
    BY <1>1, <2>8 DEF PushCommand, Reading, Goto, gvars, avars
  <2>9. CASE RecvDisconnect(c)
    <3>1. CASE UNCHANGED <<gvars, rgame>> /\ Goto(c, "forget")
      <4>1. rpc' = [rpc EXCEPT ![c] = "forget"] /\ rpc[c] = "idle"
            /\ UNCHANGED <<mem, registry, rgame, cur, cmdq, joining>>
        BY <2>9, <3>1, Zenon DEF RecvDisconnect, Reading, Goto, gvars, avars
      <4> QED
        BY <1>1, <4>1 DEF Live, Held, Leaving, HandlerTypes
    <3>2. ASSUME NEW g \in Games, DisconnectFrom(c, g),
                 rgame' = [rgame EXCEPT ![c] = IF mem'[g] = "detached" THEN g ELSE NoGame],
                 Goto(c, IF mem'[g] = "detached" THEN "stop" ELSE "forget")
          PROVE  Live'
      <4>1. Leaves(c, g)
        BY <3>2, DisconnectLeaves
      <4> QED
        BY <1>1, <2>9, <3>2, <4>1 DEF RecvDisconnect, Reading, Goto, Leaves, gvars, avars
    <3> QED
      BY <2>9, <3>1, <3>2 DEF RecvDisconnect
  <2>10. CASE RecvStopGame(c)
    BY <1>1, <2>10 DEF RecvStopGame, StopGame, Reading, Goto, gvars, avars
  <2>11. CASE RecvDestroyGame(c)
    BY <1>1, <2>11 DEF RecvDestroyGame, DestroyGame, Destroy, Cleared, Reading, Goto, gvars, avars
  <2>12. CASE RecvForget(c)
    BY <1>1, <2>12 DEF RecvForget, Reading, Goto, gvars, avars
  <2>13. CASE RecvThrows(c)
    BY <1>1, <2>13 DEF RecvThrows, Reading, Goto, gvars, avars
  <2> QED
    BY <1>2, <2>1, <2>2, <2>3, <2>4, <2>5, <2>6, <2>7, <2>8, <2>9, <2>10, <2>11, <2>12, <2>13, Zenon DEF Receiver
<1>3. ASSUME Acceptor PROVE Live'
  <2>1. CASE ReapGames
    BY <1>1, <2>1 DEF ReapGames, ReapFinishedGames, Reapable, Mapped, IsEmpty, gvars, hvars
  <2>2. CASE ReapFree
    BY <1>1, <2>2 DEF ReapFree, Destroy, Cleared, gvars, hvars
  <2>3. CASE JoinHandler
    <3>1. PICK c \in Clients : joining' = c /\ rpc[c] = "done"
      BY <2>3, Zenon DEF JoinHandler, NextFinished, IsFinished
    <3>2. UNCHANGED <<mem, registry, rpc, rgame, cur, cmdq>>
      BY <2>3, Zenon DEF JoinHandler, gvars, hvars
    <3>3. joining = NoClient
      BY <2>3 DEF JoinHandler, Joins
    <3> QED
      BY <1>1, <3>1, <3>2, <3>3
  <2>4. CASE JoinRemovesPlayer
    BY <1>1, <2>4 DEF JoinRemovesPlayer, gvars, hvars
  <2>5. CASE JoinUnregisters
    BY <1>1, <2>5 DEF JoinUnregisters, gvars, hvars
  <2>6. CASE JoinBuildsSnapshot
    BY <1>1, <2>6 DEF JoinBuildsSnapshot, gvars, hvars
  <2>7. CASE JoinBroadcasts
    BY <1>1, <2>7 DEF JoinBroadcasts, BroadcastLobby, gvars, hvars
  <2>8. CASE JoinErases
    BY <1>1, <2>8 DEF JoinErases, gvars, hvars
  <2>9. CASE ReapEnds
    BY <1>1, <2>9 DEF ReapEnds, gvars, hvars
  <2> QED
    BY <1>3, <2>1, <2>2, <2>3, <2>4, <2>5, <2>6, <2>7, <2>8, <2>9, Zenon DEF Acceptor
<1>4. ASSUME NEW c \in Clients, Accept(c) PROVE Live'
  BY <1>1, <1>4 DEF Accept, gvars
<1>5. ASSUME NEW c \in Clients, SenderSends(c) \/ SenderFails(c) PROVE Live'
  BY <1>1, <1>5 DEF SenderSends, SenderFails, Drain, hvars, avars
<1>6. ASSUME NEW c \in Clients, ClientSeesResults(c) \/ ClientQuits(c) PROVE Live'
  BY <1>1, <1>6 DEF ClientSeesResults, ClientQuits, gvars, avars
<1>7. ASSUME NEW g \in Games, GameThread(g) PROVE Live'
  BY <1>1, <1>7 DEF GameThread, TournamentOver, LoopExits, LoopCrashes, LoopBroadcasts, hvars, avars
<1>8. ASSUME AcceptFails PROVE Live'
  BY <1>1, <1>8 DEF AcceptFails, gvars, hvars
<1>9. ASSUME UNCHANGED vars PROVE Live'
  BY <1>1, <1>9 DEF vars, gvars, hvars, avars
<1> QED
  BY <1>2, <1>3, <1>4, <1>5, <1>6, <1>7, <1>8, <1>9 DEF Next

-----------------------------------------------------------------------------
IInv == TypeOK /\ ThreadsInPlace /\ OneDestroyer /\ Live

LEMMA SessionInduction == Spec => []IInv
<1>1. Init => IInv
  <2> SUFFICES ASSUME Init PROVE IInv
    OBVIOUS
  <2>1. GTypeOK
    BY DEF Init, GInit, GTypeOK
  <2>2. HandlerTypes
    BY DEF Init, HandlerTypes
  <2>3. AcceptorTypes
    BY DEF Init, AcceptorTypes
  <2>4. ThreadsInPlace /\ OneDestroyer /\ Live
    BY PointersAssumption DEF Init, GInit, ThreadsInPlace, Joins, OneDestroyer, Destroys, Live, Held
  <2> QED
    BY <2>1, <2>2, <2>3, <2>4, TypesSplit DEF IInv
<1>2. IInv /\ [Next]_vars => IInv'
  BY SessionTypesStep, ThreadsInPlaceStep, OneDestroyerStep, LiveStep DEF IInv
<1> QED
  BY <1>1, <1>2, PTL DEF Spec

\* The state of the server is well typed in every behaviour.
THEOREM SessionsWellTyped == Spec => []TypeOK
BY SessionInduction, PTL DEF IInv

\* No receiver ever uses a destroyed game, for any number of clients and
\* games: neither through current_game nor through game_cmd_q, whoever leaves
\* and whatever the reaper does in between.
THEOREM ReceiversUseLiveGames == Spec => []ReceiverPointersLive
<1>1. IInv => ReceiverPointersLive
  BY LiveMeansLive DEF IInv
<1> QED
  BY <1>1, SessionInduction, PTL

\* A game taken out of the map is destroyed by one thread, once.
THEOREM GamesDestroyedOnce == Spec => []OneDestroyer
BY SessionInduction, PTL DEF IInv

-----------------------------------------------------------------------------
\* Between the two unlocked steps of join the client is no player any more.
LeftFirst == apc = "join_registry" => joining \notin players[cur[joining]]

\* The operations of the monitor keep the players among the registered.
LEMMA MonitorKeepsRegistered ==
  ASSUME GTypeOK, PlayersRegistered, [GNext]_gvars
  PROVE  PlayersRegistered'
<1> USE DEF PlayersRegistered, Mapped
<1>1. CASE ReapFinishedGames
  BY <1>1 DEF ReapFinishedGames, GTypeOK
<1>2. ASSUME NEW g \in Games, StartLobby(g) PROVE PlayersRegistered'
  BY <1>2 DEF StartLobby, GTypeOK
<1>3. ASSUME NEW g \in Games,
             \/ StopGame(g) \/ TournamentOver(g) \/ LoopExits(g) \/ LoopCrashes(g)
             \/ LoopBroadcasts(g)
      PROVE  PlayersRegistered'
  BY <1>3 DEF StopGame, TournamentOver, LoopExits, LoopCrashes, LoopBroadcasts
<1>4. ASSUME NEW g \in Games, DestroyGame(g) PROVE PlayersRegistered'
  BY <1>4 DEF DestroyGame, Destroy, Cleared, GTypeOK
<1>5. ASSUME NEW c \in Clients, Drain(c) PROVE PlayersRegistered'
  BY <1>5 DEF Drain
<1>6. ASSUME NEW c \in Clients, NEW id, RefuseJoin(c, id) PROVE PlayersRegistered'
  BY <1>6 DEF RefuseJoin
<1>7. ASSUME NEW c \in Clients, NEW g \in Games, CreateLobbyAndJoin(c, g)
      PROVE  PlayersRegistered'
  BY <1>7 DEF CreateLobbyAndJoin, GTypeOK
<1>8. ASSUME NEW c \in Clients, NEW g \in Games, JoinLobby(c, g) PROVE PlayersRegistered'
  BY <1>8 DEF JoinLobby, GTypeOK
<1>9. ASSUME NEW c \in Clients, NEW g \in Games, DisconnectFrom(c, g)
      PROVE  PlayersRegistered'
  BY <1>9 DEF DisconnectFrom, OnDisconnect, GTypeOK
<1>10. CASE UNCHANGED gvars
  BY <1>10 DEF gvars
<1> QED
  BY <1>1, <1>2, <1>3, <1>4, <1>5, <1>6, <1>7, <1>8, <1>9, <1>10, Zenon DEF GNext

\* A receiver makes nobody a player but its own client, and changes no other
\* client's handler.
LEMMA ReceiverAddsItself ==
  ASSUME IInv, NEW c \in Clients, Receiver(c)
  PROVE  /\ rpc[c] # "done" /\ UNCHANGED avars
         /\ \A g \in Games : players'[g] \subseteq players[g] \cup {c}
         /\ \A d \in Clients \ {c} : cur'[d] = cur[d]
<1>1. GTypeOK /\ HandlerTypes /\ AcceptorTypes
  BY TypesSplit DEF IInv
<1> USE DEF HandlerTypes
<1>2. CASE RecvCreateLobby(c)
  BY <1>1, <1>2 DEF RecvCreateLobby, Reading, CreateLobbyAndJoin, GTypeOK, avars
<1>3. CASE RecvJoinLobby(c)
  BY <1>1, <1>3 DEF RecvJoinLobby, Reading, JoinLobby, GTypeOK, avars
<1>4. CASE RecvJoinRefused(c)
  BY <1>4 DEF RecvJoinRefused, Reading, RefuseJoin, hvars, avars
<1>5. CASE Attach(c) \/ RecvForget(c)
  BY <1>1, <1>5 DEF Attach, RecvForget, gvars, avars
<1>6. CASE RecvStartLobby(c)
  BY <1>6 DEF RecvStartLobby, Reading, StartLobby, avars
<1>7. CASE RecvStarted(c) \/ RecvCommand(c)
  BY <1>1, <1>7 DEF RecvStarted, RecvCommand, Reading, GetQueueGameloop, gvars, avars
<1>8. CASE PushCommand(c) \/ RecvThrows(c)
  BY <1>8 DEF PushCommand, RecvThrows, Reading, gvars, avars
<1>9. CASE RecvDisconnect(c)
  <2> DEFINE Fewer == \A g \in Games : players'[g] \subseteq players[g]
  <2>1. Fewer
    <3>1. ASSUME NEW h \in Games, DisconnectFrom(c, h) PROVE Fewer
      <4>1. players' = [players EXCEPT ![h] = @ \ {c}] \/ players' = players
        BY <3>1, Zenon DEF DisconnectFrom, OnDisconnect
      <4>2. players \in [Games -> SUBSET Clients]
        BY <1>1 DEF GTypeOK
      <4> QED
        BY <4>1, <4>2
    <3>2. CASE UNCHANGED gvars
      BY <3>2 DEF gvars
    <3> HIDE DEF Fewer
    <3> QED
      BY <1>9, <3>1, <3>2, Zenon DEF RecvDisconnect
  <2> QED
    BY <1>9, <2>1 DEF RecvDisconnect, Reading, avars
<1>10. CASE RecvStopGame(c)
  BY <1>10 DEF RecvStopGame, StopGame, avars
<1>11. CASE RecvDestroyGame(c)
  BY <1>1, <1>11 DEF RecvDestroyGame, DestroyGame, Destroy, Cleared, GTypeOK, avars
<1> QED
  BY <1>2, <1>3, <1>4, <1>5, <1>6, <1>7, <1>8, <1>9, <1>10, <1>11, Zenon DEF Receiver

LEMMA PlayersRegisteredStep ==
  ASSUME IInv, PlayersRegistered, LeftFirst, [Next]_vars
  PROVE  PlayersRegistered' /\ LeftFirst'
<1>1. GTypeOK /\ HandlerTypes /\ AcceptorTypes /\ ThreadsInPlace
  BY TypesSplit DEF IInv
<1>2. PlayersRegistered'
  <2>1. CASE [GNext]_gvars
    BY <1>1, <2>1, MonitorKeepsRegistered
  <2>2. CASE ReapFree
    BY <1>1, <2>2 DEF ReapFree, Destroy, Cleared, PlayersRegistered, Mapped, GTypeOK
  <2>3. CASE JoinRemovesPlayer
    BY <1>1, <2>3 DEF JoinRemovesPlayer, PlayersRegistered, Mapped, GTypeOK
  <2>4. CASE JoinUnregisters
    BY <1>1, <2>4 DEF JoinUnregisters, PlayersRegistered, Mapped, LeftFirst, GTypeOK
  <2>5. CASE JoinBroadcasts
    BY <2>5 DEF JoinBroadcasts, PlayersRegistered, Mapped
  <2> QED
    BY <1>1, <2>1, <2>2, <2>3, <2>4, <2>5, SessionStepsOfMonitor
<1>3. LeftFirst'
  <2> SUFFICES ASSUME apc' = "join_registry" PROVE joining' \notin players'[cur'[joining']]
    BY DEF LeftFirst
  <2>1. CASE JoinRemovesPlayer
    BY <1>1, <2>1 DEF JoinRemovesPlayer, ThreadsInPlace, Joins, GTypeOK, hvars
  <2>2. ASSUME NEW c \in Clients, Receiver(c) PROVE joining' \notin players'[cur'[joining']]
    BY <1>1, <2>2, ReceiverAddsItself DEF ThreadsInPlace, Joins, LeftFirst, avars
  <2>3. ASSUME NEW g \in Games, GameThread(g) PROVE joining' \notin players'[cur'[joining']]
    BY <2>3 DEF GameThread, TournamentOver, LoopExits, LoopCrashes, LoopBroadcasts, LeftFirst,
         hvars, avars
  <2>4. ASSUME NEW c \in Clients,
               SenderSends(c) \/ SenderFails(c) \/ ClientSeesResults(c) \/ ClientQuits(c)
        PROVE  joining' \notin players'[cur'[joining']]
    BY <2>4 DEF SenderSends, SenderFails, Drain, ClientSeesResults, ClientQuits, LeftFirst,
         gvars, hvars, avars
  <2>5. CASE UNCHANGED vars
    BY <2>5 DEF vars, gvars, hvars, avars, LeftFirst
  <2>6. ~(\/ ReapGames \/ ReapFree \/ JoinHandler \/ JoinUnregisters \/ JoinBuildsSnapshot
          \/ JoinBroadcasts \/ JoinErases \/ ReapEnds \/ AcceptFails)
    BY DEF ReapGames, ReapFree, JoinHandler, JoinUnregisters, JoinBuildsSnapshot, JoinBroadcasts,
       JoinErases, ReapEnds, AcceptFails
  <2>7. \A c \in Clients : ~Accept(c)
    BY DEF Accept
  <2> QED
    BY <2>1, <2>2, <2>3, <2>4, <2>5, <2>6, <2>7, Zenon DEF Next, Acceptor
<1> QED
  BY <1>2, <1>3

\* A lobby that waits lists no client that would get no events, although the
\* acceptor takes a client out of a game in two steps without the manager's
\* mutex: the player goes first.
THEOREM PlayersAreRegistered == Spec => []PlayersRegistered
<1>1. Init => PlayersRegistered /\ LeftFirst
  BY DEF Init, GInit, PlayersRegistered, LeftFirst, Mapped
<1>2. IInv /\ PlayersRegistered /\ LeftFirst /\ [Next]_vars => PlayersRegistered' /\ LeftFirst'
  BY PlayersRegisteredStep
<1> QED
  BY <1>1, <1>2, SessionInduction, PTL DEF Spec

-----------------------------------------------------------------------------
\* When every receiver ends by the peer's close, join finds no current game
\* and the reaper no empty one.
Orderly ==
  /\ NoAbandonedGame
  /\ reaped = {} /\ apc \notin Joins \cup {"reap_free"}
  /\ \A c \in Clients : rpc[c] = "done" => cur[c] = NoGame

LEMMA OrderlySteps ==
  ASSUME IInv, Orderly, [Next]_vars
  PROVE  [GNext]_gvars
BY SessionStepsOfMonitor DEF IInv, Orderly, Joins, ReapFree, JoinRemovesPlayer, JoinUnregisters, JoinBroadcasts

LEMMA OrderlyKept ==
  ASSUME Aborters = {}, IInv, Orderly, [Next]_vars
  PROVE  Orderly'
<1> USE DEF Orderly, Joins
<1>1. GTypeOK /\ HandlerTypes /\ AcceptorTypes
  BY TypesSplit DEF IInv
<1>2. NoAbandonedGame'
  BY <1>1, OrderlySteps, NoAbandonedGameStep
<1> DEFINE Rest ==
      /\ reaped' = {} /\ apc' \notin Joins \cup {"reap_free"}
      /\ \A c \in Clients : rpc'[c] = "done" => cur'[c] = NoGame
<1> USE DEF HandlerTypes
<1>3. ASSUME NEW c \in Clients, Receiver(c) PROVE Rest
  <2>1. CASE RecvCreateLobby(c) \/ RecvJoinLobby(c)
    BY <1>1, <2>1 DEF RecvCreateLobby, RecvJoinLobby, Goto, avars
  <2>2. CASE RecvJoinRefused(c)
    BY <1>1, <2>2 DEF RecvJoinRefused, hvars, avars
  <2>3. CASE Attach(c)
    BY <1>1, <2>3 DEF Attach, Goto, avars
  <2>4. CASE RecvStartLobby(c)
    BY <1>1, <2>4 DEF RecvStartLobby, Goto, avars
  <2>5. CASE RecvStarted(c)
    BY <1>1, <2>5 DEF RecvStarted, GetQueueGameloop, Goto, avars
  <2>6. CASE RecvCommand(c)
    BY <1>1, <2>6 DEF RecvCommand, GetQueueGameloop, Goto, avars
  <2>7. CASE PushCommand(c)
    BY <1>1, <2>7 DEF PushCommand, Goto, avars
  <2>8. CASE RecvDisconnect(c)
    BY <1>1, <2>8 DEF RecvDisconnect, Goto, avars
  <2>9. CASE RecvStopGame(c) \/ RecvDestroyGame(c)
    BY <1>1, <2>9 DEF RecvStopGame, RecvDestroyGame, Goto, avars
  <2>10. CASE RecvForget(c)
    BY <1>1, <2>10 DEF RecvForget, Goto, avars
  <2>11. ~RecvThrows(c)
    BY DEF RecvThrows
  <2> QED
    BY <1>3, <2>1, <2>2, <2>3, <2>4, <2>5, <2>6, <2>7, <2>8, <2>9, <2>10, <2>11, Zenon DEF Receiver
<1>4. ASSUME ReapGames PROVE Rest
  <2>1. Reapable = {}
    BY DEF Reapable, NoAbandonedGame
  <2> QED
    BY <1>4, <2>1 DEF ReapGames, hvars
<1>5. ASSUME JoinHandler PROVE Rest
  <2>1. PICK c \in Clients : rpc[c] = "done" /\ apc' = IF cur[c] # NoGame THEN "join_players" ELSE "join_erase"
    BY <1>5, Zenon DEF JoinHandler, NextFinished, IsFinished
  <2> QED
    BY <1>5, <2>1 DEF JoinHandler, hvars
<1>6. ASSUME JoinErases PROVE Rest
  BY <1>1, <1>6 DEF JoinErases
<1>7. ASSUME ReapEnds \/ AcceptFails PROVE Rest
  BY <1>7 DEF ReapEnds, AcceptFails, hvars
<1>8. ASSUME \/ ReapFree \/ JoinRemovesPlayer \/ JoinUnregisters
             \/ JoinBuildsSnapshot \/ JoinBroadcasts
      PROVE  Rest
  BY <1>8 DEF ReapFree, JoinRemovesPlayer, JoinUnregisters, JoinBuildsSnapshot, JoinBroadcasts
<1>9. ASSUME NEW c \in Clients, Accept(c) PROVE Rest
  BY <1>1, <1>9 DEF Accept
<1>10. ASSUME NEW c \in Clients,
              SenderSends(c) \/ SenderFails(c) \/ ClientSeesResults(c) \/ ClientQuits(c)
       PROVE  Rest
  BY <1>10 DEF SenderSends, SenderFails, ClientSeesResults, ClientQuits, hvars, avars
<1>11. ASSUME UNCHANGED <<hvars, avars>> PROVE Rest
  BY <1>11 DEF hvars, avars
<1> QED
  BY <1>2, <1>3, <1>4, <1>5, <1>6, <1>7, <1>8, <1>9, <1>10, <1>11 DEF Next, Acceptor, GameThread, vars

\* Without abnormal ends of a connection, every execution of the server is one
\* of the lobby monitor, each of whose operations is atomic: receivers and
\* acceptor change the games only through it.
THEOREM SessionsImplementMonitor ==
  ASSUME Aborters = {}
  PROVE  Spec => GSpec
<1>1. Init => GInit /\ Orderly
  BY DEF Init, GInit, Orderly, Joins, NoAbandonedGame, Mapped
<1>2. IInv /\ Orderly /\ [Next]_vars => Orderly' /\ [GNext]_gvars
  BY OrderlySteps, OrderlyKept
<1> QED
  BY <1>1, <1>2, SessionInduction, PTL DEF Spec, GSpec

\* So without them, nobody leaves a race unreported and no game is left empty.
THEOREM OrderlySessionsReportLeavers ==
  ASSUME Aborters = {}
  PROVE  Spec => []LeaversReported
BY SessionsImplementMonitor, MonitorReportsLeavers, PTL

\* And then the join of an ended connection finds no game, destroyed or not.
THEOREM OrderlyJoinsFindNoGame ==
  ASSUME Aborters = {}
  PROVE  Spec => []JoinPointerLive
<1>1. Init => Orderly
  BY DEF Init, GInit, Orderly, Joins, NoAbandonedGame, Mapped
<1>2. IInv /\ Orderly /\ [Next]_vars => Orderly'
  BY OrderlyKept
<1>3. Orderly => JoinPointerLive
  BY DEF Orderly, Joins, JoinPointerLive
<1> QED
  BY <1>1, <1>2, <1>3, SessionInduction, PTL DEF Spec

=============================================================================
