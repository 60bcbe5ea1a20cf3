-------------------------- MODULE GameManagerProofs --------------------------
(***************************************************************************)
(* What the lobby monitor guarantees for any number of clients, games and  *)
(* lobby ids, whatever its callers call and in whatever order.             *)
(***************************************************************************)
EXTENDS GameManager, FiniteSetTheorems, TLAPS

\* What disconnect does to game g, flattened: out of a lobby that waits, or
\* out of a race.
LeavesLobby(c, g) ==
  /\ ~started[g]
  /\ players' = [players EXCEPT ![g] = @ \ {c}]
  /\ view' = [view EXCEPT ![g] =
        [d \in Clients |-> IF d \in registry'[g] THEN players'[g] ELSE @[d]]]
  /\ outq' = outq \cup registry'[g]
  /\ told' = told
LeavesRace(c, g) ==
  /\ started[g]
  /\ told' = [told EXCEPT ![g] = IF closed[g] THEN @ ELSE @ \cup {c}]
  /\ players' = players /\ view' = view /\ outq' = outq
Leaves(c, g) ==
  /\ mem[g] = "mapped"
  /\ registry' = [registry EXCEPT ![g] = @ \ {c}]
  /\ mem' = [mem EXCEPT ![g] = IF registry'[g] = {} THEN "detached" ELSE @]
  /\ UNCHANGED <<lobby, started, cars, closed, loop>>
  /\ LeavesLobby(c, g) \/ LeavesRace(c, g)

LEMMA DisconnectLeaves ==
  \A c \in Clients, g \in Games : DisconnectFrom(c, g) => Leaves(c, g)
BY Zenon DEF DisconnectFrom, FirstGameOf, Mapped, OnDisconnect, BroadcastLobby, Broadcast,
             Leaves, LeavesLobby, LeavesRace

\* Every operation of the monitor keeps the types of its state.
LEMMA MonitorTypesStep ==
  ASSUME GTypeOK, [GNext]_gvars
  PROVE  GTypeOK'
<1> USE LobbyIdsAssumption DEF GTypeOK
<1>1. ASSUME NEW c \in Clients, NEW g \in Games, CreateLobbyAndJoin(c, g) PROVE GTypeOK'
  BY <1>1 DEF CreateLobbyAndJoin, NextLobbyId, BroadcastLobby, Broadcast
<1>2. ASSUME NEW c \in Clients, NEW g \in Games, JoinLobby(c, g) PROVE GTypeOK'
  BY <1>2 DEF JoinLobby, BroadcastLobby, Broadcast
<1>3. ASSUME NEW c \in Clients, NEW id \in LobbyIds, RefuseJoin(c, id) PROVE GTypeOK'
  BY <1>3 DEF RefuseJoin, Broadcast
<1>4. ASSUME NEW g \in Games, StartLobby(g) PROVE GTypeOK'
  BY <1>4 DEF StartLobby, Broadcast
<1>5. ASSUME NEW c \in Clients, NEW g \in Games, DisconnectFrom(c, g) PROVE GTypeOK'
  <2>1. Leaves(c, g)
    BY <1>5, DisconnectLeaves
  <2>2. CASE LeavesLobby(c, g)
    <3>1. /\ registry' \in [Games -> SUBSET Clients]
          /\ players' \in [Games -> SUBSET Clients]
      BY <2>1, <2>2 DEF Leaves, LeavesLobby
    <3>2. /\ view' \in [Games -> [Clients -> SUBSET Clients]]
          /\ outq' \in SUBSET Clients
      BY <2>2, <3>1 DEF LeavesLobby
    <3> QED
      BY <2>1, <2>2, <3>1, <3>2 DEF Leaves, LeavesLobby
  <2>3. CASE LeavesRace(c, g)
    BY <2>1, <2>3 DEF Leaves, LeavesRace
  <2> QED
    BY <2>1, <2>2, <2>3 DEF Leaves
<1>6. ASSUME NEW g \in Games, StopGame(g) PROVE GTypeOK'
  BY <1>6 DEF StopGame
<1>7. ASSUME NEW g \in Games, DestroyGame(g) PROVE GTypeOK'
  BY <1>7 DEF DestroyGame, Destroy, Cleared
<1>8. CASE ReapFinishedGames
  BY <1>8 DEF ReapFinishedGames
<1>9. ASSUME NEW g \in Games,
             TournamentOver(g) \/ LoopExits(g) \/ LoopCrashes(g) \/ LoopBroadcasts(g)
      PROVE  GTypeOK'
  BY <1>9 DEF TournamentOver, LoopExits, LoopCrashes, LoopBroadcasts, Broadcast
<1>10. ASSUME NEW c \in Clients, Drain(c) PROVE GTypeOK'
  BY <1>10 DEF Drain
<1>11. CASE UNCHANGED gvars
  BY <1>11 DEF gvars
<1> QED
  BY <1>1, <1>2, <1>3, <1>4, <1>5, <1>6, <1>7, <1>8, <1>9, <1>10, <1>11 DEF GNext

\* The monitor's state is well typed in every behaviour.
THEOREM MonitorTypes == GSpec => []GTypeOK
<1>1. GInit => GTypeOK
  BY DEF GInit, GTypeOK
<1>2. GTypeOK /\ [GNext]_gvars => GTypeOK'
  BY MonitorTypesStep
<1> QED
  BY <1>1, <1>2, PTL DEF GSpec

\* next_lobby_id never hands out a key that is in use, for any set of ids.
THEOREM LobbyIdsUnique == GSpec => []UniqueLobbyIds
<1>1. GInit => UniqueLobbyIds
  BY DEF GInit, UniqueLobbyIds, Mapped
<1>2. GTypeOK /\ UniqueLobbyIds /\ [GNext]_gvars => UniqueLobbyIds'
  <2> SUFFICES ASSUME GTypeOK, UniqueLobbyIds, [GNext]_gvars PROVE UniqueLobbyIds'
    OBVIOUS
  <2> USE DEF GTypeOK, UniqueLobbyIds, Mapped
  <2>1. ASSUME NEW c \in Clients, NEW g \in Games, CreateLobbyAndJoin(c, g)
        PROVE  UniqueLobbyIds'
    <3>1. PICK id \in LobbyIds : NextLobbyId(id) /\ lobby' = [lobby EXCEPT ![g] = id]
      BY <2>1 DEF CreateLobbyAndJoin
    <3>2. \A h \in Games : mem[h] = "mapped" => lobby[h] # id
      BY <3>1 DEF NextLobbyId, FreeId
    <3>3. mem' = [mem EXCEPT ![g] = "mapped"]
      BY <2>1 DEF CreateLobbyAndJoin
    <3> QED
      BY <3>1, <3>2, <3>3
  <2>2. ASSUME NEW c \in Clients, NEW g \in Games, DisconnectFrom(c, g)
        PROVE  UniqueLobbyIds'
    BY <2>2 DEF DisconnectFrom
  <2>3. ASSUME NEW g \in Games, DestroyGame(g) PROVE UniqueLobbyIds'
    BY <2>3 DEF DestroyGame, Destroy, Cleared
  <2>4. CASE ReapFinishedGames
    BY <2>4 DEF ReapFinishedGames
  <2>5. ASSUME UNCHANGED <<mem, lobby>> PROVE UniqueLobbyIds'
    BY <2>5
  <2> QED
    BY <2>1, <2>2, <2>3, <2>4, <2>5
       DEF GNext, gvars, JoinLobby, RefuseJoin, StartLobby, StopGame, TournamentOver,
           LoopExits, LoopCrashes, LoopBroadcasts, Drain
<1> QED
  BY <1>1, <1>2, MonitorTypes, PTL DEF GSpec

\* A waiting lobby and what its members see of it agree after every operation
\* of the monitor, for any number of lobbies and clients.
THEOREM LobbyViewsAgree == GSpec => []LobbyViewsCurrent
<1>1. GInit => LobbyViewsCurrent
  BY DEF GInit, LobbyViewsCurrent, Mapped
<1>2. GTypeOK /\ LobbyViewsCurrent /\ [GNext]_gvars => LobbyViewsCurrent'
  <2> SUFFICES ASSUME GTypeOK, LobbyViewsCurrent, [GNext]_gvars PROVE LobbyViewsCurrent'
    OBVIOUS
  <2> USE DEF GTypeOK, LobbyViewsCurrent, Mapped
  <2>1. ASSUME NEW c \in Clients, NEW g \in Games, CreateLobbyAndJoin(c, g)
        PROVE  LobbyViewsCurrent'
    <3>1. /\ mem' = [mem EXCEPT ![g] = "mapped"] /\ started' = started
          /\ registry' = [registry EXCEPT ![g] = {c}]
          /\ players' = [players EXCEPT ![g] = {c}]
          /\ view' = [view EXCEPT ![g] =
                [d \in Clients |-> IF d \in {c} THEN {c} ELSE @[d]]]
      BY <2>1, Zenon DEF CreateLobbyAndJoin, BroadcastLobby
    <3> QED
      BY <3>1
  <2>2. ASSUME NEW c \in Clients, NEW g \in Games, JoinLobby(c, g)
        PROVE  LobbyViewsCurrent'
    <3>1. /\ mem[g] = "mapped" /\ ~started[g] /\ mem' = mem /\ started' = started
          /\ registry' = [registry EXCEPT ![g] = @ \cup {c}]
          /\ players' = [players EXCEPT ![g] = @ \cup {c}]
          /\ view' = [view EXCEPT ![g] =
                [d \in Clients |-> IF d \in registry'[g] THEN players'[g] ELSE @[d]]]
      BY <2>2, Zenon DEF JoinLobby, CanJoin, BroadcastLobby
    <3>2. \A d \in registry'[g] : view'[g][d] = players'[g]
      BY <3>1
    <3>3. registry'[g] = players'[g]
      BY <3>1
    <3>4. ASSUME NEW h \in Games, h # g
          PROVE  registry'[h] = registry[h] /\ players'[h] = players[h] /\ view'[h] = view[h]
      BY <3>1, <3>4
    <3>5. ASSUME NEW h \in Games, mem'[h] = "mapped", ~started'[h]
          PROVE  registry'[h] = players'[h] /\ \A d \in registry'[h] : view'[h][d] = players'[h]
      <4>1. mem[h] = "mapped" /\ ~started[h]
        BY <3>1, <3>5
      <4> QED
        BY <4>1, <3>2, <3>3, <3>4
    <3> QED
      BY <3>5
  <2>3. ASSUME NEW c \in Clients, NEW g \in Games, DisconnectFrom(c, g)
        PROVE  LobbyViewsCurrent'
    <3>1. Leaves(c, g)
      BY <2>3, DisconnectLeaves
    <3>2. CASE LeavesLobby(c, g)
      <4>1. \A d \in registry'[g] : view'[g][d] = players'[g]
        BY <3>1, <3>2 DEF Leaves, LeavesLobby
      <4> QED
        BY <3>1, <3>2, <4>1 DEF Leaves, LeavesLobby
    <3>3. CASE LeavesRace(c, g)
      BY <3>1, <3>3 DEF Leaves, LeavesRace
    <3> QED
      BY <3>1, <3>2, <3>3 DEF Leaves
  <2>4. ASSUME NEW g \in Games, StartLobby(g) PROVE LobbyViewsCurrent'
    BY <2>4 DEF StartLobby
  <2>5. ASSUME NEW g \in Games, DestroyGame(g) PROVE LobbyViewsCurrent'
    BY <2>5 DEF DestroyGame, Destroy, Cleared
  <2>6. CASE ReapFinishedGames
    BY <2>6 DEF ReapFinishedGames
  <2>7. ASSUME UNCHANGED <<mem, started, players, registry, view>> PROVE LobbyViewsCurrent'
    BY <2>7
  <2> QED
    BY <2>1, <2>2, <2>3, <2>4, <2>5, <2>6, <2>7
       DEF GNext, gvars, RefuseJoin, StopGame, TournamentOver,
           LoopExits, LoopCrashes, LoopBroadcasts, Drain
<1> QED
  BY <1>1, <1>2, MonitorTypes, PTL DEF GSpec

\* No operation of the monitor empties a game and leaves it in the map.
LEMMA NoAbandonedGameStep ==
  ASSUME GTypeOK, NoAbandonedGame, [GNext]_gvars
  PROVE  NoAbandonedGame'
<1> USE DEF GTypeOK, NoAbandonedGame, Mapped, IsEmpty
<1>1. ASSUME NEW c \in Clients, NEW g \in Games,
             CreateLobbyAndJoin(c, g) \/ JoinLobby(c, g)
      PROVE  NoAbandonedGame'
  <2>1. \/ /\ mem' = [mem EXCEPT ![g] = "mapped"]
           /\ registry' = [registry EXCEPT ![g] = {c}]
        \/ /\ mem' = mem
           /\ registry' = [registry EXCEPT ![g] = @ \cup {c}]
    BY <1>1, Zenon DEF CreateLobbyAndJoin, JoinLobby
  <2>2. ASSUME NEW h \in Games, mem'[h] = "mapped" PROVE registry'[h] # {}
    <3>1. CASE h = g
      <4>1. c \in registry'[g]
        BY <2>1
      <4> QED
        BY <3>1, <4>1
    <3>2. CASE h # g
      <4>1. mem'[h] = mem[h] /\ registry'[h] = registry[h]
        BY <2>1, <3>2
      <4> QED
        BY <2>2, <4>1
    <3> QED
      BY <3>1, <3>2
  <2> QED
    BY <2>2
<1>2. ASSUME NEW c \in Clients, NEW g \in Games, DisconnectFrom(c, g)
      PROVE  NoAbandonedGame'
  <2>1. Leaves(c, g)
    BY <1>2, DisconnectLeaves
  <2> QED
    BY <2>1 DEF Leaves
<1>3. ASSUME NEW g \in Games, DestroyGame(g) PROVE NoAbandonedGame'
  BY <1>3 DEF DestroyGame, Destroy, Cleared
<1>4. CASE ReapFinishedGames
  BY <1>4 DEF ReapFinishedGames
<1>5. ASSUME UNCHANGED <<mem, registry>> PROVE NoAbandonedGame'
  BY <1>5
<1> QED
  BY <1>1, <1>2, <1>3, <1>4, <1>5
     DEF GNext, gvars, RefuseJoin, StartLobby, StopGame, TournamentOver,
         LoopExits, LoopCrashes, LoopBroadcasts, Drain

\* "Si quedo vacia, la borramos": no operation of the monitor leaves a game
\* without clients in the map.
THEOREM MonitorLeavesNoEmptyGame == GSpec => []NoAbandonedGame
<1>1. GInit => NoAbandonedGame
  BY DEF GInit, NoAbandonedGame, Mapped
<1>2. GTypeOK /\ NoAbandonedGame /\ [GNext]_gvars => NoAbandonedGame'
  BY NoAbandonedGameStep
<1> QED
  BY <1>1, <1>2, MonitorTypes, PTL DEF GSpec

\* Every client that left a running race was reported to its game loop, for
\* any number of racers: on_disconnect unregisters and reports in one step.
THEOREM MonitorReportsLeavers == GSpec => []LeaversReported
<1> DEFINE Waiting == \A g \in Games : Mapped(g) /\ ~started[g] => registry[g] = players[g]
           Unused == \A g \in Games : mem[g] = "unused" => ~started[g]
           Inv == LeaversReported /\ Waiting /\ Unused
<1>1. GInit => Inv
  BY DEF GInit, LeaversReported, Mapped
<1>2. GTypeOK /\ Inv /\ [GNext]_gvars => Inv'
  <2> SUFFICES ASSUME GTypeOK, Inv, [GNext]_gvars PROVE Inv'
    OBVIOUS
  <2> USE DEF GTypeOK, LeaversReported, Mapped
  <2>1. ASSUME NEW c \in Clients, NEW g \in Games, CreateLobbyAndJoin(c, g) PROVE Inv'
    BY <2>1 DEF CreateLobbyAndJoin
  <2>2. ASSUME NEW c \in Clients, NEW g \in Games, JoinLobby(c, g) PROVE Inv'
    BY <2>2 DEF JoinLobby, CanJoin
  <2>3. ASSUME NEW c \in Clients, NEW g \in Games, DisconnectFrom(c, g) PROVE Inv'
    <3>1. Leaves(c, g)
      BY <2>3, DisconnectLeaves
    <3>2. CASE LeavesLobby(c, g)
      BY <3>1, <3>2 DEF Leaves, LeavesLobby
    <3>3. CASE LeavesRace(c, g)
      BY <3>1, <3>3 DEF Leaves, LeavesRace
    <3> QED
      BY <3>1, <3>2, <3>3 DEF Leaves
  <2>4. ASSUME NEW g \in Games, StartLobby(g) PROVE Inv'
    BY <2>4 DEF StartLobby
  <2>5. ASSUME NEW g \in Games, DestroyGame(g) PROVE Inv'
    BY <2>5 DEF DestroyGame, Destroy, Cleared
  <2>6. CASE ReapFinishedGames
    BY <2>6 DEF ReapFinishedGames
  <2>7. ASSUME NEW g \in Games, StopGame(g) \/ TournamentOver(g) PROVE Inv'
    BY <2>7 DEF StopGame, TournamentOver
  <2>8. ASSUME UNCHANGED <<mem, started, players, registry, cars, told, closed>> PROVE Inv'
    BY <2>8
  <2> QED
    BY <2>1, <2>2, <2>3, <2>4, <2>5, <2>6, <2>7, <2>8
       DEF GNext, gvars, RefuseJoin, LoopExits, LoopCrashes, LoopBroadcasts, Drain
<1> QED
  BY <1>1, <1>2, MonitorTypes, PTL DEF GSpec

\* A started game sends its race only to clients it made a car for: nobody
\* enters after the start, and the start counts exactly the registered ones.
THEOREM MonitorRegistersRacers == GSpec => []OnlyRacersRegistered
<1> DEFINE Waiting == \A g \in Games : Mapped(g) /\ ~started[g] => registry[g] = players[g]
           Unused == \A g \in Games : mem[g] = "unused" => ~started[g]
           Inv == OnlyRacersRegistered /\ Waiting /\ Unused
<1>1. GInit => Inv
  BY DEF GInit, OnlyRacersRegistered, Mapped
<1>2. GTypeOK /\ Inv /\ [GNext]_gvars => Inv'
  <2> SUFFICES ASSUME GTypeOK, Inv, [GNext]_gvars PROVE Inv'
    OBVIOUS
  <2> USE DEF GTypeOK, OnlyRacersRegistered, Mapped
  <2>1. ASSUME NEW c \in Clients, NEW g \in Games, CreateLobbyAndJoin(c, g) PROVE Inv'
    BY <2>1 DEF CreateLobbyAndJoin
  <2>2. ASSUME NEW c \in Clients, NEW g \in Games, JoinLobby(c, g) PROVE Inv'
    BY <2>2 DEF JoinLobby, CanJoin
  <2>3. ASSUME NEW c \in Clients, NEW g \in Games, DisconnectFrom(c, g) PROVE Inv'
    <3>1. Leaves(c, g)
      BY <2>3, DisconnectLeaves
    <3>2. CASE LeavesLobby(c, g)
      BY <3>1, <3>2 DEF Leaves, LeavesLobby
    <3>3. CASE LeavesRace(c, g)
      BY <3>1, <3>3 DEF Leaves, LeavesRace
    <3> QED
      BY <3>1, <3>2, <3>3 DEF Leaves
  <2>4. ASSUME NEW g \in Games, StartLobby(g) PROVE Inv'
    BY <2>4 DEF StartLobby
  <2>5. ASSUME NEW g \in Games, DestroyGame(g) PROVE Inv'
    BY <2>5 DEF DestroyGame, Destroy, Cleared
  <2>6. CASE ReapFinishedGames
    BY <2>6 DEF ReapFinishedGames
  <2>7. ASSUME UNCHANGED <<mem, started, players, registry, cars>> PROVE Inv'
    BY <2>7
  <2> QED
    BY <2>1, <2>2, <2>3, <2>4, <2>5, <2>6, <2>7
       DEF GNext, gvars, RefuseJoin, StopGame, TournamentOver,
           LoopExits, LoopCrashes, LoopBroadcasts, Drain
<1> QED
  BY <1>1, <1>2, MonitorTypes, PTL DEF GSpec

\* No game ever lists more players than a race takes (size_max_players).
THEOREM MonitorFillsNoLobby == GSpec => []LobbyNotOverfull
<1>1. GInit => LobbyNotOverfull
  <2> SUFFICES ASSUME GInit, NEW g \in Games PROVE Cardinality(players[g]) <= MaxPlayers
    BY DEF LobbyNotOverfull
  <2>1. players[g] = {}
    BY DEF GInit
  <2> QED
    BY <2>1, FS_EmptySet, MaxPlayersAssumption
<1>2. GTypeOK /\ LobbyNotOverfull /\ [GNext]_gvars => LobbyNotOverfull'
  <2> SUFFICES ASSUME GTypeOK, LobbyNotOverfull, [GNext]_gvars, NEW h \in Games
               PROVE  Cardinality(players'[h]) <= MaxPlayers
    BY DEF LobbyNotOverfull
  <2>1. players[h] \in SUBSET Clients /\ IsFiniteSet(players[h])
    BY ClientsAssumption, FS_Subset DEF GTypeOK
  <2>2. Cardinality(players[h]) \in Nat /\ Cardinality(players[h]) <= MaxPlayers
    BY <2>1, FS_CardinalityType DEF LobbyNotOverfull
  <2>3. CASE players'[h] = players[h]
    BY <2>2, <2>3
  <2>4. ASSUME NEW c \in Clients, players'[h] = {c} PROVE Cardinality(players'[h]) <= MaxPlayers
    <3>1. Cardinality({c}) = 1
      BY FS_Singleton
    <3> QED
      BY <2>4, <3>1, MaxPlayersAssumption
  <2>5. CASE players'[h] = {}
    BY <2>5, FS_EmptySet, MaxPlayersAssumption
  <2>6. ASSUME NEW c \in Clients, players'[h] = players[h] \cup {c}, c \notin players[h],
               Cardinality(players[h]) < MaxPlayers
        PROVE  Cardinality(players'[h]) <= MaxPlayers
    <3>1. Cardinality(players[h] \cup {c}) = Cardinality(players[h]) + 1
      BY <2>1, <2>6, FS_AddElement
    <3>2. Cardinality(players'[h]) = Cardinality(players[h]) + 1
      BY <2>6, <3>1
    <3> QED
      BY <2>2, <2>6, <3>2, MaxPlayersAssumption
  <2>7. ASSUME NEW c \in Clients, players'[h] = players[h] \ {c}
        PROVE  Cardinality(players'[h]) <= MaxPlayers
    <3>1. players'[h] \subseteq players[h]
      BY <2>7
    <3>2. Cardinality(players'[h]) <= Cardinality(players[h]) /\ IsFiniteSet(players'[h])
      BY <2>1, <3>1, FS_Subset
    <3> QED
      BY <2>2, <3>2, FS_CardinalityType, MaxPlayersAssumption
  <2>8. ASSUME NEW c \in Clients, NEW g \in Games, CreateLobbyAndJoin(c, g)
        PROVE  players'[h] = {c} \/ players'[h] = players[h]
    BY <2>8 DEF CreateLobbyAndJoin, GTypeOK
  <2>9. ASSUME NEW c \in Clients, NEW g \in Games, JoinLobby(c, g)
        PROVE  \/ players'[h] = players[h]
               \/ /\ players'[h] = players[h] \cup {c} /\ c \notin players[h]
                  /\ Cardinality(players[h]) < MaxPlayers
    BY <2>9 DEF JoinLobby, CanJoin, HasPlayer, GTypeOK
  <2>10. ASSUME NEW c \in Clients, NEW g \in Games, DisconnectFrom(c, g)
         PROVE  players'[h] = players[h] \ {c} \/ players'[h] = players[h]
    <3>1. Leaves(c, g)
      BY <2>10, DisconnectLeaves
    <3> QED
      BY <3>1 DEF Leaves, LeavesLobby, LeavesRace, GTypeOK
  <2>11. ASSUME NEW g \in Games, DestroyGame(g)
         PROVE  players'[h] = {} \/ players'[h] = players[h]
    BY <2>11 DEF DestroyGame, Destroy, Cleared
  <2> QED
    BY <2>3, <2>4, <2>5, <2>6, <2>7, <2>8, <2>9, <2>10, <2>11
       DEF GNext, gvars, RefuseJoin, StartLobby, StopGame, ReapFinishedGames, TournamentOver,
           LoopExits, LoopCrashes, LoopBroadcasts, Drain
<1> QED
  BY <1>1, <1>2, MonitorTypes, PTL DEF GSpec

=============================================================================
