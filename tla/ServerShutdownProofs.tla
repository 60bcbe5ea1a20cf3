------------------------- MODULE ServerShutdownProofs -------------------------
(***************************************************************************)
(* What the games send their events to, for any number of clients and      *)
(* games: no destroyed handler, but for clients that were in two games at  *)
(* once, also while the shutdown and a receiver take the client out.       *)
(***************************************************************************)
EXTENDS ServerShutdown, SessionServerProofs

\* The stages in which Acceptor::clear is over
Over == {"stop_all", "join_all", "exited"}

\* The receiver is in no disconnection and has not ended.
Serving(c) == rpc[c] \in {"idle", "attach", "get_queue", "push"}

\* Acceptor::clear took the client out of its game already.
Unlisted(c) ==
  c \in closedOut \/ (clearing = c /\ cstep \in {"snapshot", "broadcast", "forget", "close", "wait"})

\* The client was in no second game, and no exception ended its receiver.
Regular(c) == c \notin threw /\ c \notin twice

\* It is between the two removals.
HalfOut(c) == clearing = c /\ cstep = "registry"

\* A game that is not in the map sends nothing to anybody.
OnlyMappedSend ==
  /\ \A g \in Games : mem[g] # "mapped" => registry[g] = {}
  /\ \A g \in reaped : mem[g] \in {"detached", "freed"}

\* Who is registered is a player, and its receiver can still disconnect it, or
\* clear is about to unregister it.
RegisteredPlay ==
  \A c \in Clients, g \in Games :
    c \in registry[g] /\ Regular(c) => HalfOut(c) \/ (c \in players[g] /\ Serving(c))

\* The pointer through which clear unregisters is none to another game...
PointsNowhereElse ==
  \A c \in Clients, g \in Games :
    c \in registry[g] /\ Regular(c) /\ ~Unlisted(c) =>
      cur[c] \in {g, NoGame} /\ (rpc[c] = "attach" => rgame[c] = g)

\* ... since a receiver keeps none to a game that it is not registered with.
PointersRegistered ==
  \A c \in Clients, g \in Games :
    /\ Serving(c) /\ ~Unlisted(c)
    /\ cur[c] = g \/ (rpc[c] = "attach" /\ rgame[c] = g)
    => c \in registry[g]

\* A receiver that did not begin has no game, and a handler goes when its
\* receiver has ended.
NewAndGone ==
  \A c \in Clients : (rpc[c] = "off" => cur[c] = NoGame) /\ (hs[c] = "gone" => rpc[c] = "done")

\* Acceptor::clear joins each handler once.
ClearInOrder ==
  /\ clearing \in Clients \cup {NoClient} /\ (cstep = "pick" <=> clearing = NoClient)
  /\ stage \in {"serving", "stopping"} => clearing = NoClient /\ closedOut = {}
  /\ stage \in Over => clearing = NoClient
  /\ clearing \in Clients =>
       /\ hs[clearing] = "up" /\ clearing \notin todo
       /\ cstep = "wait" <=> clearing \in closedOut
  /\ stage = "clearing" =>
       /\ \A c \in todo : hs[c] = "up" /\ c \notin closedOut
       /\ \A c \in Clients : hs[c] = "up" => c \in todo \/ c = clearing \/ rpc[c] = "done"
  /\ stage \in Over => \A c \in Clients : rpc[c] \in {"off", "done"}
  /\ stage \notin {"serving", "stopping"} => joining = NoClient /\ reaped = {}

\* A client of whom twice does not know is in one game.
TwiceRecorded == \A c \in Clients : c \notin twice => ~InTwoGames(c)

LetsGo ==
  /\ OnlyMappedSend /\ RegisteredPlay /\ PointsNowhereElse /\ PointersRegistered
  /\ NewAndGone /\ ClearInOrder
SInv == TypeOK /\ ThreadsInPlace /\ LetsGo /\ TwiceRecorded

\* What the invariant reads
rvars == <<mem, players, registry, reaped, rpc, rgame, cur, hs, todo, joining>>

LEMMA QuietKeepsLetsGo ==
  ASSUME LetsGo, UNCHANGED <<rvars, shvars>>,
         twice \subseteq twice'
  PROVE  LetsGo'
<1> USE DEF Regular, LetsGo, rvars, shvars
<1>1. OnlyMappedSend' BY DEF OnlyMappedSend
<1>2. RegisteredPlay' BY DEF RegisteredPlay, HalfOut, Serving
<1>3. PointsNowhereElse' BY DEF PointsNowhereElse, Unlisted
<1>4. PointersRegistered' BY DEF PointersRegistered, Unlisted, Serving
<1>5. NewAndGone' BY DEF NewAndGone
<1>6. ClearInOrder' BY DEF ClearInOrder
<1> QED BY <1>1, <1>2, <1>3, <1>4, <1>5, <1>6

\* A receiver that goes on, uses or forgets what it has.
LEMMA ReceiverMovesKeepsLetsGo ==
  ASSUME LetsGo, TypeOK, NEW c \in Clients,
         UNCHANGED <<mem, players, registry, reaped, hs, todo, joining, shvars>>,
         \A d \in Clients : d # c =>
           rpc'[d] = rpc[d] /\ cur'[d] = cur[d] /\ rgame'[d] = rgame[d],
         rpc[c] \notin {"off", "done"}, rpc'[c] \notin {"off", "attach"}, Serving(c) => Serving(c)',
         \/ cur'[c] = NoGame
         \/ cur'[c] = cur[c] /\ (Serving(c)' => Serving(c))
         \/ cur'[c] = rgame[c] /\ rpc[c] = "attach",
         twice \subseteq twice'
  PROVE  LetsGo'
<1> USE DEF Regular, LetsGo, shvars
<1>1. OnlyMappedSend' BY DEF OnlyMappedSend
<1>2. RegisteredPlay'
  <2> SUFFICES ASSUME NEW d \in Clients, NEW g \in Games, d \in registry[g], Regular(d)'
               PROVE  HalfOut(d)' \/ (d \in players[g] /\ Serving(d)')
    BY DEF RegisteredPlay
  <2>1. HalfOut(d) \/ (d \in players[g] /\ Serving(d))
    BY DEF RegisteredPlay
  <2> QED BY <2>1 DEF HalfOut, Serving
<1>3. PointsNowhereElse'
  BY DEF PointsNowhereElse, Unlisted
<1>4. PointersRegistered'
  <2> SUFFICES ASSUME NEW d \in Clients, NEW g \in Games, Serving(d)', ~Unlisted(d),
                      cur'[d] = g \/ (rpc'[d] = "attach" /\ rgame'[d] = g)
               PROVE  d \in registry[g]
    BY DEF PointersRegistered, Unlisted
  <2>1. CASE d # c
    BY <2>1 DEF PointersRegistered, Serving
  <2>2. CASE d = c
    <3>1. g # NoGame BY PointersAssumption
    <3> QED BY <2>2, <3>1 DEF PointersRegistered, Serving
  <2> QED BY <2>1, <2>2
<1>5. NewAndGone' BY DEF NewAndGone
<1>6. ClearInOrder'
  <2>1. stage \notin Over BY DEF ClearInOrder
  <2> QED BY <2>1 DEF ClearInOrder
<1> QED BY <1>1, <1>2, <1>3, <1>4, <1>5, <1>6

LEMMA NoOverForReceivers ==
  ASSUME LetsGo, NEW c \in Clients, rpc[c] \notin {"off", "done"}
  PROVE  stage \notin Over /\ hs[c] # "gone"
BY DEF LetsGo, ClearInOrder, NewAndGone

\* The receiver's steps on what it holds
LEMMA OwnStepsKeepLetsGo ==
  ASSUME SInv, NEW c \in Clients, UNCHANGED shvars,
         \/ Attach(c) \/ RecvStartLobby(c) \/ RecvStarted(c) \/ RecvCommand(c) \/ PushCommand(c)
         \/ RecvStopGame(c) \/ RecvForget(c),
         twice \subseteq twice'
  PROVE  LetsGo'
<1>1. LetsGo /\ TypeOK /\ HandlerTypes
  BY TypesSplit DEF SInv
<1>2. UNCHANGED <<mem, players, registry, reaped, hs, todo, joining>>
  BY DEF Attach, RecvStartLobby, StartLobby, RecvStarted, RecvCommand, PushCommand, RecvStopGame,
         StopGame, RecvForget, gvars, avars
<1>3. \A d \in Clients : d # c => rpc'[d] = rpc[d] /\ cur'[d] = cur[d] /\ rgame'[d] = rgame[d]
  BY <1>1 DEF Attach, RecvStartLobby, RecvStarted, RecvCommand, PushCommand, GetQueueGameloop,
              RecvStopGame, RecvForget, Goto, HandlerTypes
<1>4. rpc[c] \notin {"off", "done"}
  BY DEF Attach, RecvStartLobby, RecvStarted, RecvCommand, PushCommand, RecvStopGame, RecvForget,
         Reading
<1>5. rpc'[c] \notin {"off", "attach"} /\ (Serving(c) => Serving(c)')
  BY <1>1 DEF Attach, RecvStartLobby, RecvStarted, RecvCommand, PushCommand, RecvStopGame,
              RecvForget, Goto, HandlerTypes, Serving
<1>6. \/ cur'[c] = NoGame
      \/ cur'[c] = cur[c] /\ (Serving(c)' => Serving(c))
      \/ cur'[c] = rgame[c] /\ rpc[c] = "attach"
  BY <1>1 DEF Attach, RecvStartLobby, RecvStarted, RecvCommand, PushCommand, GetQueueGameloop,
              RecvStopGame, RecvForget, Goto, HandlerTypes, Serving, Reading
<1> HIDE DEF SInv
<1> QED
  BY <1>1, <1>2, <1>3, <1>4, <1>5, <1>6, ReceiverMovesKeepsLetsGo, Zenon

\* Create and join: the client becomes a player and is registered, in one step
\* of the monitor, with the game its receiver goes on to attach to.
LEMMA EntersKeepsLetsGo ==
  ASSUME LetsGo, TypeOK, NEW c \in Clients, NEW g \in Games,
         TwiceRecorded', UNCHANGED <<reaped, hs, todo, joining, cur, shvars>>,
         rpc[c] = "idle", rpc' = [rpc EXCEPT ![c] = "attach"], rgame' = [rgame EXCEPT ![c] = g],
         mem[g] = "mapped" \/ (mem[g] = "unused" /\ registry[g] = {}),
         mem' = [mem EXCEPT ![g] = "mapped"],
         registry' = [registry EXCEPT ![g] = @ \cup {c}],
         c \in players'[g],
         \A d \in Clients : d \in registry[g] /\ d \in players[g] => d \in players'[g],
         \A h \in Games : h # g => players'[h] = players[h],
         twice \subseteq twice'
  PROVE  LetsGo'
<1> USE DEF Regular, LetsGo, shvars
<1>1. HandlerTypes /\ GTypeOK /\ AcceptorTypes
  BY TypesSplit
<1>2. OnlyMappedSend'
  BY <1>1 DEF OnlyMappedSend, GTypeOK, AcceptorTypes
<1>3. RegisteredPlay'
  <2> SUFFICES ASSUME NEW d \in Clients, NEW h \in Games, d \in registry'[h], Regular(d)'
               PROVE  HalfOut(d)' \/ (d \in players'[h] /\ Serving(d)')
    BY DEF RegisteredPlay
  <2>1. Serving(d) => Serving(d)'
    BY <1>1 DEF Serving, HandlerTypes
  <2>2. CASE d = c /\ h = g
    BY <1>1, <2>2 DEF Serving, HandlerTypes
  <2>3. CASE d # c \/ h # g
    <3>1. d \in registry[h]
      BY <1>1, <2>3 DEF GTypeOK
    <3>2. HalfOut(d) \/ (d \in players[h] /\ Serving(d))
      BY <3>1 DEF RegisteredPlay
    <3>3. d \in players[h] => d \in players'[h]
      BY <3>1
    <3> QED BY <2>1, <3>2, <3>3 DEF HalfOut
  <2> QED BY <2>2, <2>3
<1>4. c \notin twice' => \A h \in Games : c \in registry'[h] => h = g
  BY <1>1, <1>2 DEF TwiceRecorded, InTwoGames, Listed, Mapped, OnlyMappedSend, GTypeOK
<1>5. PointsNowhereElse'
  <2> SUFFICES ASSUME NEW d \in Clients, NEW h \in Games, d \in registry'[h], Regular(d)',
                      ~Unlisted(d)
               PROVE  cur[d] \in {h, NoGame} /\ (rpc'[d] = "attach" => rgame'[d] = h)
    BY DEF PointsNowhereElse, Unlisted
  <2>1. CASE d # c
    BY <1>1, <2>1 DEF PointsNowhereElse, HandlerTypes, GTypeOK
  <2>2. CASE d = c
    <3>1. h = g BY <1>4, <2>2
    <3>2. rgame'[d] = h BY <1>1, <2>2, <3>1 DEF HandlerTypes
    <3>3. cur[c] \in Games => c \in registry[cur[c]]
      BY <2>2 DEF PointersRegistered, Serving
    <3>4. cur[c] \in Games => c \in registry'[cur[c]]
      BY <1>1, <3>3 DEF GTypeOK
    <3>5. cur[c] \in {g, NoGame}
      BY <1>1, <1>4, <2>2, <3>4 DEF HandlerTypes
    <3> QED BY <2>2, <3>1, <3>2, <3>5
  <2> QED BY <2>1, <2>2
<1>6. PointersRegistered'
  <2> SUFFICES ASSUME NEW d \in Clients, NEW h \in Games, Serving(d)', ~Unlisted(d),
                      cur[d] = h \/ (rpc'[d] = "attach" /\ rgame'[d] = h)
               PROVE  d \in registry'[h]
    BY DEF PointersRegistered, Unlisted
  <2>1. d \in registry[h] => d \in registry'[h]
    BY <1>1 DEF GTypeOK
  <2>2. CASE d # c
    BY <1>1, <2>1, <2>2 DEF PointersRegistered, Serving, HandlerTypes
  <2>3. CASE d = c
    BY <1>1, <2>1, <2>3 DEF PointersRegistered, Serving, HandlerTypes, GTypeOK
  <2> QED BY <2>2, <2>3
<1>7. NewAndGone' BY <1>1 DEF NewAndGone, HandlerTypes
<1>8. ClearInOrder'
  <2>1. stage \notin Over BY DEF ClearInOrder
  <2> QED BY <1>1, <2>1 DEF ClearInOrder, HandlerTypes
<1> QED BY <1>2, <1>3, <1>5, <1>6, <1>7, <1>8

LEMMA CreateAndJoinKeepLetsGo ==
  ASSUME SInv, TwiceRecorded', NEW c \in Clients, UNCHANGED shvars,
         RecvCreateLobby(c) \/ RecvJoinLobby(c),
         twice \subseteq twice'
  PROVE  LetsGo'
<1>1. LetsGo /\ TypeOK /\ GTypeOK
  BY TypesSplit DEF SInv
<1>2. UNCHANGED <<reaped, hs, todo, joining, cur, shvars>>
  BY DEF RecvCreateLobby, RecvJoinLobby, avars
<1>3. rpc[c] = "idle" /\ rpc' = [rpc EXCEPT ![c] = "attach"]
  BY DEF RecvCreateLobby, RecvJoinLobby, Reading, Goto
<1>4. CASE RecvCreateLobby(c)
  <2>1. PICK g \in Games : CreateLobbyAndJoin(c, g) /\ rgame' = [rgame EXCEPT ![c] = g]
    BY <1>4 DEF RecvCreateLobby
  <2>2. mem[g] = "unused" /\ registry[g] = {}
    BY <1>1, <2>1 DEF CreateLobbyAndJoin, LetsGo, OnlyMappedSend
  <2>3. /\ mem' = [mem EXCEPT ![g] = "mapped"] /\ registry' = [registry EXCEPT ![g] = @ \cup {c}]
        /\ players' = [players EXCEPT ![g] = {c}]
    BY <2>1, <2>2 DEF CreateLobbyAndJoin
  <2>4. /\ c \in players'[g]
        /\ \A d \in Clients : d \in registry[g] /\ d \in players[g] => d \in players'[g]
        /\ \A h \in Games : h # g => players'[h] = players[h]
    BY <1>1, <2>2, <2>3 DEF GTypeOK
  <2> QED
    BY <1>1, <1>2, <1>3, <2>1, <2>2, <2>3, <2>4, EntersKeepsLetsGo
<1>5. CASE RecvJoinLobby(c)
  <2>1. PICK g \in Games : JoinLobby(c, g) /\ rgame' = [rgame EXCEPT ![c] = g]
    BY <1>5 DEF RecvJoinLobby
  <2>2. /\ mem[g] = "mapped" /\ mem' = [mem EXCEPT ![g] = "mapped"]
        /\ registry' = [registry EXCEPT ![g] = @ \cup {c}]
        /\ players' = [players EXCEPT ![g] = @ \cup {c}]
    BY <1>1, <2>1 DEF JoinLobby, Mapped, GTypeOK
  <2>3. /\ c \in players'[g]
        /\ \A d \in Clients : d \in registry[g] /\ d \in players[g] => d \in players'[g]
        /\ \A h \in Games : h # g => players'[h] = players[h]
    BY <1>1, <2>2 DEF GTypeOK
  <2> QED
    BY <1>1, <1>2, <1>3, <2>1, <2>2, <2>3, EntersKeepsLetsGo
<1> QED
  BY <1>4, <1>5

\* The client has left every game when its receiver goes on to forget it,
\* unless clear took it half out.
LEMMA LeavesKeepsLetsGo ==
  ASSUME LetsGo, TypeOK, NEW c \in Clients,
         UNCHANGED <<reaped, hs, todo, joining, cur, shvars>>,
         rpc[c] = "idle", rpc'[c] \in {"stop", "forget"},
         \A d \in Clients : d # c => rpc'[d] = rpc[d] /\ rgame'[d] = rgame[d],
         \A g \in Games : mem'[g] # mem[g] =>
           mem[g] = "mapped" /\ mem'[g] = "detached" /\ registry'[g] = {},
         \A g \in Games : registry'[g] \in {registry[g], registry[g] \ {c}},
         \A g \in Games : players'[g] \in {players[g], players[g] \ {c}},
         \A g \in Games : c \in registry'[g] => c \in threw \/ c \in twice \/ HalfOut(c),
         twice \subseteq twice'
  PROVE  LetsGo'
<1> USE DEF Regular, LetsGo, shvars
<1>1. HandlerTypes /\ GTypeOK /\ AcceptorTypes
  BY TypesSplit
<1>2. OnlyMappedSend'
  <2>1. ASSUME NEW g \in Games, mem'[g] # "mapped" PROVE registry'[g] = {}
    BY <2>1 DEF OnlyMappedSend
  <2>2. ASSUME NEW g \in reaped PROVE mem'[g] \in {"detached", "freed"}
    BY <1>1, <2>2 DEF OnlyMappedSend, AcceptorTypes
  <2> QED BY <2>1, <2>2 DEF OnlyMappedSend
<1>3. RegisteredPlay'
  <2> SUFFICES ASSUME NEW d \in Clients, NEW h \in Games, d \in registry'[h], Regular(d)'
               PROVE  HalfOut(d)' \/ (d \in players'[h] /\ Serving(d)')
    BY DEF RegisteredPlay
  <2>1. CASE d = c
    BY <2>1 DEF HalfOut
  <2>2. CASE d # c
    <3>1. d \in registry[h] /\ (d \in players[h] => d \in players'[h])
      BY <2>2
    <3> QED BY <2>2, <3>1 DEF RegisteredPlay, HalfOut, Serving
  <2> QED BY <2>1, <2>2
<1>4. PointsNowhereElse'
  <2> SUFFICES ASSUME NEW d \in Clients, NEW h \in Games, d \in registry'[h], Regular(d)',
                      ~Unlisted(d)
               PROVE  cur[d] \in {h, NoGame} /\ (rpc'[d] = "attach" => rgame'[d] = h)
    BY DEF PointsNowhereElse, Unlisted
  <2>1. d \in registry[h] OBVIOUS
  <2>2. CASE d = c BY <2>1, <2>2 DEF PointsNowhereElse
  <2>3. CASE d # c BY <2>1, <2>3 DEF PointsNowhereElse
  <2> QED BY <2>2, <2>3
<1>5. PointersRegistered'
  <2> SUFFICES ASSUME NEW d \in Clients, NEW h \in Games, Serving(d)', ~Unlisted(d),
                      cur[d] = h \/ (rpc'[d] = "attach" /\ rgame'[d] = h)
               PROVE  d \in registry'[h]
    BY DEF PointersRegistered, Unlisted
  <2>1. d # c BY DEF Serving
  <2>2. d \in registry[h] BY <2>1 DEF PointersRegistered, Serving
  <2> QED BY <2>1, <2>2
<1>6. NewAndGone' BY DEF NewAndGone
<1>7. ClearInOrder'
  <2>1. stage \notin Over BY DEF ClearInOrder
  <2> QED BY <2>1 DEF ClearInOrder
<1> QED BY <1>2, <1>3, <1>4, <1>5, <1>6, <1>7

\* disconnect takes the client out of the game it is registered with, if it is
\* listed in no other.
LEMMA DisconnectKeepsLetsGo ==
  ASSUME SInv, NEW c \in Clients, UNCHANGED shvars, RecvDisconnect(c),
         twice \subseteq twice'
  PROVE  LetsGo'
<1>1. LetsGo /\ TypeOK /\ GTypeOK /\ HandlerTypes
  BY TypesSplit DEF SInv
<1>2. UNCHANGED <<reaped, hs, todo, joining, cur, shvars>> /\ rpc[c] = "idle"
  BY DEF RecvDisconnect, avars, Reading
<1>3. CASE InNoGame(c) /\ Goto(c, "forget") /\ UNCHANGED <<gvars, rgame>>
  <2>1. \A g \in Games : c \in registry'[g] => c \in threw \/ c \in twice \/ HalfOut(c)
    BY <1>1, <1>3
       DEF InNoGame, HasPlayer, Mapped, LetsGo, RegisteredPlay, Regular, OnlyMappedSend, gvars
  <2>2. rpc'[c] = "forget" /\ \A d \in Clients : d # c => rpc'[d] = rpc[d] /\ rgame'[d] = rgame[d]
    BY <1>1, <1>3 DEF Goto, HandlerTypes
  <2>3. UNCHANGED <<mem, registry, players>> BY <1>3 DEF gvars
  <2> QED
    BY <1>1, <1>2, <2>1, <2>2, <2>3, LeavesKeepsLetsGo
<1>4. ASSUME NEW g \in Games, DisconnectFrom(c, g),
             rgame' = [rgame EXCEPT ![c] = IF mem'[g] = "detached" THEN g ELSE NoGame],
             Goto(c, IF mem'[g] = "detached" THEN "stop" ELSE "forget")
      PROVE  LetsGo'
  <2>1. /\ mem[g] = "mapped" /\ c \in players[g]
        /\ registry' = [registry EXCEPT ![g] = @ \ {c}]
        /\ mem' = [mem EXCEPT ![g] = IF registry'[g] = {} THEN "detached" ELSE @]
        /\ players' = players \/ players' = [players EXCEPT ![g] = @ \ {c}]
    BY <1>4 DEF DisconnectFrom, FirstGameOf, OnDisconnect, HasPlayer, Mapped
  <2>2. \A h \in Games : mem'[h] # mem[h] =>
          mem[h] = "mapped" /\ mem'[h] = "detached" /\ registry'[h] = {}
    BY <1>1, <2>1 DEF GTypeOK
  <2>3. \A h \in Games : /\ registry'[h] \in {registry[h], registry[h] \ {c}}
                         /\ players'[h] \in {players[h], players[h] \ {c}}
    BY <1>1, <2>1 DEF GTypeOK
  <2>4. \A h \in Games : c \in registry'[h] => c \in twice
    <3> SUFFICES ASSUME NEW h \in Games, c \in registry'[h] PROVE c \in twice
      OBVIOUS
    <3>1. h # g /\ c \in registry[h]
      BY <1>1, <2>1 DEF GTypeOK
    <3>2. Listed(c, h) /\ Listed(c, g)
      BY <1>1, <2>1, <3>1 DEF Listed, Mapped, HasPlayer, LetsGo, OnlyMappedSend
    <3> QED BY <3>1, <3>2 DEF InTwoGames, SInv, TwiceRecorded
  <2>5. rpc'[c] \in {"stop", "forget"}
        /\ \A d \in Clients : d # c => rpc'[d] = rpc[d] /\ rgame'[d] = rgame[d]
    BY <1>1, <1>4 DEF Goto, HandlerTypes
  <2> QED
    BY <1>1, <1>2, <2>2, <2>3, <2>4, <2>5, LeavesKeepsLetsGo
<1> QED
  BY <1>3, <1>4, Zenon DEF RecvDisconnect

\* Games that are not in the map are destroyed; a receiver may go on to forget.
LEMMA DestroyKeepsLetsGo ==
  ASSUME LetsGo, TypeOK, NEW S \in SUBSET Games, \A g \in S : mem[g] # "mapped", Destroy(S),
         UNCHANGED <<cur, hs, todo, joining, shvars>>,
         reaped' \subseteq reaped,
         \/ UNCHANGED <<rpc, rgame>>
         \/ \E c \in Clients : /\ rpc[c] = "destroy" /\ rpc'[c] = "forget"
                               /\ \A d \in Clients : d # c => rpc'[d] = rpc[d] /\ rgame'[d] = rgame[d],
         twice \subseteq twice'
  PROVE  LetsGo'
<1> USE DEF Regular, LetsGo, shvars
<1>1. HandlerTypes /\ GTypeOK /\ AcceptorTypes
  BY TypesSplit
<1>2. \A g \in Games : /\ mem'[g] = IF g \in S THEN "freed" ELSE mem[g]
                       /\ registry'[g] = registry[g]
                       /\ mem[g] = "mapped" => players'[g] = players[g]
  BY <1>1 DEF Destroy, Cleared, OnlyMappedSend
<1>3. \A d \in Clients : /\ Serving(d)' <=> Serving(d)
                         /\ Serving(d) => rpc'[d] = rpc[d] /\ rgame'[d] = rgame[d]
                         /\ rpc'[d] = "attach" => rpc[d] = "attach" /\ rgame'[d] = rgame[d]
                         /\ rpc[d] \in {"off", "done"} => rpc'[d] = rpc[d]
                         /\ rpc'[d] = rpc[d] \/ rpc[d] = "destroy"
  BY DEF Serving
<1>4. OnlyMappedSend'
  BY <1>1, <1>2 DEF OnlyMappedSend, AcceptorTypes
<1>5. RegisteredPlay'
  BY <1>2, <1>3 DEF RegisteredPlay, HalfOut, OnlyMappedSend
<1>6. PointsNowhereElse'
  BY <1>2, <1>3 DEF PointsNowhereElse, Unlisted
<1>7. PointersRegistered'
  BY <1>2, <1>3 DEF PointersRegistered, Unlisted, Serving
<1>8. NewAndGone' BY <1>3 DEF NewAndGone
<1>9. ClearInOrder'
  BY <1>1, <1>3 DEF ClearInOrder, AcceptorTypes
<1> QED BY <1>4, <1>5, <1>6, <1>7, <1>8, <1>9

LEMMA RecvDestroyKeepsLetsGo ==
  ASSUME SInv, NEW c \in Clients, UNCHANGED shvars, RecvDestroyGame(c),
         twice \subseteq twice'
  PROVE  LetsGo'
<1>1. LetsGo /\ TypeOK /\ HandlerTypes /\ rgame[c] \in Games
  BY TypesSplit DEF SInv, ThreadsInPlace, RecvDestroyGame
<1>2. Destroy({rgame[c]}) /\ mem[rgame[c]] # "mapped"
  BY DEF RecvDestroyGame, DestroyGame
<1>3. UNCHANGED <<cur, hs, todo, joining, reaped>>
  BY DEF RecvDestroyGame, avars
<1>4. /\ rpc[c] = "destroy" /\ rpc'[c] = "forget"
      /\ \A d \in Clients : d # c => rpc'[d] = rpc[d] /\ rgame'[d] = rgame[d]
  BY <1>1 DEF RecvDestroyGame, Goto, HandlerTypes
<1>5. {rgame[c]} \in SUBSET Games /\ \A g \in {rgame[c]} : mem[g] # "mapped"
  BY <1>1, <1>2
<1> HIDE DEF SInv
<1> QED
  BY <1>1, <1>2, <1>3, <1>4, <1>5, DestroyKeepsLetsGo

\* An exception ends the receiver; threw knows.
LEMMA CutShortKeepsLetsGo ==
  ASSUME SInv, NEW c \in Clients, CutShort(c),
         twice \subseteq twice'
  PROVE  LetsGo'
<1> USE DEF Regular, SInv, LetsGo
<1>1. HandlerTypes
  BY TypesSplit
<1>2. /\ UNCHANGED <<mem, players, registry, reaped, hs, todo, joining, cur, rgame>>
      /\ UNCHANGED <<stage, clearing, cstep, closedOut>>
      /\ rpc[c] = "idle" /\ rpc' = [rpc EXCEPT ![c] = "done"] /\ threw' = threw \cup {c}
  BY DEF CutShort, Reading, Goto, gvars, avars
<1>3. OnlyMappedSend' BY <1>2 DEF OnlyMappedSend
<1>4. RegisteredPlay' BY <1>1, <1>2 DEF RegisteredPlay, HalfOut, Serving, HandlerTypes
<1>5. PointsNowhereElse' BY <1>1, <1>2 DEF PointsNowhereElse, Unlisted, HandlerTypes
<1>6. PointersRegistered' BY <1>1, <1>2 DEF PointersRegistered, Unlisted, Serving, HandlerTypes
<1>7. NewAndGone' BY <1>1, <1>2 DEF NewAndGone, HandlerTypes
<1>8. ClearInOrder' BY <1>1, <1>2 DEF ClearInOrder, HandlerTypes
<1> QED BY <1>3, <1>4, <1>5, <1>6, <1>7, <1>8

LEMMA PushThrowsKeepsLetsGo ==
  ASSUME SInv, NEW c \in Clients, PushThrows(c),
         twice \subseteq twice'
  PROVE  LetsGo'
<1> USE DEF Regular, SInv, LetsGo
<1>1. HandlerTypes /\ GTypeOK
  BY TypesSplit
<1>2. /\ UNCHANGED <<reaped, hs, todo, joining, cur, rgame, stage, clearing, cstep, closedOut>>
      /\ rpc[c] = "idle" /\ rpc' = [rpc EXCEPT ![c] = "done"] /\ threw' = threw \cup {c}
  BY DEF PushThrows, Reading, Goto, avars
<1>3. /\ \A g \in Games : mem'[g] = "mapped" \/ (mem'[g] = mem[g] /\ registry'[g] = registry[g])
      /\ \A g \in Games : mem'[g] = mem[g] \/ mem[g] = "unused"
      /\ \A d \in Clients, g \in Games : d # c =>
           /\ d \in registry'[g] <=> d \in registry[g]
           /\ d \in registry[g] /\ d \in players[g] => d \in players'[g]
  <2>1. CASE \E g \in Games :
               /\ mem[g] = "unused" /\ mem' = [mem EXCEPT ![g] = "mapped"]
               /\ registry' = [registry EXCEPT ![g] = {c}]
               /\ players' = [players EXCEPT ![g] = {c}]
    BY <1>1, <2>1 DEF GTypeOK, OnlyMappedSend
  <2>2. CASE \E g \in Games :
               /\ mem[g] = "mapped" /\ mem' = mem
               /\ registry' = [registry EXCEPT ![g] = @ \cup {c}]
               /\ players' = [players EXCEPT ![g] = @ \cup {c}]
    BY <1>1, <2>2 DEF GTypeOK
  <2>3. CASE UNCHANGED <<mem, registry, players>>
    BY <2>3
  <2> QED BY <2>1, <2>2, <2>3, Zenon DEF PushThrows, Mapped
<1>4. OnlyMappedSend' BY <1>1, <1>2, <1>3, TypesSplit DEF OnlyMappedSend, AcceptorTypes
<1>5. RegisteredPlay' BY <1>1, <1>2, <1>3 DEF RegisteredPlay, HalfOut, Serving, HandlerTypes
<1>6. PointsNowhereElse' BY <1>1, <1>2, <1>3 DEF PointsNowhereElse, Unlisted, HandlerTypes
<1>7. PointersRegistered'
  BY <1>1, <1>2, <1>3 DEF PointersRegistered, Unlisted, Serving, HandlerTypes
<1>8. NewAndGone' BY <1>1, <1>2 DEF NewAndGone, HandlerTypes
<1>9. ClearInOrder' BY <1>1, <1>2 DEF ClearInOrder, HandlerTypes
<1> QED BY <1>4, <1>5, <1>6, <1>7, <1>8, <1>9

\* While the server serves: the receivers
LEMMA ReceiversKeepLetsGo ==
  ASSUME SInv, TwiceRecorded', NEW c \in Clients, ReceiverRuns(c),
         twice \subseteq twice'
  PROVE  LetsGo'
<1>1. ASSUME RecvJoinRefused(c), UNCHANGED shvars PROVE LetsGo'
  <2>1. UNCHANGED rvars BY <1>1 DEF RecvJoinRefused, RefuseJoin, hvars, avars, rvars
  <2> QED BY <1>1, <2>1, QuietKeepsLetsGo DEF SInv
<1>2. ~RecvThrows(c)
  BY NoOtherExceptions DEF RecvThrows
<1> QED
  BY <1>1, <1>2, OwnStepsKeepLetsGo, CreateAndJoinKeepLetsGo, DisconnectKeepsLetsGo,
     RecvDestroyKeepsLetsGo, CutShortKeepsLetsGo, PushThrowsKeepsLetsGo, Zenon
     DEF ReceiverRuns, Receiver

\* The acceptor joins only handlers whose receiver has ended: what it removes
\* from a game is there only after an exception.
LEMMA AcceptorKeepsLetsGo ==
  ASSUME SInv, AcceptorRuns,
         twice \subseteq twice'
  PROVE  LetsGo'
<1> USE DEF Regular, SInv, LetsGo
<1>1. HandlerTypes /\ GTypeOK /\ AcceptorTypes
  BY TypesSplit
<1>2. /\ stage \in {"serving", "stopping"} /\ stage \notin Over /\ UNCHANGED shvars
      /\ clearing = NoClient /\ closedOut = {}
  BY DEF AcceptorRuns, ClearInOrder, Over
<1>3. \A c \in Clients : ~HalfOut(c) /\ ~Unlisted(c) /\ c # NoClient
  BY <1>2, PointersAssumption DEF HalfOut, Unlisted
<1>4. ClearInOrder'
  BY <1>2, PointersAssumption DEF ClearInOrder, shvars
<1>5. CASE ReapGames
  <2>1. /\ UNCHANGED <<players, registry, rpc, rgame, cur, hs, shvars>>
        /\ mem' = [g \in Games |-> IF g \in Reapable THEN "detached" ELSE mem[g]]
        /\ reaped' = Reapable /\ \A g \in Reapable : mem[g] = "mapped" /\ registry[g] = {}
    BY <1>2, <1>5 DEF ReapGames, ReapFinishedGames, Reapable, Mapped, IsEmpty, hvars
  <2>2. OnlyMappedSend'
    BY <1>1, <2>1 DEF OnlyMappedSend, Reapable
  <2>3. RegisteredPlay' /\ PointsNowhereElse'
    BY <2>1 DEF RegisteredPlay, PointsNowhereElse, HalfOut, Unlisted, Serving, shvars
  <2>4. PointersRegistered' /\ NewAndGone'
    BY <2>1 DEF PointersRegistered, NewAndGone, Unlisted, Serving, shvars
  <2> QED BY <1>4, <2>2, <2>3, <2>4
<1>6. CASE ReapFree
  <2>1. Destroy(reaped) /\ reaped' = {} /\ UNCHANGED <<rpc, rgame, cur, hs, todo, joining>>
    BY <1>6 DEF ReapFree, hvars
  <2>2. reaped \in SUBSET Games /\ \A g \in reaped : mem[g] # "mapped"
    BY <1>1 DEF AcceptorTypes, OnlyMappedSend
  <2> HIDE DEF SInv, LetsGo
  <2>3. LetsGo /\ TypeOK BY DEF SInv
  <2> QED BY <1>2, <2>1, <2>2, <2>3, DestroyKeepsLetsGo
<1>7. CASE JoinHandler \/ ReapEnds \/ JoinBuildsSnapshot \/ JoinBroadcasts \/ AcceptFails
  <2>1. UNCHANGED <<mem, players, registry, reaped, rpc, rgame, cur, hs, shvars>>
    BY <1>2, <1>7 DEF JoinHandler, ReapEnds, JoinBuildsSnapshot, JoinBroadcasts, AcceptFails,
                      gvars, hvars
  <2>2. OnlyMappedSend' /\ RegisteredPlay' /\ PointsNowhereElse'
    BY <2>1 DEF OnlyMappedSend, RegisteredPlay, PointsNowhereElse, HalfOut, Unlisted, Serving,
                shvars
  <2>3. PointersRegistered' /\ NewAndGone'
    BY <2>1 DEF PointersRegistered, NewAndGone, Unlisted, Serving, shvars
  <2> QED BY <1>4, <2>2, <2>3
<1>8. CASE JoinRemovesPlayer \/ JoinUnregisters
  <2>1. joining \in Clients /\ cur[joining] \in Games /\ rpc[joining] = "done"
    BY <1>8 DEF JoinRemovesPlayer, JoinUnregisters, ThreadsInPlace, Joins
  <2>2. UNCHANGED <<mem, reaped, rpc, rgame, cur, hs, shvars>>
    BY <1>2, <1>8 DEF JoinRemovesPlayer, JoinUnregisters, hvars
  <2>3. \A d \in Clients, g \in Games :
          /\ d \in registry'[g] => d \in registry[g]
          /\ d # joining => (d \in registry'[g] <=> d \in registry[g])
                            /\ (d \in players'[g] <=> d \in players[g])
    BY <1>1, <1>8, <2>1 DEF JoinRemovesPlayer, JoinUnregisters, GTypeOK
  <2>4. \A g \in Games : registry[g] = {} => registry'[g] = {}
    BY <1>1, <1>8, <2>1 DEF JoinRemovesPlayer, JoinUnregisters, GTypeOK
  <2>5. OnlyMappedSend' BY <2>2, <2>4 DEF OnlyMappedSend
  <2>6. RegisteredPlay' /\ PointsNowhereElse'
    BY <1>3, <2>1, <2>2, <2>3 DEF RegisteredPlay, PointsNowhereElse, HalfOut, Unlisted, Serving, shvars
  <2>7. PointersRegistered'
    BY <2>1, <2>2, <2>3 DEF PointersRegistered, Unlisted, Serving, shvars
  <2>8. NewAndGone' BY <2>2 DEF NewAndGone
  <2> QED BY <1>4, <2>5, <2>6, <2>7, <2>8
<1>9. CASE JoinErases
  <2>1. joining \in Clients => rpc[joining] = "done"
    BY DEF ThreadsInPlace
  <2>2. /\ UNCHANGED <<mem, players, registry, reaped, rpc, rgame, shvars>>
        /\ cur' = [cur EXCEPT ![joining] = NoGame] /\ hs' = [hs EXCEPT ![joining] = "gone"]
    BY <1>2, <1>9 DEF JoinErases, gvars
  <2>3. OnlyMappedSend' /\ RegisteredPlay'
    BY <2>2 DEF OnlyMappedSend, RegisteredPlay, HalfOut, Serving, shvars
  <2>4. PointsNowhereElse'
    BY <1>1, <2>2 DEF PointsNowhereElse, Unlisted, HandlerTypes, shvars
  <2>5. PointersRegistered'
    BY <1>1, <2>1, <2>2, PointersAssumption
       DEF PointersRegistered, Unlisted, Serving, HandlerTypes, shvars
  <2>6. NewAndGone'
    BY <1>1, <2>1, <2>2 DEF NewAndGone, HandlerTypes
  <2> QED BY <1>4, <2>3, <2>4, <2>5, <2>6
<1>10. ASSUME NEW c \in Clients, Accept(c) PROVE LetsGo'
  <2>1. /\ hs[c] = "new" /\ rpc[c] = "off" /\ rpc' = [rpc EXCEPT ![c] = "idle"]
        /\ hs' = [hs EXCEPT ![c] = "up"]
        /\ UNCHANGED <<mem, players, registry, reaped, rgame, cur, shvars>>
    BY <1>2, <1>10 DEF Accept, ThreadsInPlace, gvars
  <2>2. OnlyMappedSend' BY <2>1 DEF OnlyMappedSend
  <2>3. RegisteredPlay' /\ PointsNowhereElse'
    BY <1>1, <1>3, <2>1
       DEF RegisteredPlay, PointsNowhereElse, HalfOut, Unlisted, Serving, HandlerTypes, shvars
  <2>4. PointersRegistered'
    BY <1>1, <1>3, <2>1, PointersAssumption
       DEF PointersRegistered, NewAndGone, Unlisted, Serving, HandlerTypes, shvars
  <2>5. NewAndGone' BY <1>1, <2>1 DEF NewAndGone, HandlerTypes
  <2> QED BY <1>4, <2>2, <2>3, <2>4, <2>5
<1> QED
  BY <1>5, <1>6, <1>7, <1>8, <1>9, <1>10, Zenon DEF AcceptorRuns, Acceptor, AcceptReturns

\* The stages between
LEMMA StagesKeepLetsGo ==
  ASSUME SInv, Quit \/ AcceptorEnds \/ Crash \/ StopAll \/ JoinAll,
         twice \subseteq twice'
  PROVE  LetsGo'
<1> USE DEF Regular, SInv, LetsGo
<1>1. HandlerTypes /\ GTypeOK /\ AcceptorTypes
  BY TypesSplit
<1>2. CASE Quit \/ AcceptorEnds \/ Crash \/ StopAll
  <2>1. UNCHANGED <<mem, players, registry, reaped, rpc, rgame, cur, hs, joining>>
        /\ UNCHANGED <<clearing, cstep, closedOut, threw>>
    BY <1>2, Zenon DEF Quit, AcceptorEnds, Crash, StopAll, vars, gvars, hvars, avars
  <2>2. OnlyMappedSend' /\ RegisteredPlay' /\ PointsNowhereElse'
    BY <2>1 DEF OnlyMappedSend, RegisteredPlay, PointsNowhereElse, HalfOut, Unlisted, Serving
  <2>3. PointersRegistered' /\ NewAndGone'
    BY <2>1 DEF PointersRegistered, NewAndGone, Unlisted, Serving
  <2>4. ASSUME Quit PROVE ClearInOrder'
    BY <2>1, <2>4 DEF Quit, ClearInOrder, Over, vars, avars
  <2>5. ASSUME AcceptorEnds PROVE ClearInOrder'
    BY <1>1, <2>1, <2>5, PointersAssumption
       DEF AcceptorEnds, ClearInOrder, Over, ThreadsInPlace, Joins, AcceptorTypes
  <2>6. ASSUME Crash PROVE ClearInOrder'
    BY <2>1, <2>6 DEF Crash, ClearInOrder, Over, vars, avars
  <2>7. ASSUME StopAll PROVE ClearInOrder'
    BY <2>1, <2>7 DEF StopAll, ClearInOrder, Over, avars
  <2> QED BY <1>2, <2>2, <2>3, <2>4, <2>5, <2>6, <2>7
<1>3. CASE JoinAll
  <2>1. /\ UNCHANGED <<reaped, rpc, rgame, cur, hs, todo, joining, clearing, cstep, closedOut, threw>>
        /\ stage = "join_all" /\ stage' = "exited"
    BY <1>3 DEF JoinAll, hvars, avars
  <2>2. \A g \in Games : registry'[g] = {}
    BY <1>1, <1>3 DEF JoinAll, Destroy, Cleared, Mapped, OnlyMappedSend
  <2>3. \A c \in Clients : ~Serving(c) /\ ~Serving(c)'
    BY <2>1 DEF ClearInOrder, Over, Serving
  <2>4. reaped = {}
    BY <2>1 DEF ClearInOrder
  <2>5. OnlyMappedSend' BY <2>1, <2>2, <2>4 DEF OnlyMappedSend
  <2>6. RegisteredPlay' /\ PointsNowhereElse'
    BY <2>2 DEF RegisteredPlay, PointsNowhereElse
  <2>7. PointersRegistered' BY <2>3 DEF PointersRegistered
  <2>8. NewAndGone' BY <2>1 DEF NewAndGone
  <2>9. ClearInOrder' BY <2>1 DEF ClearInOrder, Over
  <2> QED BY <2>5, <2>6, <2>7, <2>8, <2>9
<1> QED
  BY <1>2, <1>3

\* The acceptor unregisters through the pointer it has, after it took the
\* player out; whatever the receiver does between, that pointer is none or to
\* the game where the client is registered.
LEMMA ClearKeepsLetsGo ==
  ASSUME SInv, Clear,
         twice \subseteq twice'
  PROVE  LetsGo'
<1> USE PointersAssumption DEF Regular, SInv, LetsGo
<1>1. HandlerTypes /\ GTypeOK /\ AcceptorTypes
  BY TypesSplit
<1>2. CASE ClearPicks \/ ClearBuildsSnapshot \/ ClearBroadcasts \/ ClearUsesFreed \/ ClearCloses
           \/ ClearJoins
  <2>1. /\ UNCHANGED <<mem, players, registry, reaped, rpc, rgame, cur, hs, joining, threw>>
        /\ stage = "clearing" /\ stage' = "clearing"
    BY <1>2, Zenon DEF ClearPicks, ClearBuildsSnapshot, ClearBroadcasts, ClearUsesFreed,
                ClearCloses, ClearJoins, Clearing, vars, gvars, hvars, avars
  <2>2. OnlyMappedSend' /\ NewAndGone'
    BY <2>1 DEF OnlyMappedSend, NewAndGone
  <2>3. ClearInOrder'
    <3>1. CASE ClearPicks
      BY <1>1, <2>1, <3>1 DEF ClearPicks, ClearInOrder, Over, AcceptorTypes
    <3>2. CASE ClearBuildsSnapshot \/ ClearBroadcasts \/ ClearUsesFreed
      BY <2>1, <3>2 DEF ClearBuildsSnapshot, ClearBroadcasts, ClearUsesFreed, Clearing, Uses,
                        ClearInOrder, Over
    <3>3. CASE ClearCloses
      BY <2>1, <3>3 DEF ClearCloses, Clearing, ClearInOrder, Over, avars
    <3>4. CASE ClearJoins
      BY <2>1, <3>4 DEF ClearJoins, Clearing, ClearInOrder, Over, vars, avars
    <3> QED BY <1>2, <3>1, <3>2, <3>3, <3>4
  <2>4. \A c \in Clients : Unlisted(c) => Unlisted(c)'
    BY <1>2, <2>1 DEF ClearPicks, ClearBuildsSnapshot, ClearBroadcasts, ClearUsesFreed,
                ClearCloses, ClearJoins, Clearing, Uses, Unlisted, ClearInOrder, vars
  <2>5. PointsNowhereElse' /\ PointersRegistered'
    BY <2>1, <2>4 DEF PointsNowhereElse, PointersRegistered, Serving
  <2>6. \A c \in Clients, g \in Games :
          HalfOut(c) /\ c \in registry[g] /\ Regular(c) => HalfOut(c)'
    <3> SUFFICES ASSUME NEW c \in Clients, NEW g \in Games,
                        HalfOut(c), c \in registry[g], Regular(c)
                 PROVE  HalfOut(c)'
      OBVIOUS
    <3>1. ~Unlisted(c)
      BY DEF HalfOut, Unlisted, ClearInOrder
    <3>2. cur[c] # NoGame => cur[c] = g /\ mem[g] = "mapped"
      BY <3>1 DEF PointsNowhereElse, OnlyMappedSend
    <3>3. ~ClearUsesFreed
      BY <3>2 DEF ClearUsesFreed, Usable, HalfOut
    <3> QED BY <1>2, <3>3 DEF HalfOut, ClearPicks, ClearBuildsSnapshot, ClearBroadcasts,
                              ClearCloses, ClearJoins, Clearing
  <2>7. RegisteredPlay'
    BY <2>1, <2>6 DEF RegisteredPlay, Serving
  <2> QED BY <2>2, <2>3, <2>5, <2>7
<1>3. CASE ClearRemovesPlayer
  <2>1. /\ UNCHANGED <<mem, registry, reaped, rpc, rgame, cur, hs, todo, joining, threw, closedOut,
                       stage, clearing>>
        /\ stage = "clearing" /\ cstep = "players" /\ cstep' = "registry"
        /\ players' = [players EXCEPT ![cur[clearing]] = @ \ {clearing}]
    BY <1>3 DEF ClearRemovesPlayer, Clearing, hvars, avars
  <2>2. clearing \in Clients
    BY <2>1 DEF ClearInOrder
  <2>3. \A d \in Clients, g \in Games : d # clearing => (d \in players'[g] <=> d \in players[g])
    BY <1>1, <2>1 DEF GTypeOK
  <2>4. OnlyMappedSend' /\ NewAndGone'
    BY <2>1 DEF OnlyMappedSend, NewAndGone
  <2>5. RegisteredPlay'
    BY <2>1, <2>3 DEF RegisteredPlay, HalfOut, Serving
  <2>6. PointsNowhereElse' /\ PointersRegistered'
    BY <2>1 DEF PointsNowhereElse, PointersRegistered, Unlisted, Serving
  <2>7. ClearInOrder'
    BY <2>1 DEF ClearInOrder, Over
  <2> QED BY <2>4, <2>5, <2>6, <2>7
<1>4. CASE ClearUnregisters
  <2>1. /\ UNCHANGED <<mem, players, reaped, rpc, rgame, cur, hs, todo, joining, threw, closedOut,
                       stage, clearing>>
        /\ stage = "clearing" /\ cstep = "registry" /\ cstep' = "snapshot"
        /\ registry' = [registry EXCEPT ![cur[clearing]] = @ \ {clearing}]
        /\ cur[clearing] # NoGame
    BY <1>4 DEF ClearUnregisters, Clearing, Usable, hvars, avars
  <2>2. clearing \in Clients /\ clearing \notin closedOut
    BY <2>1 DEF ClearInOrder
  <2>3. /\ \A d \in Clients, g \in Games : /\ d \in registry'[g] => d \in registry[g]
                                           /\ d # clearing /\ d \in registry[g] => d \in registry'[g]
        /\ \A g \in Games : registry[g] = {} => registry'[g] = {}
        /\ \A g \in Games : cur[clearing] = g => clearing \notin registry'[g]
    BY <1>1, <2>1 DEF GTypeOK
  <2>4. \A g \in Games : clearing \in registry'[g] => ~Regular(clearing)
    <3> SUFFICES ASSUME NEW g \in Games, clearing \in registry'[g], Regular(clearing)
                 PROVE  FALSE
      OBVIOUS
    <3>1. clearing \in registry[g] /\ ~Unlisted(clearing)
      BY <2>1, <2>2, <2>3 DEF Unlisted
    <3>2. cur[clearing] = g
      BY <2>1, <2>2, <3>1 DEF PointsNowhereElse
    <3> QED BY <2>3, <3>2
  <2>5. OnlyMappedSend' /\ NewAndGone'
    BY <2>1, <2>3 DEF OnlyMappedSend, NewAndGone
  <2>6. RegisteredPlay'
    BY <2>1, <2>3, <2>4 DEF RegisteredPlay, HalfOut, Serving
  <2>7. PointsNowhereElse' /\ PointersRegistered'
    BY <2>1, <2>3, <2>4 DEF PointsNowhereElse, PointersRegistered, Unlisted, Serving
  <2>8. ClearInOrder'
    BY <2>1 DEF ClearInOrder, Over
  <2> QED BY <2>5, <2>6, <2>7, <2>8
<1>5. CASE ClearForgets
  <2>1. /\ UNCHANGED <<mem, players, registry, reaped, rpc, rgame, hs, todo, joining, threw, closedOut,
                       stage, clearing>>
        /\ stage = "clearing" /\ cstep = "forget" /\ cstep' = "close"
        /\ cur' = [cur EXCEPT ![clearing] = NoGame]
    BY <1>5 DEF ClearForgets, Clearing, gvars, avars
  <2>2. OnlyMappedSend' /\ NewAndGone'
    BY <1>1, <2>1 DEF OnlyMappedSend, NewAndGone, HandlerTypes
  <2>3. RegisteredPlay'
    BY <2>1 DEF RegisteredPlay, HalfOut, Serving
  <2>4. PointsNowhereElse' /\ PointersRegistered'
    BY <1>1, <2>1 DEF PointsNowhereElse, PointersRegistered, Unlisted, Serving, HandlerTypes
  <2>5. ClearInOrder'
    BY <2>1 DEF ClearInOrder, Over
  <2> QED BY <2>2, <2>3, <2>4, <2>5
<1>6. CASE ClearFrees
  <2>1. /\ UNCHANGED <<mem, players, registry, reaped, rpc, rgame, todo, joining, threw, closedOut,
                       clearing, cstep>>
        /\ stage = "clearing" /\ stage' = "stop_all" /\ clearing = NoClient /\ todo = {}
        /\ hs' = [c \in Clients |-> IF hs[c] = "up" THEN "gone" ELSE hs[c]]
        /\ cur' = [c \in Clients |-> NoGame]
    BY <1>6 DEF ClearFrees, gvars, avars
  <2>2. \A c \in Clients : hs[c] = "up" => rpc[c] = "done"
    BY <2>1 DEF ClearInOrder
  <2>3. \A c \in Clients : rpc[c] \in {"off", "done"}
    BY <1>1, <2>2 DEF NewAndGone, ThreadsInPlace, HandlerTypes
  <2>4. OnlyMappedSend' /\ NewAndGone'
    BY <1>1, <2>1, <2>2 DEF OnlyMappedSend, NewAndGone, HandlerTypes
  <2>5. RegisteredPlay'
    BY <2>1 DEF RegisteredPlay, HalfOut, Serving
  <2>6. PointsNowhereElse' /\ PointersRegistered'
    BY <2>1, <2>3 DEF PointsNowhereElse, PointersRegistered, Unlisted, Serving
  <2>7. ClearInOrder'
    BY <2>1, <2>3 DEF ClearInOrder, Over
  <2> QED BY <2>4, <2>5, <2>6, <2>7
<1> QED
  BY <1>2, <1>3, <1>4, <1>5, <1>6, Zenon DEF Clear

\* Destroying games and pushing snapshots keep the monitor's types.
LEMMA DestroyTypes ==
  ASSUME GTypeOK, NEW S \in SUBSET Games, Destroy(S) PROVE GTypeOK'
BY DEF GTypeOK, Destroy, Cleared

\* The steps that are the shutdown's own
LEMMA ShutdownTypes ==
  ASSUME SInv,
         \/ \E c \in Clients : PushThrows(c) \/ CutShort(c) \/ SenderMeetsClosed(c)
         \/ AcceptorEnds \/ Clear \/ StopAll \/ JoinAll
  PROVE  TypeOK' /\ ThreadsInPlace'
<1> USE PointersAssumption
<1>1. TypeOK /\ ThreadsInPlace /\ HandlerTypes /\ GTypeOK /\ AcceptorTypes
  BY TypesSplit DEF SInv
<1>2. TypeOK' <=> GTypeOK' /\ HandlerTypes' /\ AcceptorTypes'
  BY Zenon DEF TypeOK, HandlerTypes, AcceptorTypes
<1>3. stage = "clearing" => joining = NoClient /\ (clearing \in Clients \/ clearing = NoClient)
  BY DEF SInv, LetsGo, ClearInOrder
<1>4. joining = NoClient => apc \notin Joins
  BY <1>1 DEF ThreadsInPlace
<1>5. ASSUME NEW c \in Clients, PushThrows(c) PROVE TypeOK' /\ ThreadsInPlace'
  <2>1. GTypeOK'
    <3>1. UNCHANGED <<started, cars, told, closed, view, outq>>
      BY <1>5 DEF PushThrows
    <3>2. CASE UNCHANGED <<mem, lobby, loop, registry, players>>
      BY <1>1, <3>1, <3>2 DEF GTypeOK
    <3>3. ASSUME NEW g \in Games, NEW id \in LobbyIds, lobby' = [lobby EXCEPT ![g] = id],
                 mem' = [mem EXCEPT ![g] = "mapped"], loop' = [loop EXCEPT ![g] = "alive"],
                 registry' = [registry EXCEPT ![g] = {c}], players' = [players EXCEPT ![g] = {c}]
          PROVE  GTypeOK'
      BY <1>1, <3>1, <3>3, LobbyIdsAssumption DEF GTypeOK
    <3>4. ASSUME NEW g \in Games, registry' = [registry EXCEPT ![g] = @ \cup {c}],
                 players' = [players EXCEPT ![g] = @ \cup {c}], UNCHANGED <<mem, lobby, loop>>
          PROVE  GTypeOK'
      BY <1>1, <3>1, <3>4 DEF GTypeOK
    <3> QED BY <1>5, <3>2, <3>3, <3>4, Zenon DEF PushThrows
  <2>2. HandlerTypes' /\ AcceptorTypes'
    BY <1>1, <1>5 DEF PushThrows, Goto, avars, HandlerTypes, AcceptorTypes
  <2>3. ThreadsInPlace'
    BY <1>1, <1>5 DEF PushThrows, Reading, Goto, avars, HandlerTypes, ThreadsInPlace, Joins
  <2> QED BY <1>2, <2>1, <2>2, <2>3
<1>6. ASSUME NEW c \in Clients, CutShort(c) PROVE TypeOK' /\ ThreadsInPlace'
  <2>1. GTypeOK' BY <1>1, <1>6 DEF CutShort, gvars, GTypeOK
  <2>2. HandlerTypes' /\ AcceptorTypes'
    BY <1>1, <1>6 DEF CutShort, Goto, avars, HandlerTypes, AcceptorTypes
  <2>3. ThreadsInPlace'
    BY <1>1, <1>6 DEF CutShort, Reading, Goto, avars, HandlerTypes, ThreadsInPlace, Joins
  <2> QED BY <1>2, <2>1, <2>2, <2>3
<1>7. ASSUME NEW c \in Clients, SenderMeetsClosed(c) PROVE TypeOK' /\ ThreadsInPlace'
  <2>1. GTypeOK' BY <1>1, <1>7 DEF SenderMeetsClosed, gvars, GTypeOK
  <2>2. HandlerTypes' /\ AcceptorTypes'
    BY <1>1, <1>7 DEF SenderMeetsClosed, avars, HandlerTypes, AcceptorTypes
  <2>3. ThreadsInPlace'
    BY <1>1, <1>7 DEF SenderMeetsClosed, avars, ThreadsInPlace, Joins
  <2> QED BY <1>2, <2>1, <2>2, <2>3
<1>8. CASE AcceptorEnds
  <2>1. GTypeOK' BY <1>1, <1>8 DEF AcceptorEnds, gvars, GTypeOK
  <2>2. HandlerTypes' /\ AcceptorTypes'
    BY <1>1, <1>8 DEF AcceptorEnds, hvars, HandlerTypes, AcceptorTypes
  <2>3. ThreadsInPlace'
    BY <1>1, <1>8 DEF AcceptorEnds, hvars, ThreadsInPlace, Joins
  <2> QED BY <1>2, <2>1, <2>2, <2>3
<1>9. CASE Clear
  <2>1. GTypeOK'
    <3>1. CASE ClearPicks \/ ClearBuildsSnapshot \/ ClearUsesFreed \/ ClearForgets \/ ClearCloses
               \/ ClearJoins \/ ClearFrees
      <4>1. UNCHANGED gvars
        BY <3>1, Zenon DEF ClearPicks, ClearBuildsSnapshot, ClearUsesFreed, ClearForgets, ClearCloses,
                    ClearJoins, ClearFrees, vars
      <4> QED BY <1>1, <4>1 DEF gvars, GTypeOK
    <3>2. CASE ClearRemovesPlayer
      BY <1>1, <3>2 DEF ClearRemovesPlayer, GTypeOK
    <3>3. CASE ClearUnregisters
      BY <1>1, <3>3 DEF ClearUnregisters, GTypeOK
    <3>4. CASE ClearBroadcasts
      <4>1. clearing \in Clients /\ cur[clearing] \in Games
        BY <1>1, <1>3, <3>4 DEF ClearBroadcasts, Clearing, Usable, HandlerTypes, SInv, LetsGo, ClearInOrder
      <4> QED BY <1>1, <3>4, <4>1
              DEF ClearBroadcasts, BroadcastLobby, Broadcast, GTypeOK, AcceptorTypes
    <3> QED BY <1>9, <3>1, <3>2, <3>3, <3>4, Zenon DEF Clear
  <2>2. stage = "clearing" /\ UNCHANGED <<rpc, rgame, definite, snd, at, apc, reaped, joining>>
    BY <1>9, Zenon DEF Clear, ClearPicks, ClearRemovesPlayer, ClearUnregisters, ClearBuildsSnapshot,
       ClearBroadcasts, ClearUsesFreed, ClearForgets, ClearCloses, ClearJoins, ClearFrees, Clearing,
       vars, hvars, avars
  <2>3. /\ hs' \in [Clients -> {"new", "up", "gone"}]
        /\ \A c \in Clients : hs'[c] = "new" => hs[c] = "new"
    <3>1. CASE ClearFrees BY <1>1, <3>1 DEF ClearFrees, HandlerTypes
    <3>2. CASE ~ClearFrees
      <4>1. hs' = hs
        BY <1>9, <3>2, Zenon DEF Clear, ClearPicks, ClearRemovesPlayer, ClearUnregisters,
           ClearBuildsSnapshot, ClearBroadcasts, ClearUsesFreed, ClearForgets, ClearCloses,
           ClearJoins, vars, hvars
      <4> QED BY <1>1, <4>1 DEF HandlerTypes
    <3> QED BY <3>1, <3>2
  <2>4. cur' \in [Clients -> Games \cup {NoGame}] /\ cmdq' \in [Clients -> Games \cup {NoGame}]
    <3>1. CASE ClearFrees BY <3>1 DEF ClearFrees
    <3>2. CASE ClearForgets BY <1>1, <3>2 DEF ClearForgets, HandlerTypes
    <3>3. CASE ~ClearFrees /\ ~ClearForgets
      <4>1. UNCHANGED <<cur, cmdq>>
        BY <1>9, <3>3, Zenon DEF Clear, ClearPicks, ClearRemovesPlayer, ClearUnregisters,
           ClearBuildsSnapshot, ClearBroadcasts, ClearUsesFreed, ClearCloses,
           ClearJoins, vars, hvars
      <4> QED BY <1>1, <4>1 DEF HandlerTypes
    <3> QED BY <3>1, <3>2, <3>3
  <2>5. peer' \in [Clients -> {"open", "closed"}]
    <3>1. CASE ClearCloses BY <1>1, <3>1 DEF ClearCloses, HandlerTypes
    <3>2. CASE ~ClearCloses
      <4>1. peer' = peer
        BY <1>9, <3>2, Zenon DEF Clear, ClearPicks, ClearRemovesPlayer, ClearUnregisters,
           ClearBuildsSnapshot, ClearBroadcasts, ClearUsesFreed, ClearForgets,
           ClearJoins, ClearFrees, vars, hvars
      <4> QED BY <1>1, <4>1 DEF HandlerTypes
    <3> QED BY <3>1, <3>2
  <2>6. HandlerTypes' BY <1>1, <2>2, <2>3, <2>4, <2>5 DEF HandlerTypes
  <2>7. todo' \in SUBSET Clients
    <3>1. CASE ClearPicks BY <1>1, <3>1 DEF ClearPicks, AcceptorTypes
    <3>2. CASE ~ClearPicks
      <4>1. todo' = todo
        BY <1>9, <3>2, Zenon DEF Clear, ClearRemovesPlayer, ClearUnregisters,
           ClearBuildsSnapshot, ClearBroadcasts, ClearUsesFreed, ClearForgets, ClearCloses,
           ClearJoins, ClearFrees, vars, avars
      <4> QED BY <1>1, <4>1 DEF AcceptorTypes
    <3> QED BY <3>1, <3>2
  <2>8. snapshot' \in SUBSET Clients
    <3>1. CASE ClearBuildsSnapshot
      <4>1. cur[clearing] \in Games
        BY <1>1, <1>3, <3>1 DEF ClearBuildsSnapshot, Clearing, Usable, HandlerTypes, SInv, LetsGo, ClearInOrder
      <4> QED BY <1>1, <3>1, <4>1 DEF ClearBuildsSnapshot, GTypeOK
    <3>2. CASE ClearBroadcasts \/ ClearUsesFreed
      BY <3>2 DEF ClearBroadcasts, ClearUsesFreed
    <3>3. CASE ~(ClearBuildsSnapshot \/ ClearBroadcasts \/ ClearUsesFreed)
      <4>1. snapshot' = snapshot
        BY <1>9, <3>3, Zenon DEF Clear, ClearPicks, ClearRemovesPlayer, ClearUnregisters,
           ClearForgets, ClearCloses, ClearJoins, ClearFrees, vars, avars
      <4> QED BY <1>1, <4>1 DEF AcceptorTypes
    <3> QED BY <3>1, <3>2, <3>3
  <2>9. AcceptorTypes' BY <1>1, <2>2, <2>7, <2>8 DEF AcceptorTypes
  <2>10. ThreadsInPlace'
    BY <1>1, <1>3, <1>4, <2>2, <2>3 DEF ThreadsInPlace, Joins
  <2> QED BY <1>2, <2>1, <2>6, <2>9, <2>10
<1>10. CASE StopAll \/ JoinAll
  <2>1. GTypeOK'
    <3>1. CASE StopAll BY <1>1, <3>1 DEF StopAll, GTypeOK
    <3>2. CASE JoinAll BY <1>1, <3>2, DestroyTypes DEF JoinAll
    <3> QED BY <1>10, <3>1, <3>2
  <2>2. UNCHANGED <<hvars, avars>> BY <1>10 DEF StopAll, JoinAll
  <2>3. ThreadsInPlace' BY <1>1, <2>2 DEF ThreadsInPlace, Joins, hvars, avars
  <2> QED BY <1>1, <1>2, <2>1, <2>2, <2>3, HandlersUnchanged, AcceptorUnchanged
<1> QED
  BY <1>5, <1>6, <1>7, <1>8, <1>9, <1>10

LEMMA ServerTypesStep ==
  ASSUME SInv, [SNext]_allvars
  PROVE  TypeOK' /\ ThreadsInPlace'
<1>1. ASSUME [Next]_vars PROVE TypeOK' /\ ThreadsInPlace'
  BY <1>1, SessionTypesStep, ThreadsInPlaceStep DEF SInv
<1>2. CASE UNCHANGED allvars
  BY <1>1, <1>2, Zenon DEF allvars, svars
<1>3. CASE AcceptorRuns
  BY <1>1, <1>3, Zenon DEF AcceptorRuns, AcceptReturns, Next
<1>4. CASE Quit \/ Crash
  BY <1>1, <1>4, Zenon DEF Quit, Crash
<1>5. ASSUME NEW g \in Games, GameRuns(g) PROVE TypeOK' /\ ThreadsInPlace'
  BY <1>1, <1>5, Zenon DEF GameRuns, Next
<1>6. ASSUME NEW c \in Clients, ReceiverRuns(c) PROVE TypeOK' /\ ThreadsInPlace'
  BY <1>1, <1>6, ShutdownTypes, Zenon DEF ReceiverRuns, Next
<1>7. ASSUME NEW c \in Clients, SenderRuns(c) \/ ClientActs(c) PROVE TypeOK' /\ ThreadsInPlace'
  BY <1>1, <1>7, ShutdownTypes, Zenon DEF SenderRuns, ClientActs, Next
<1>8. CASE AcceptorEnds \/ Clear \/ StopAll \/ JoinAll
  BY <1>8, ShutdownTypes, Zenon
<1> QED
  BY <1>2, <1>3, <1>4, <1>5, <1>6, <1>7, <1>8, Zenon DEF SNext

\* twice grows, and knows who is in two games.
LEMMA TwiceStep ==
  ASSUME TwiceRecorded, [SNext]_allvars
  PROVE  twice \subseteq twice' /\ TwiceRecorded'
<1>1. CASE twice' = twice \cup {c \in Clients : InTwoGames(c)'}
  BY <1>1 DEF TwiceRecorded
<1>2. CASE UNCHANGED allvars
  BY <1>2 DEF TwiceRecorded, InTwoGames, Listed, Mapped, HasPlayer, allvars, svars, vars, gvars
<1> QED
  BY <1>1, <1>2 DEF SNext

LEMMA LetsGoStep ==
  ASSUME SInv, [SNext]_allvars
  PROVE  LetsGo' /\ TwiceRecorded'
<1>. twice \subseteq twice' /\ TwiceRecorded'
  BY TwiceStep DEF SInv
<1>1. ASSUME UNCHANGED <<rvars, shvars>> PROVE LetsGo'
  BY <1>1, QuietKeepsLetsGo, Zenon DEF SInv
<1>2. CASE UNCHANGED allvars
  BY <1>1, <1>2, Zenon DEF allvars, svars, vars, gvars, hvars, avars, rvars
<1>3. ASSUME NEW g \in Games, GameRuns(g) PROVE LetsGo'
  <2>1. UNCHANGED <<rvars, shvars>>
    BY <1>3 DEF GameRuns, GameThread, TournamentOver, LoopExits, LoopCrashes, LoopBroadcasts,
                hvars, avars, rvars
  <2> QED BY <1>1, <2>1
<1>4. ASSUME NEW c \in Clients, SenderRuns(c) \/ ClientActs(c) PROVE LetsGo'
  <2>1. UNCHANGED <<rvars, shvars>>
    BY <1>4 DEF SenderRuns, SenderSends, SenderFails, SenderMeetsClosed, Drain, ClientActs,
                ClientSeesResults, ClientQuits, gvars, hvars, avars, rvars
  <2> QED BY <1>1, <2>1
<1> QED
  BY <1>2, <1>3, <1>4, AcceptorKeepsLetsGo, ReceiversKeepLetsGo, StagesKeepLetsGo,
     ClearKeepsLetsGo, Zenon DEF SNext

LEMMA LetsGoInit == SInit => SInv
<1> SUFFICES ASSUME SInit PROVE SInv
  OBVIOUS
<1> USE PointersAssumption DEF SInit, Init, GInit, Regular
<1>1. TypeOK
  BY DEF TypeOK, GTypeOK
<1>2. ThreadsInPlace
  BY DEF ThreadsInPlace, Joins
<1>3. OnlyMappedSend /\ RegisteredPlay /\ PointsNowhereElse
  BY DEF OnlyMappedSend, RegisteredPlay, PointsNowhereElse
<1>4. PointersRegistered /\ NewAndGone /\ ClearInOrder
  BY DEF PointersRegistered, Serving, NewAndGone, ClearInOrder, Over
<1>5. TwiceRecorded
  BY DEF TwiceRecorded, InTwoGames, Listed, Mapped
<1> QED
  BY <1>1, <1>2, <1>3, <1>4, <1>5 DEF SInv, LetsGo

\* A handler that is gone is half out of no game: clear joins it no more.
LEMMA LetsGoMeans ==
  ASSUME SInv
  PROVE  OthersLetGo
<1> SUFFICES ASSUME NEW g \in Games, NEW c \in registry[g], hs[c] = "gone", Regular(c)
             PROVE  FALSE
  BY DEF OthersLetGo, Regular
<1>1. c \in Clients /\ LetsGo
  BY TypesSplit DEF SInv, GTypeOK
<1>2. rpc[c] = "done"
  BY <1>1 DEF LetsGo, NewAndGone
<1>3. HalfOut(c)
  BY <1>1, <1>2 DEF LetsGo, RegisteredPlay, Serving
<1> QED
  BY <1>1, <1>3 DEF HalfOut, LetsGo, ClearInOrder

\* A game sends its events to a destroyed handler (ClientRegistryMonitor holds
\* the address of its queue) only if an exception ended its receiver or its
\* client was once in two games, for any number of clients and games, in the
\* server's life and in its shutdown.
THEOREM RegistriesLetGo == SSpec => []OthersLetGo
<1>1. SInit => SInv
  BY LetsGoInit
<1>2. SInv /\ [SNext]_allvars => SInv'
  BY ServerTypesStep, LetsGoStep, Zenon DEF SInv
<1>3. SInv => OthersLetGo
  BY LetsGoMeans
<1> QED
  BY <1>1, <1>2, <1>3, PTL DEF SSpec
===============================================================================
