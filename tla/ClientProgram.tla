---------------------------- MODULE ClientProgram ----------------------------
(***************************************************************************)
(* One client program against the server: the two connection threads with  *)
(* their queues, the windows before a race, the race window, and what the  *)
(* server does for this client.  The race itself is a Tournament.          *)
(*                                                                         *)
(* queue_out, the socket and the sender thread of a side are one sequence  *)
(* of messages; each of the client's threads is a set of actions.          *)
(***************************************************************************)
EXTENDS Protocol, Tournament

CONSTANTS
  Me, Name,            \* the user's id and name
  Folder,              \* the maps the program lists, in their order
  Code,                \* of the lobby
  ManyRows, FewRows,   \* of a table of results
  SampleCars, SampleNpcs,
  Upgrades,            \* that the user may click, NOTHING is 0
  Keys,                \* "w" or none: that the user may hold
  MaxUnread,           \* bounds for TLC: on messages that nobody has read,
  MaxKeys,             \* on commands under way when a key goes out,
  MaxGames,            \* on the lobbies asked for
  MaxSnapshots         \* and on snapshots in a row

ASSUME ClientAssumption ==
  /\ Code \in Nat \ {0} /\ Races \in Nat \ {0} /\ Len(Folder) >= Races /\ Tables \in Nat \ {0}
  /\ 0 \notin Upgrades /\ Keys \subseteq {"w"}
  /\ {MaxUnread, MaxKeys, MaxGames, MaxSnapshots} \subseteq Nat

\* What the server makes of a race has this form: the flags are bits, a sound is
\* one of three, and what there is after a checkpoint is there if the flag says so.
Corners == Seq([1 .. 2 -> Int])
WrittenCars ==
  {c \in [car : [1 .. 10 -> Int], next : Corners, goal : {0, 1}, second : {0, 1},
          after : Corners, afterGoal : {0, 1}] :
     c.car[6] \in 0 .. 2 /\ (c.second = 0 => c.after = <<>> /\ c.afterGoal = 0)}
WrittenRows == [name : DOMAIN NameLength, race : Int, total : Int, status : Int]
ASSUME SamplesAssumption ==
  /\ Name \in DOMAIN NameLength /\ Folder \in Seq(DOMAIN NameLength)
  /\ {ManyRows, FewRows} \subseteq Seq(WrittenRows) \ {<<>>}
  /\ SampleCars \in Seq(WrittenCars) /\ SampleNpcs \in Seq([1 .. 6 -> Int])

VARIABLES
  \* server
  seat,         \* "none", "lobby" or "race"
  go,           \* the countdown of the race is over
  answer,       \* the upgrade that came in this round, -1 if none did
  pressed,      \* PlayerInput::w
  \* connection
  toClient, toServer,  \* what the one pushed and the other has not read
  link,                \* "open", or how it ended: "clean", "torn" in a message
  \* client
  receiver,     \* whether ThreadReceiver runs
  inbox,        \* queue_receiver
  window,       \* "opening", "prelobby", "asking", "lobby", "race", "closed"
  action,       \* PreLobby::action_
  code,         \* Lobby::currentLobbyCode
  posted,       \* what the listener told the lobby window to do
  state, is_last_map, race_started, race_start_time,  \* RacePhaseManager
  keep_running,
  current_upgrade,
  user_id,
  hand,         \* the key the user holds
  unsent,       \* history: its last change was not sent
  wish,         \* history: the last upgrade clicked in this round
  left,         \* history: the client left a lobby or a race early, or opened
                \* the race window for no race
  asked         \* history: lobbies asked for

svars == <<tvars, seat, go, answer, pressed>>
wire == <<toClient, toServer, link>>
phasemanager == <<state, is_last_map, race_started, race_start_time>>
racewindow == <<phasemanager, keep_running, current_upgrade, hand, unsent, wish>>
lobbywindow == <<user_id, action, code, posted>>
cvars == <<receiver, inbox, window, lobbywindow, racewindow, left, asked>>
pvars == <<svars, wire, cvars>>

-----------------------------------------------------------------------------
\* What an event of the server means to a client, told apart from how it is
\* written.  A table's status byte and the races that remain are left out:
\* no window shows them.
Shown(r) == [name |-> r.name, race |-> r.race, total |-> r.total]
MeansCar(c) ==
  [car |-> [c.car EXCEPT ![2] = (@ = 1)], next |-> c.next, finishline |-> c.goal = 1,
   second |-> c.second = 1, after |-> c.after, afterFinishline |-> c.afterGoal = 1]
Means(ev) ==
  CASE ev.type = "id" -> [type |-> "RECEIVE_ID", id |-> ev.id]
    [] ev.type = "refused" -> [type |-> "ERROR"]
    [] ev.type = "accepted" -> [type |-> "SUCESS"]
    [] ev.type = "start" -> [type |-> "START_GAME"]
    [] ev.type = "phase" -> [type |-> "CHANGE_FASE"]
    [] ev.type = "lobby" ->
         [type |-> "SNAPSHOT_LOBBY", lobby_code |-> ev.id, players |-> ev.players]
    [] ev.type = "pregame" ->
         [type |-> "PREGAME", pole |-> ev.pole, map |-> ev.map,
          game_total_time |-> ev.total, game_start_time |-> ev.move]
    [] ev.type = "snapshot" ->
         [type |-> "SNAPSHOT", actual_time |-> ev.time,
          cars |-> [i \in DOMAIN ev.cars |-> MeansCar(ev.cars[i])], npcs |-> ev.npcs]
    [] ev.type = "results" ->
         [type |-> "RACE_RESULTS", is_last_race |-> FALSE, phase |-> 4,
          players |-> [i \in DOMAIN ev.rows |-> Shown(ev.rows[i])], podium |-> <<>>]
    [] ev.type = "final_results" ->
         [type |-> "RACE_RESULTS", is_last_race |-> TRUE, phase |-> ev.podium,
          players |-> [i \in 1 .. (IF Len(ev.rows) > 3 THEN Len(ev.rows) - 3 ELSE 0) |->
                         Shown(ev.rows[i + 3])],
          podium |-> [i \in 1 .. 3 |-> IF i <= Len(ev.rows) THEN Shown(ev.rows[i]) ELSE Nobody]]

\* The same view of an event the client received.
Seen(e) ==
  CASE e.type = "RACE_RESULTS" ->
         [e EXCEPT !.players = [i \in DOMAIN @ |-> Shown(@[i])],
                   !.podium = [i \in DOMAIN @ |-> IF @[i] = Nobody THEN Nobody ELSE Shown(@[i])]]
    [] e.type = "PREGAME" ->
         [k \in DOMAIN e \ {"is_last_map"} |-> e[k]]
    [] e.type = "SNAPSHOT" ->
         [e EXCEPT !.cars = [i \in DOMAIN @ |-> [k \in DOMAIN @[i] \ {"end"} |-> @[i][k]]]]
    [] OTHER -> e

-----------------------------------------------------------------------------
\* The server's side.  Its Sender writes every event of queue_out in order.
Unread == Len(toClient) + Len(inbox)
SendEvents(events) == toClient' = toClient \o events

LobbyEvent(n) ==
  [type |-> "lobby", id |-> Code,
   players |-> SubSeq(<<[name |-> Name, model |-> 3], [name |-> FewRows[1].name, model |-> 0]>>, 1, n)]

\* A client asks for one game at a time: a bound.
Free == seat = "none" \/ phase = "over"

Take == link = "open" /\ toServer # <<>> /\ toServer' = Tail(toServer)
Command == get_command(send_event(Head(toServer))).event

NewTournament ==
  /\ round' = 0 /\ phase' = "lobby" /\ shown' = 0 /\ said' = <<>>
  /\ go' = FALSE /\ answer' = -1 /\ pressed' = FALSE

\* create_lobby_and_join, and join_lobby of the lobby with this code.
ServeSeat ==
  /\ Take
  /\ \/ Command.type = "CreateLobby" /\ Len(Command.maps) = Races
     \/ Command.type = "JoinLobby" /\ Command.lobby = Code
  /\ seat' = "lobby" /\ NewTournament
  /\ SendEvents(<<[type |-> "accepted"], LobbyEvent(1)>>)
  /\ UNCHANGED <<link, cvars>>

\* The lobby is not there, full, or its race began.
ServeRefusal ==
  /\ Take /\ Command.type = "JoinLobby"
  /\ SendEvents(<<[type |-> "refused"]>>)
  /\ UNCHANGED <<svars, link, cvars>>

\* GameManager::start_lobby, for this client or for another of its lobby.
StartLobby ==
  /\ seat = "lobby" /\ seat' = "race"
  /\ SendEvents(<<[type |-> "start"]>>)
  /\ UNCHANGED <<tvars, go, answer, pressed, link, cvars>>
ServeStart ==
  /\ Take /\ Command.type = "StartLobby"
  /\ \/ Command.lobby = Code /\ StartLobby
     \/ (Command.lobby # Code \/ seat # "lobby") /\ UNCHANGED <<toClient, svars, link, cvars>>
OtherStarts == StartLobby /\ UNCHANGED toServer
OtherJoins ==
  /\ seat = "lobby" /\ Unread < MaxUnread /\ SendEvents(<<LobbyEvent(2)>>)
  /\ UNCHANGED <<svars, toServer, link, cvars>>

\* GameManager::disconnect
ServeLeave ==
  /\ Take /\ Command.type = "Disconect"
  /\ seat' = "none"
  /\ UNCHANGED <<toClient, tvars, go, answer, pressed, link, cvars>>

\* A Move counts in a race, whatever its clock says; an Upgrade while the
\* server waits for it.
ServeMove ==
  /\ Take /\ Command.type = "Move"
  /\ \/ /\ seat = "race" /\ phase = "racing"
        /\ pressed' = CASE Command.param = 0 -> TRUE [] Command.param = 4 -> FALSE
                        [] OTHER -> pressed
     \/ (seat # "race" \/ phase # "racing") /\ UNCHANGED pressed
  /\ UNCHANGED <<toClient, tvars, seat, go, answer, link, cvars>>
ServeUpgrade ==
  /\ Take /\ Command.type = "Upgrade"
  /\ answer' = IF seat = "race" /\ phase = "waiting" THEN Command.param ELSE answer
  /\ UNCHANGED <<toClient, tvars, seat, go, pressed, link, cvars>>

Serve == ServeSeat \/ ServeRefusal \/ ServeStart \/ ServeLeave \/ ServeMove \/ ServeUpgrade

\* The game loop: each message of the tournament as an event.
RaceEvent(message, i) ==
  CASE message = "pregame" ->
         [type |-> "pregame", pole |-> <<1, 2, 3, 4, 2>>, remaining |-> Races - round, map |-> 1,
          total |-> 2, move |-> 1]
    [] message = "snapshot" ->
         [type |-> "snapshot", time |-> IF go THEN 1 ELSE 2, cars |-> SampleCars, npcs |-> SampleNpcs]
    [] message = "results" -> [type |-> "results", last |-> 0, rows |-> ManyRows]
    [] message = "final_results" ->
         [type |-> "final_results", rows |-> IF shown + i = 1 THEN FewRows ELSE ManyRows,
          podium |-> IF shown + i - 1 > 3 THEN 3 ELSE shown + i - 1]
    [] OTHER -> [type |-> message]

SnapshotsAhead == \A i \in Len(toClient) - MaxSnapshots + 1 .. Len(toClient) :
                    i > 0 /\ toClient[i].type = "snapshot"
GameStep ==
  /\ seat = "race" /\ link = "open"
  /\ OpenRace \/ TSnapshot \/ CloseRace \/ OfferUpgrades \/ CollectUpgrades \/ CloseLastRace
     \/ ShowTables
  /\ said' = <<"snapshot">> => ~SnapshotsAhead
  /\ Unread + Len(said') <= MaxUnread
  /\ SendEvents([i \in DOMAIN said' |-> RaceEvent(said'[i], i)])
  /\ go' = (go /\ phase' = "racing")
  /\ answer' = IF phase' \in {"results", "racing"} THEN -1 ELSE answer
  /\ pressed' = (pressed /\ said' # <<"pregame">>)
  /\ UNCHANGED <<seat, toServer, link, cvars>>
CountdownEnds ==
  /\ seat = "race" /\ phase = "racing" /\ ~go /\ go' = TRUE
  /\ UNCHANGED <<tvars, seat, answer, pressed, wire, cvars>>

\* The connection goes, at any byte; the server disconnects the client.
Cut ==
  /\ link = "open"
  /\ \E n \in 0 .. Len(toClient) :
       /\ toClient' = SubSeq(toClient, 1, n)
       /\ link' \in IF n < Len(toClient) THEN {"clean", "torn"} ELSE {"clean"}
  /\ seat' = "none" /\ NewTournament /\ toServer' = <<>> /\ UNCHANGED cvars

-----------------------------------------------------------------------------
\* ThreadReceiver.  An event for every message; at the end of the stream one
\* of type ERROR, unless the shutdown of the dead socket throws first; inside
\* a message nothing.
Receive ==
  /\ receiver = "alive" /\ toClient # <<>>
  /\ inbox' = Append(inbox, receive_event(Send(Head(toClient))).event)
  /\ toClient' = Tail(toClient)
  /\ UNCHANGED <<svars, toServer, link, receiver, window, lobbywindow, racewindow, left, asked>>
ReceiverEnds ==
  /\ receiver = "alive" /\ toClient = <<>> /\ link # "open"
  /\ receiver' = "ended"
  /\ \/ link = "clean" /\ inbox' = Append(inbox, [type |-> "ERROR"])
     \/ UNCHANGED inbox
  /\ UNCHANGED <<svars, wire, window, lobbywindow, racewindow, left, asked>>

\* ThreadSender: a message is written when it is pushed.  An empty one is
\* nothing on the wire.
Push(c) ==
  toServer' = IF send_event(c) = <<>> \/ link # "open" THEN toServer ELSE Append(toServer, c)

-----------------------------------------------------------------------------
\* Client::receive_id: the first event.
ReceiveId ==
  /\ window = "opening" /\ inbox # <<>> /\ inbox' = Tail(inbox)
  /\ \/ Head(inbox).type = "RECEIVE_ID" /\ user_id' = Head(inbox).id /\ window' = "prelobby"
     \/ Head(inbox).type # "RECEIVE_ID" /\ window' = "closed" /\ UNCHANGED user_id
  /\ UNCHANGED <<svars, wire, receiver, action, code, posted, racewindow, left, asked>>

\* The dialogs of PreLobby.  A click on a map checks or unchecks it; those
\* that are checked are raced in the order of the list.
validateName == NameLength[Name] \in 2 .. 10
Checked == SUBSET Range(Folder)
selectedMapFiles(checked) ==
  LET listed[i \in 0 .. Len(Folder)] ==
        IF i = 0 THEN <<>>
        ELSE IF Folder[i] \in checked THEN Append(listed[i - 1], Folder[i]) ELSE listed[i - 1]
  IN  listed[Len(Folder)]

\* Any text but the empty one is a code: 0, if it is no number.
TypedCodes == {Code, 0}

\* PreLobby asks the server.  The pop of the answer blocks.
Ask(c) ==
  /\ window = "prelobby" /\ window' = "asking"
  /\ Free /\ toServer = <<>> /\ asked < MaxGames /\ asked' = asked + 1
  /\ Push(c)
  /\ UNCHANGED <<svars, toClient, link, receiver, inbox, user_id, code, posted, racewindow, left>>
CreateLobby ==
  /\ validateName
  /\ \E checked \in Checked :
       /\ Cardinality(checked) = Races
       /\ Ask([type |-> "CREATE_LOBBY", model |-> 3, name |-> Name,
               maps |-> selectedMapFiles(checked)])
  /\ action' = "Create"
JoinLobby ==
  /\ validateName
  /\ \E c \in TypedCodes :
       Ask([type |-> "JOIN_LOBBY", lobby |-> c, model |-> 3, name |-> Name])
  /\ action' = "Join"
\* The dialog lets the user go on without a map.
CreateWithoutMaps ==
  /\ window = "prelobby" /\ validateName /\ action' = "Create"
  /\ asked < MaxGames /\ asked' = asked + 1
  /\ UNCHANGED <<svars, wire, receiver, inbox, window, user_id, code, posted, racewindow, left>>

Popped == Head(inbox)
HandleServerEvent ==
  /\ window = "asking" /\ inbox # <<>> /\ inbox' = Tail(inbox)
  /\ \/ Popped.type = "SUCESS" /\ window' = "lobby" /\ code' = 0 /\ posted' = "nothing"
     \/ Popped.type # "SUCESS" /\ window' = "prelobby" /\ UNCHANGED <<code, posted>>
  /\ UNCHANGED <<svars, wire, receiver, user_id, action, racewindow, left, asked>>

\* Client::execute after PreLobby::exec: the program ends, or races.
\* GameloopRace and what it owns are built anew for each race.
FreshRaceWindow ==
  /\ state' = "RUNNING_GAME" /\ is_last_map' = FALSE
  /\ race_started' = FALSE /\ race_start_time' = 0
  /\ current_upgrade' = 0 /\ hand' = "none" /\ unsent' = FALSE /\ wish' = 0
OpenRaceWindow ==
  /\ window' = "race" /\ action' = "None" /\ keep_running' = TRUE /\ FreshRaceWindow
ClosePreLobby ==
  /\ window = "prelobby"
  /\ \/ action = "None" /\ window' = "closed" /\ UNCHANGED <<action, racewindow, left>>
     \/ action # "None" /\ OpenRaceWindow /\ left' = TRUE
  /\ UNCHANGED <<svars, wire, receiver, inbox, user_id, code, posted, asked>>

\* Lobby: the listener thread pops, and posts to the window's thread.
ListenServer ==
  /\ window = "lobby" /\ posted = "nothing" /\ inbox # <<>> /\ inbox' = Tail(inbox)
  /\ code' = IF Popped.type = "SNAPSHOT_LOBBY" THEN Popped.lobby_code ELSE code
  /\ posted' = CASE Popped.type = "START_GAME" -> "accept" [] Popped.type = "ERROR" -> "reject"
                 [] OTHER -> "nothing"
  /\ UNCHANGED <<svars, wire, receiver, window, user_id, action, racewindow, left, asked>>
LobbyAccepted ==
  /\ window = "lobby" /\ posted = "accept" /\ OpenRaceWindow
  /\ UNCHANGED <<svars, wire, receiver, inbox, user_id, code, posted, left, asked>>
LobbyRejected ==
  /\ window = "lobby" /\ posted = "reject" /\ window' = "prelobby" /\ action' = "None"
  /\ UNCHANGED <<svars, wire, receiver, inbox, user_id, code, posted, racewindow, left, asked>>
OnStartGame ==
  /\ window = "lobby" /\ toServer = <<>>
  /\ Push([type |-> "START_GAME", lobby |-> code])
  /\ UNCHANGED <<svars, toClient, link, cvars>>
\* Until the destructor stops it the listener may pop some more.
LeaveLobby ==
  /\ window = "lobby" /\ window' = "prelobby" /\ action' = "None" /\ left' = TRUE
  /\ \E n \in 0 .. Len(inbox) : inbox' = SubSeq(inbox, n + 1, Len(inbox))
  /\ UNCHANGED <<svars, toClient, link, receiver, user_id, code, posted, racewindow, asked>>
OnExitLobby == LeaveLobby /\ Push([type |-> "LEAVE_LOBBY"])
CloseLobby == LeaveLobby /\ UNCHANGED toServer

-----------------------------------------------------------------------------
\* RacePhaseManager
advance_phase(s) ==
  CASE s = "SHOW_POSITIONS" -> "SHOW_UPGRADE" [] s = "SHOW_UPGRADE" -> "PREGAME"
    [] s = "PREGAME" -> "RUNNING_GAME" [] OTHER -> s

process_snapshot(e) ==
  /\ race_started' = (race_started \/ e.actual_time <= race_start_time)
  /\ UNCHANGED <<state, is_last_map, race_start_time, keep_running, current_upgrade, wish, toServer>>
\* Mutant: the pregame event leaves the state as it was.
process_pregame_Stays(e) ==
  /\ race_started' = FALSE /\ race_start_time' = e.game_start_time
  /\ UNCHANGED <<state, is_last_map, keep_running, current_upgrade, wish, toServer>>
process_pregame(e) ==
  /\ race_started' = FALSE /\ race_start_time' = e.game_start_time
  /\ state' = advance_phase(state)
  /\ UNCHANGED <<is_last_map, keep_running, current_upgrade, wish, toServer>>
\* Mutant: the last table closes the race window.
process_results_Closes(e) ==
  /\ state' = "SHOW_POSITIONS" /\ is_last_map' = e.is_last_race
  /\ keep_running' = (keep_running /\ ~e.is_last_race)
  /\ UNCHANGED <<race_started, race_start_time, current_upgrade, wish, toServer>>
process_results(e) ==
  /\ state' = "SHOW_POSITIONS" /\ is_last_map' = e.is_last_race
  /\ UNCHANGED <<race_started, race_start_time, keep_running, current_upgrade, wish, toServer>>

\* Mutant: the choice is cleared before it is sent.
SendUpgrade_Cleared ==
  Push([type |-> "UPGRADES", upgrade |-> 0]) /\ current_upgrade' = 0
SendUpgrade ==
  Push([type |-> "UPGRADES", upgrade |-> current_upgrade]) /\ current_upgrade' = 0

\* After the last table the phase ends the race; entering PREGAME sends the
\* upgrade.
handle_change_phase ==
  /\ \/ /\ is_last_map
        /\ keep_running' = FALSE
        /\ UNCHANGED <<state, current_upgrade, wish, toServer>>
     \/ /\ ~is_last_map /\ state = "SHOW_POSITIONS"
        /\ state' = advance_phase(state) /\ wish' = 0
        /\ UNCHANGED <<keep_running, current_upgrade, toServer>>
     \/ /\ ~is_last_map /\ state = "SHOW_UPGRADE"
        /\ state' = advance_phase(state)
        /\ SendUpgrade
        /\ UNCHANGED <<keep_running, wish>>
     \/ /\ ~is_last_map /\ state \notin {"SHOW_POSITIONS", "SHOW_UPGRADE"}
        /\ UNCHANGED <<state, keep_running, current_upgrade, wish, toServer>>
  /\ UNCHANGED <<is_last_map, race_started, race_start_time>>

update_game_state(e) ==
  CASE e.type = "SNAPSHOT" -> process_snapshot(e)
    [] e.type = "PREGAME" -> process_pregame(e)
    [] e.type = "RACE_RESULTS" -> process_results(e)
    [] e.type = "CHANGE_FASE" -> handle_change_phase
    [] OTHER -> UNCHANGED <<phasemanager, keep_running, current_upgrade, wish, toServer>>

\* One turn of GameloopRace::run after its input: snapshots are popped up to
\* the last, or up to an event that is none, which alone counts then.
RaceFrame ==
  /\ window = "race" /\ keep_running /\ inbox # <<>>
  /\ LET others == {i \in DOMAIN inbox : inbox[i].type # "SNAPSHOT"}
         last == IF others = {} THEN Len(inbox)
                 ELSE CHOOSE i \in others : \A j \in others : i <= j
     IN  /\ inbox' = SubSeq(inbox, last + 1, Len(inbox))
         /\ update_game_state(inbox[last])
  /\ UNCHANGED <<svars, toClient, link, receiver, window, lobbywindow, hand, unsent,
                 left, asked>>
RaceEnds ==
  /\ window = "race" /\ ~keep_running
  /\ window' = "prelobby" /\ FreshRaceWindow
  /\ UNCHANGED <<svars, wire, receiver, inbox, lobbywindow, keep_running, left, asked>>

\* input_handler: only in a race that started.  A key held repeats itself, and
\* last_key_send keeps that off the wire.
SendKey(key) ==
  /\ IF race_started THEN Len(toServer) < MaxKeys /\ Push([type |-> "SEND_KEY", key |-> key])
                     ELSE UNCHANGED toServer
  /\ unsent' = ~race_started
  /\ UNCHANGED <<svars, toClient, link, receiver, inbox, window, lobbywindow, phasemanager,
                 keep_running, current_upgrade, wish, left, asked>>
KeyDown(k) ==
  /\ window = "race" /\ keep_running /\ hand = "none" /\ hand' = k
  /\ SendKey(k)
\* Mutant: a release is sent as the release of another key.
Released_Other(k) == "no_s"
Released(k) == CHOOSE key \in DOMAIN KeyCodes : KeyCodes[key] = KeyCodes[k] + 4
KeyUp(k) ==
  /\ window = "race" /\ keep_running /\ hand = k /\ hand' = "none"
  /\ SendKey(Released(k))
ClickUpgrade(up) ==
  /\ window = "race" /\ keep_running /\ state = "SHOW_UPGRADE"
  /\ current_upgrade' = up /\ wish' = up
  /\ UNCHANGED <<svars, wire, receiver, inbox, window, lobbywindow, phasemanager, keep_running,
                 hand, unsent, left, asked>>
\* The key Q, or the window's X.
QuitRace ==
  /\ window = "race" /\ keep_running /\ keep_running' = FALSE /\ left' = TRUE
  /\ Push([type |-> "LEAVE_LOBBY"])
  /\ UNCHANGED <<svars, toClient, link, receiver, inbox, window, lobbywindow, phasemanager,
                 current_upgrade, hand, unsent, wish, asked>>

-----------------------------------------------------------------------------
\* The acceptor gave the client its id; both threads of the client run.
Hello == [type |-> "id", id |-> Me]
Init ==
  /\ TInit /\ seat = "none" /\ go = FALSE /\ answer = -1 /\ pressed = FALSE
  /\ toClient = <<Hello>> /\ toServer = <<>> /\ link = "open"
  /\ receiver = "alive" /\ inbox = <<>> /\ window = "opening" /\ user_id = 0
  /\ action = "None" /\ code = 0 /\ posted = "nothing"
  /\ state = "RUNNING_GAME" /\ is_last_map = FALSE /\ race_started = FALSE /\ race_start_time = 0
  /\ keep_running = FALSE /\ current_upgrade = 0 /\ hand = "none" /\ unsent = FALSE
  /\ wish = 0 /\ left = FALSE /\ asked = 0

Server == Serve \/ OtherStarts \/ OtherJoins \/ GameStep \/ CountdownEnds \/ Cut
Windows ==
  \/ ReceiveId \/ CreateLobby \/ JoinLobby \/ CreateWithoutMaps \/ HandleServerEvent \/ ClosePreLobby
  \/ ListenServer \/ LobbyAccepted \/ LobbyRejected \/ OnStartGame \/ OnExitLobby \/ CloseLobby
  \/ RaceFrame \/ RaceEnds \/ QuitRace
  \/ \E k \in Keys : KeyDown(k) \/ KeyUp(k)
  \/ \E up \in Upgrades : ClickUpgrade(up)

Next == Server \/ Receive \/ ReceiverEnds \/ Windows

Spec == Init /\ [][Next]_pvars

-----------------------------------------------------------------------------
\* Every event the receiver queues says what the server's event said, and
\* every command the server reads what the client's message said; each is read
\* to its last byte and no further.
Asks(c) ==
  CASE c.type = "SEND_KEY" -> [type |-> "Move", param |-> KeyCodes[c.key]]
    [] c.type = "CREATE_LOBBY" -> [c EXCEPT !.type = "CreateLobby"]
    [] c.type = "JOIN_LOBBY" -> [c EXCEPT !.type = "JoinLobby"]
    [] c.type = "START_GAME" -> [type |-> "StartLobby", lobby |-> c.lobby]
    [] c.type = "UPGRADES" -> [type |-> "Upgrade", param |-> c.upgrade]
    [] OTHER -> [type |-> "Disconect"]
Received == toClient # <<>> /\ Len(inbox') > Len(inbox)
ReadAsMeant ==
  /\ Received => LET m == Send(Head(toClient))
                 IN  /\ Seen(inbox'[Len(inbox')]) = Means(Head(toClient))
                     /\ receive_event(m).took = Len(m)
  /\ Take => LET m == send_event(Head(toServer))
             IN  get_command(m) = Took(Asks(Head(toServer)), Len(m))
EventsFaithful == [][ReadAsMeant]_pvars

\* A client that never left early takes the answer to its question for the
\* answer: once the server seated it, it waits for that or is in the lobby.
AcceptedOpensLobby ==
  seat = "lobby" /\ link = "open" /\ ~left => window \in {"asking", "lobby"}

\* The race window opens only for a race the server started.
RaceOnlyAfterStart ==
  [][window # "race" /\ window' = "race" /\ ~left => seat = "race" \/ link # "open"]_pvars

\* When it read everything, the race window shows the phase the game is in.
PhaseShown ==
  CASE phase \in {"lobby", "racing"} -> {"RUNNING_GAME"}
    [] phase = "results" -> {"SHOW_POSITIONS"} [] phase = "choosing" -> {"SHOW_UPGRADE"}
    [] phase = "waiting" -> {"PREGAME"}
    [] phase = "final" -> IF shown = 0 THEN {"RUNNING_GAME"} ELSE {"SHOW_POSITIONS"}
InStep ==
  window = "race" /\ seat = "race" /\ ~left /\ link = "open" /\ toClient = <<>> /\ inbox = <<>> =>
    IF phase = "over" THEN ~keep_running ELSE state \in PhaseShown

\* While the server waits for upgrades and nothing is under way, it has the
\* client's, and it is the one clicked in this round or none.
AnswerStands ==
  window = "race" /\ seat = "race" /\ phase = "waiting" /\ ~left /\ link = "open"
    /\ toClient = <<>> /\ inbox = <<>> /\ toServer = <<>> => answer = wish

\* When nothing is under way, a car that accelerates has its key held, unless
\* the key came before the start.
KeysFollowHand ==
  window = "race" /\ seat = "race" /\ phase = "racing" /\ ~left /\ link = "open"
    /\ toClient = <<>> /\ inbox = <<>> /\ toServer = <<>> /\ pressed /\ ~unsent => hand = "w"

=============================================================================
