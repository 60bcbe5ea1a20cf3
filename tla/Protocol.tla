------------------------------ MODULE Protocol ------------------------------
(***************************************************************************)
(* What the two programs write on the connection and what they make of it. *)
(* A message is a sequence of fields <<width, value>>: the widths are those *)
(* the code writes and reads, and a field read with another width than it  *)
(* was written with is Garbled.  A string is a field as wide as its name   *)
(* is long.                                                                *)
(***************************************************************************)
EXTENDS Integers, Sequences, SequencesExt

CONSTANTS NameLength,  \* the length of every name, in bytes
          Garbled

ASSUME NamesAssumption == \A name \in DOMAIN NameLength : NameLength[name] \in Nat \ {0}

\* add_one_byte, add_two_bytes, add_four_bytes and add_string
Fields(widths, values) == [i \in DOMAIN widths |-> <<widths[i], values[i]>>]
One(v) == <<1, v>>
Two(v) == <<2, v>>
Four(v) == <<4, v>>
String(name) == <<Two(NameLength[name]), <<NameLength[name], name>>>>

\* receive_one_byte and the others, at the p-th field of a message
Read(message, p, width) ==
  IF p \in DOMAIN message /\ message[p][1] = width THEN message[p][2] ELSE Garbled
ReadAll(message, p, widths) == [i \in DOMAIN widths |-> Read(message, p + i - 1, widths[i])]
ReadString(message, p) == Read(message, p + 1, Read(message, p, 2))
ReadCount(message, p) == LET n == Read(message, p, 2) IN IF n \in Nat THEN n ELSE 0

Joined(f(_), s) == FlattenSeq([i \in DOMAIN s |-> f(s[i])])

-----------------------------------------------------------------------------
\* Server to client: ServerProtocol.
Ops == [phase |-> 50, results |-> 36, pregame |-> 35, accepted |-> 48, start |-> 34,
        refused |-> 32, lobby |-> 33, snapshot |-> 1, id |-> 21]

SendResult(r) == String(r.name) \o Fields(<<4, 4, 1>>, <<r.race, r.total, r.status>>)
send_race_results_to_client(ev) ==
  <<One(Ops.results), One(ev.last), Two(Len(ev.rows))>> \o Joined(SendResult, ev.rows)

\* The three best go last, each with a flag that says whether he exists.
send_race_results_last_to_client(ev) ==
  LET n == Len(ev.rows)
      SendPlace(place) == IF place > n THEN <<One(0)>> ELSE <<One(1)>> \o SendResult(ev.rows[place])
  IN  IF n = 0 THEN <<>>
      ELSE <<One(Ops.results), One(1), Two(IF n > 3 THEN n - 3 ELSE 0)>>
           \o Joined(SendResult, SubSeq(ev.rows, 4, n))
           \o <<One(IF ev.podium > 3 THEN 3 ELSE ev.podium)>>
           \o Joined(SendPlace, <<1, 2, 3>>)

send_pre_game_snapshot_to_client(ev) ==
  <<One(Ops.pregame)>> \o Fields(<<4, 4, 4, 4, 1>>, ev.pole)
    \o Fields(<<2, 1, 4, 4>>, <<ev.remaining, ev.map, ev.total, ev.move>>)

SendPlayer(p) == String(p.name) \o <<One(p.model)>>
send_snapshot_lobby_to_client(ev) ==
  <<One(Ops.lobby), Four(ev.id), Two(Len(ev.players))>> \o Joined(SendPlayer, ev.players)

\* A car is its id, ghost, life, model, animation, sound, x, y, z and angle;
\* then come the next two checkpoints.
SendCoord(at) == <<Four(at[1]), Four(at[2])>>
SendCar(c) ==
  Fields(<<4, 1, 2, 2, 1, 1, 4, 4, 1, 4>>, c.car)
    \o <<Two(Len(c.next))>> \o Joined(SendCoord, c.next) \o <<One(c.goal), One(c.second)>>
    \o (IF c.second = 0 THEN <<>>
        ELSE <<Two(Len(c.after))>> \o Joined(SendCoord, c.after) \o <<One(c.afterGoal)>>)
SendNpc(npc) == Fields(<<2, 1, 4, 4, 1, 4>>, npc)
send_snapshot_game_to_client(ev) ==
  <<One(Ops.snapshot), Four(ev.time), Two(Len(ev.cars))>> \o Joined(SendCar, ev.cars)
    \o <<Two(Len(ev.npcs))>> \o Joined(SendNpc, ev.npcs)

\* IEvent::send of the event in question.
Send(ev) ==
  CASE ev.type = "results" -> send_race_results_to_client(ev)
    [] ev.type = "final_results" -> send_race_results_last_to_client(ev)
    [] ev.type = "pregame" -> send_pre_game_snapshot_to_client(ev)
    [] ev.type = "lobby" -> send_snapshot_lobby_to_client(ev)
    [] ev.type = "snapshot" -> send_snapshot_game_to_client(ev)
    [] ev.type = "id" -> <<One(Ops.id), Four(ev.id)>>
    [] OTHER -> <<One(Ops[ev.type])>>

-----------------------------------------------------------------------------
\* Client from server: ProtocolClient.  What a reader returns, and how many
\* fields it took.
Took(event, fields) == [event |-> event, took |-> fields]

ReadResult(m, p) ==
  [name |-> ReadString(m, p), race |-> Read(m, p + 2, 4), total |-> Read(m, p + 3, 4),
   finished |-> Read(m, p + 4, 1) = 1]
Nobody == [exist |-> FALSE]

\* Mutant: every place of the podium is read as if somebody had it.
PlaceFields_All(m, p) == 6
\* The flag, and the result if somebody has the place.
PlaceFields(m, p) == IF Read(m, p, 1) # 0 THEN 6 ELSE 1

receive_race_results(m) ==
  LET last == Read(m, 2, 1) = 1
      n == ReadCount(m, 3)
      flag == 4 + 5 * n
      Place[i \in 1 .. 4] ==
        IF i = 1 THEN flag + 1 ELSE Place[i - 1] + PlaceFields(m, Place[i - 1])
      shown == Read(m, flag, 1)
  IN  Took([type |-> "RACE_RESULTS", is_last_race |-> last,
            players |-> [i \in 1 .. n |-> ReadResult(m, 4 + 5 * (i - 1))],
            phase |-> IF last /\ shown \in 0 .. 3 THEN shown ELSE 4,
            podium |-> IF ~last THEN <<>>
                       ELSE [i \in 1 .. 3 |-> IF Read(m, Place[i], 1) # 0
                                         THEN ReadResult(m, Place[i] + 1) ELSE Nobody]],
           IF last THEN Place[4] - 1 ELSE flag - 1)

\* A map with another number would leave its last eight bytes unread.
receive_pre_game_snapshot(m) ==
  LET pole == [ReadAll(m, 2, <<4, 4, 4, 4, 1>>) EXCEPT ![5] = IF @ \in 1 .. 4 THEN @ ELSE 0]
      map == Read(m, 8, 1)
  IN  IF map \notin 0 .. 2 THEN Took([type |-> "ERROR"], 8)
      ELSE Took([type |-> "PREGAME", pole |-> pole, is_last_map |-> Read(m, 7, 2) = 0, map |-> map,
                 game_total_time |-> Read(m, 9, 4), game_start_time |-> Read(m, 10, 4)], 10)

receive_snapshot_lobby(m) ==
  LET n == ReadCount(m, 3)
  IN  Took([type |-> "SNAPSHOT_LOBBY", lobby_code |-> Read(m, 2, 4),
            players |-> [i \in 1 .. n |-> [name |-> ReadString(m, 4 + 3 * (i - 1)),
                                           model |-> Read(m, 6 + 3 * (i - 1), 1)]]],
           3 + 3 * n)

\* From the p-th field on: n corners of a checkpoint.
ReadCoords(m, p, n) == [i \in 1 .. n |-> ReadAll(m, p + 2 * (i - 1), <<4, 4>>)]
ReadCar(m, p) ==
  LET n == ReadCount(m, p + 10)
      goal == p + 11 + 2 * n
      second == Read(m, goal + 1, 1) = 1
      k == IF second THEN ReadCount(m, goal + 2) ELSE 0
      car == ReadAll(m, p, <<4, 1, 2, 2, 1, 1, 4, 4, 1, 4>>)
  IN  [car |-> [car EXCEPT ![2] = (@ = 1), ![6] = IF @ \in {1, 2} THEN @ ELSE 0],
       next |-> ReadCoords(m, p + 11, n), finishline |-> Read(m, goal, 1) # 0, second |-> second,
       after |-> ReadCoords(m, goal + 3, k),
       afterFinishline |-> second /\ Read(m, goal + 3 + 2 * k, 1) # 0,
       end |-> IF second THEN goal + 4 + 2 * k ELSE goal + 2]
receive_snapshot(m) ==
  LET n == ReadCount(m, 3)
      At[i \in 1 .. n + 1] == IF i = 1 THEN 4 ELSE ReadCar(m, At[i - 1]).end
      k == ReadCount(m, At[n + 1])
  IN  Took([type |-> "SNAPSHOT", actual_time |-> Read(m, 2, 4),
            cars |-> [i \in 1 .. n |-> ReadCar(m, At[i])],
            npcs |-> [i \in 1 .. k |-> ReadAll(m, At[n + 1] + 1 + 6 * (i - 1), <<2, 1, 4, 4, 1, 4>>)]],
           At[n + 1] + 6 * k)

\* An unknown op-code is an event of type ERROR like a refusal.
receive_event(m) ==
  LET op == Read(m, 1, 1)
  IN  CASE op = 1 -> receive_snapshot(m)
        [] op = 21 -> Took([type |-> "RECEIVE_ID", id |-> Read(m, 2, 4)], 2)
        [] op = 33 -> receive_snapshot_lobby(m)
        [] op = 34 -> Took([type |-> "START_GAME"], 1)
        [] op = 35 -> receive_pre_game_snapshot(m)
        [] op = 36 -> receive_race_results(m)
        [] op = 48 -> Took([type |-> "SUCESS"], 1)
        [] op = 50 -> Took([type |-> "CHANGE_FASE"], 1)
        [] OTHER -> Took([type |-> "ERROR"], 1)

-----------------------------------------------------------------------------
\* Client to server.
KeyCodes == [w |-> 0, a |-> 1, s |-> 2, d |-> 3, no_w |-> 4, no_a |-> 5, no_s |-> 6, no_d |-> 7,
             win |-> 8, lose |-> 9, infinite_life |-> 16, ghost |-> 17]

\* A key that means nothing makes an empty message.
send_key(key) == IF key \in DOMAIN KeyCodes THEN <<One(18), One(KeyCodes[key])>> ELSE <<>>
SendMap(map) == String(map)
send_create_lobby(c) ==
  <<One(22), One(c.model)>> \o String(c.name) \o <<Two(Len(c.maps))>> \o Joined(SendMap, c.maps)
send_join_lobby(c) == <<One(23), Four(c.lobby), One(c.model)>> \o String(c.name)
send_event(c) ==
  CASE c.type = "SEND_KEY" -> send_key(c.key)
    [] c.type = "CREATE_LOBBY" -> send_create_lobby(c)
    [] c.type = "JOIN_LOBBY" -> send_join_lobby(c)
    [] c.type = "START_GAME" -> <<One(34), Four(c.lobby)>>
    [] c.type = "UPGRADES" -> <<One(51), One(c.upgrade)>>
    [] c.type = "LEAVE_LOBBY" -> <<One(52)>>

\* Server from client: ServerProtocol.
get_command_create_lobby(m) ==
  LET n == ReadCount(m, 5)
  IN  Took([type |-> "CreateLobby", model |-> Read(m, 2, 1), name |-> ReadString(m, 3),
            maps |-> [i \in 1 .. n |-> ReadString(m, 6 + 2 * (i - 1))]], 5 + 2 * n)
get_command_join_lobby(m) ==
  Took([type |-> "JoinLobby", lobby |-> Read(m, 2, 4), model |-> Read(m, 3, 1),
        name |-> ReadString(m, 4)], 5)

\* get_type_of_command and the reader of that command.  An unknown one ends
\* the connection.
get_command(m) ==
  LET op == Read(m, 1, 1)
  IN  CASE op = 18 -> Took([type |-> "Move", param |-> Read(m, 2, 1)], 2)
        [] op = 22 -> get_command_create_lobby(m)
        [] op = 23 -> get_command_join_lobby(m)
        [] op = 34 -> Took([type |-> "StartLobby", lobby |-> Read(m, 2, 4)], 2)
        [] op = 51 -> Took([type |-> "Upgrade", param |-> Read(m, 2, 1)], 2)
        [] op = 52 -> Took([type |-> "Disconect"], 1)
        [] OTHER -> Took([type |-> "DefiniteDisconect"], 1)

=============================================================================
