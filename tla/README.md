# Verification of Need4Speed2D

Need4Speed2D is a multiplayer racing game in C++: a server that keeps lobbies
and simulates races, a Qt/SDL client, and a Qt map editor. This directory
holds TLA+ models of the parts where threads, messages and phases interact,
TLC configurations that check them on small instances, and TLAPS proofs of the
most important facts for every instance. All source paths are relative to
`src/`.

## 1. Inventory

### The server

One process. Threads: the main thread (`ServerLogic`), the `Acceptor`, one
`Receiver` and one `Sender` per connection, one `Gameloop` per game.

| Component | State | Operations | Correct if |
|---|---|---|---|
| `Queue<T>` (`common/queue.h`) | a bounded FIFO, `closed`, one mutex, two condition variables | `push`, `try_push`, `pop`, `try_pop`, `close` | no overflow, no lost wake-up, FIFO, `close` frees every consumer |
| `GameManager` (`server/conection/game_manager.*`) | the map id -> `Game`, one mutex | create, join, start a lobby, disconnect, reap finished games; `stop_all` and `join_all` at shutdown | ids unique, no game without clients stays, a game is destroyed once |
| `Game`, `ClientRegistryMonitor` (`game.*`, `client_registry.*`) | lobby players, `lobby_started`, client id -> output queue, command queue | add and remove players, `start_lobby`, `on_disconnect`, broadcast | what the players see of a lobby is what it is; no client of a race without a car; leavers are reported to the race |
| `ClientHandler`, `Receiver`, `Sender` | raw pointers `current_game` and `game_cmd_q`, the output queue, the threads' liveness | one handler per message; `join`, by the acceptor | the pointers never outlive the game; a dead connection is cleaned up |
| `Acceptor` | the list of handlers | accept, reap (games, then handlers), clear | everything that ended is reaped |
| `Gameloop` (`server/game/gameloop.*`) | the phase (`RaceState`), timers, sessions of the players, the map index, the `RaceContext` | commands, `update_state_*`, simulation, snapshots | every race is run, every phase ends, each player's time is counted once per race |
| Race rules: `RaceSystem`, `WorldState`, `RaceContext`, `Car` | progress through checkpoints, finish time, health, layer, upgrades | checkpoint contacts, damage, cheats, finish, kill | checkpoints in order, finish once, the race ends when everybody finished or is dead |
| `MapLoader`, `Pole` | the map file: matrix, start, checkpoints, spawns | load, places of the cars, filter of the spawns | every map the editor saves can be raced |
| Physics, sensors | Box2D bodies | step, contacts | out of reach: floating point geometry |
| NPC traffic (`WorldState::update_npcs`, `can_go`) | position, direction and turn counter of each car | turn at crossings | stays on the road, never stuck, does not spin |
| Protocols (`server_protocol.cpp`, `client/ProtocolClient.cpp`) | none | encode and decode | a message decodes to what was encoded; a closed peer ends the connection |
| `ServerLogic` | none | start, stop at end of input | every thread joined, no game used after its destruction |

### The client and the editor

| Component | State | Operations | Correct if |
|---|---|---|---|
| `ThreadReceiver`, `ThreadSender`, `Client` | the event and the command queue | start, stop, join; the order of the windows | every event reaches the window it is for |
| `PreLobby`, `CreateLobby`, `JoinLobby`, `Lobby` | the window shown, the last action, the lobby's code; all pop one event queue | create, join, start, exit | an accepted request opens the lobby, a race window opens for a race |
| `GameloopRace`, `RacePhaseManager`, `InputHandler` | the client's phase, the key held, the upgrade chosen | events, keys, clicks, leave | follows the server's phase; the server gets what the player chose |
| rendering, sound | textures | draw, play | not modelled |
| editor `MapView`, `FileManagement`, `MainWindow` | the matrix, checkpoints, direction, undo stack (10), the file and the modified flag | place, erase, undo, turn, open, save | walls kept, undo restores, a saved map can be raced |

### Interactions

Client and server exchange messages over one TCP connection per client. A
`Receiver` calls its `ClientHandler`, which calls `GameManager` (under its
mutex), and pushes race commands to the command queue of its current game. The
`Gameloop` broadcasts events through the registry to the output queues, which
the senders drain. The `Acceptor` reaps at the top of its loop: it takes ended
empty games out of the map, and joins and destroys the handlers whose threads
ended. Two paths change a game: `GameManager::disconnect`, under the mutex, and
`ClientHandler::join`, which uses the raw pointer and no mutex.

### What is hard here

Interleavings of receivers, acceptor and game threads around raw pointers;
games destroyed outside the mutex; connections that end in three ways (a
Disconect message, a closed peer, an exception); notifications of the queue on
the edges only; reaping that happens only when `accept` returns; phases of the
race followed by a client that counts events; one event queue that several
windows of the client read in turn; messages with no length in front, which
both ends must cut alike; in the editor, an undo stack of differences over
pieces that overlap; in the traffic, integer cells under fractional positions.
The list with lines is `hazards` in `PROJECT.json`.

## 2. Modules

| Module | Models | Rests on |
|---|---|---|
| `BlockingChannel` | what the queue promises: a bounded FIFO channel with blocking operations, abstract | |
| `MonitorQueue` | `Queue<T>`, at the grain of its mutex | refines `BlockingChannel` |
| `MonitorQueueProofs` | proofs about the queue | `MonitorQueue` |
| `GameManager` | the lobby monitor: `GameManager`, `Game`, the registry, and the game thread as seen from outside | |
| `GameManagerProofs` | proofs about the monitor | `GameManager` |
| `SessionServer` | handlers, receivers, senders, acceptor, composed with the monitor | extends `GameManager`, refines it |
| `SessionServerProofs` | proofs about the composition | `SessionServer`, `GameManagerProofs` |
| `ServerShutdown` | the server with its end: `ServerLogic`, `Acceptor::stop` and `clear`, `stop_all`, `join_all` | extends `SessionServer` |
| `ServerShutdownProofs` | proofs about the registries, in the server's life and its end | `ServerShutdown`, `SessionServerProofs` |
| `RaceRules` | one race: `RaceSystem`, `WorldState`, `RaceContext`, and the rules of `Car` | |
| `Tournament` | what a game promises its clients: the order of the phases and of the messages that announce them, abstract | |
| `Gameloop` | `Gameloop`: commands, `update_state_*`, simulation, snapshots, sessions | extends `RaceRules`, refines `Tournament` |
| `GameloopProofs` | proofs about the loop and the race | `Gameloop` |
| `Protocol` | every message: what one end writes and the other reads, as fields | |
| `ClientProgram` | one client: its threads, windows, race window; the server as far as it answers this client | extends `Protocol` and `Tournament` |
| `ClientProgramProofs` | proofs about the client | `ClientProgram` |
| `MapCells` | the codes of a map's cells and the pieces laid on them | |
| `MapLoader` | what the server makes of a map file | extends `MapCells` |
| `UndoableDocument` | what an editor with a bounded undo promises, abstract | |
| `EditorMap` | the editor: clicks, undo, files | extends `MapLoader`, refines `UndoableDocument` |
| `EditorMapProofs` | proofs about the editor | `EditorMap` |
| `Npc` | the traffic on the matrix | extends `MapLoader` |
| `NpcProofs` | proofs about the traffic | `Npc` |
| `MCGameManager`, `MCSessionServer`, `MCServerShutdown`, `MCGameloop`, `MCClientProgram`, `MCEditorMap`, `MCNpc` | symmetry, view, and the maps, tables and names for TLC | |

The modules compose along what they share. `Tournament` is both what the game
loop is shown to implement (for any number of players) and the server that
`ClientProgram` plays against: what holds of the client against `Tournament`
holds against the loop. `MapCells` and `MapLoader` are the file format that
the editor writes and the server reads, so `EditorMap` asks of every file it
saves what the loader will do with it.

### MonitorQueue

`q`, `closed` are the fields of `Queue`; `pc[t]` says where thread `t` is:
outside, waiting on one of the condition variables, or woken from it; `arg[t]`
is the value of a blocked push. A call that does not wait is one action
(`Push`, `Pop`, `Close`, `Throws`); one that waits is split at `wait`
(`PushWaits`/`PushResumes`, `PopWaits`/`PopResumes`). `notify_all` moves the
waiters to the woken state. `SpuriousWakeup` is what C++ allows. Fairness: a
woken thread gets the mutex (weak fairness on `PushResumes` and `PopResumes`);
nobody has to call anything.

### GameManager

A game is named by its address, never reused, so that a stale pointer is
visible as a pointer to a `"freed"` game. `mem` says whether the manager's map
owns it. One action per public operation, since each runs under the mutex;
`disconnect` is `DisconnectFrom` (the locked part), `StopGame`, `DestroyGame`,
and `reap_finished_games` is `ReapFinishedGames` and `Destroy`. The command
queue is abstracted to `closed`, `cars` (who had a NewCar command) and `told`
(who had a Disconect command). `view[g][c]` is the last lobby snapshot queued
to `c`, and `outq` the clients whose output queue is not empty. The game thread
is `TournamentOver`, `LoopExits`, `LoopCrashes`, `LoopBroadcasts`. The models
of cars, names and maps are left out.

### SessionServer

`rpc[c]` is the receiver's program counter, with a step wherever the thread
takes or gives up a mutex or uses a pointer read before: `CreateLobby` and
`JoinLobby` are the monitor's operation and `Attach`; `StartLobby` is the
monitor's operation and `RecvStarted`, which takes the queue of the current
game, whichever lobby was started; `Move` and `Upgrade` are `RecvCommand`
(get the queue) and `PushCommand` (use it); a disconnection is the locked part,
stop, join and destruction, and `RecvForget`. `apc` is the acceptor's program
counter; `ClientHandler::join` is split at every use of the raw pointer.
`JoinErases` stands for clearing the pointers, closing the queue, joining the
(ended) threads and erasing the handler. Each access to the `std::map` of lobby
players is taken as atomic: the race on its nodes is the finding
`session_join_race` in another form.

The clients are external. `at[c]` is the game the client program believes to be
in: its windows offer create and join only in the menu, and start, play and
leave only in a game. Members of `FreeClients` ignore that and send anything at
any time. `Quitters` may close the connection, `Aborters` have a receiver that
may end by an exception, `AcceptErrors` lets `accept` fail without shutdown.

### ServerShutdown

`stage` is where the process is: serving, told to stop, `Acceptor::clear`,
`stop_all`, `join_all`, and the two ends. `clear` calls `ClientHandler::join`
once more, now on handlers whose threads still run, so its steps are here a
second time (`ClearPicks` to `ClearJoins`, `cstep` the program counter) with
what that changes: the pointer is read again at every use, and meanwhile the
receiver may clear it (`Crash`: a null pointer ends the process) or destroy the
game (`ClearUsesFreed`: undefined, so any answer, or `Crash`). `closedOut` are
the clients whose output queue and socket were closed: the sender ends
(`SenderMeetsClosed`), the receiver reads what the stream still holds and then
its end (`RecvDisconnect`) or half a message (`CutShort`), and an answer pushed
on the closed queue throws out of the operation it belongs to (`PushThrows`).
`threw` remembers which receivers ended so, and `twice` which clients two games
of the map listed at once, as a player or in the registry. `Aborters` is empty
here. `RegistryLetsGo` is what `client_registry.h:15` says; `OthersLetGo` is what
the code keeps of it.

Fairness (`SFairSpec`): the acceptor's own steps, then the main thread's; a
game thread's exit once its queue is closed; the steps of a receiver inside one
message; the sender while its queue has events or is closed. There is none on
new messages, on the end of a race, on a quit or on a crash of the loop. Two
assumptions are about the environment. While the server serves, `accept` keeps
returning (`AcceptReturns`): the acceptor reaps only then. And a socket that was
shut holds finitely many bytes, so the receiver comes to the end of them
(`StreamEnds`, strong fairness, because a message still in the stream disables
it for a while).

### RaceRules

`cars`, `progress` and `pressed` are the maps of `WorldState`: the car of a
client, its `RaceProgress` and whether it holds a key. A car keeps its health
(counted in crashes), the `finished`, `ghost` (layer) and `god` flags, the
one-shot `one_destroy` flag that a snapshot consumes, and its upgrades in the
order they were applied. `ReceiveCommandMove` is
`RaceContext::receive_command_move` with the cheats; `HandleCheckpointContact`
is one contact of `RaceSystem::handle_checkpoint_contacts`; `HandleHit` a
contact with damage. Positions are left out: the simulation may bring any car
to a sensor, or crash it, at any step, so the model has at least the behaviours
of the geometry. Cars in the ghost layer touch nothing, as the collision
filters have it. Of the four keys one is kept.

### Gameloop

One frame of `run` is: commands (`Receive`, `BeginRace`), one step of
`update_state` (`RaceGoesOn` to `ShowResultsLastRace`, one action for each
outcome of each `update_state_*`), then, if that step ran the simulation, any
number of contacts (`Contact`, `Hit`) and a snapshot or none (`EndFrame`).
`pc` says which part of a frame comes next. `state`, the timers, the map index
and `players` are the fields of the class; the order inside an action is the
code's (the time is taken and the end tested before the frame's contacts, the
results are added before the next race is created, upgrades are given before
the cars of leavers are killed).

Time is in ticks; `Frames` are the durations `update_state` may be given. A
timer is only compared with zero, so times below zero are kept as zero.
`cast` holds the events broadcast by the last step, with the fields the clients
look at. `BadMaps` are maps that `load_map` cannot read: the exception ends the
thread, as any other does (`LoopEnds`). The lobby's start queues every NewCar
and BeginRace before anything of the clients (`Game::start_lobby`), and a
client's commands end with its Disconect, as the session model has it. NPC
cars are left out: they are no players and end nothing. At most one snapshot a
frame: the two a long frame may send differ only in the one-shot flags.

### Protocol

A message is a sequence of fields `<<width, value>>`; a field read with another
width than it was written with is `Garbled`, and a string is a field as wide as
its name, after its length. The bytes inside a number are left out. `Send` is
what `ServerProtocol` writes for an event, `receive_event` what
`ProtocolClient` reads from a stream: the event and how many fields it took.
`send_event` and `get_command` are the other direction. The reader decides what
follows from what it read (how many checkpoints, whether a second goal, how
many rows, how many places of a podium) and the two ends have to agree on that
with no length in front.

### ClientProgram

`window` is the window shown and where its thread stands; `inbox` is
`queue_receiver`, which `Client::receive_id`, `PreLobby`, `Lobby`'s listener
and `GameloopRace` pop in turn. `Receive` decodes one message, `Push` encodes
one, so that every event and command of the model goes over the real encoding.
`HandleServerEvent` is the pop that blocks the first window; `ListenServer`
posts to the window's thread, which acts later (`LobbyAccepted`,
`LobbyRejected`), and `LeaveLobby` may lose what the listener had popped.
`RaceFrame` is one turn of the race window: it drops all snapshots but the
last and takes one other event. `SendKey` and `KeyUp` are `InputHandler` with
`last_key_send`, and send nothing before the client saw the race start.

The server is the part of `SessionServer` and `GameManager` this client sees:
a seat (none, lobby, race), answers in the order of the commands, a tournament
whose messages go out as events, and a connection that may be cut between
messages or inside one (`Cut`). Other players join and start the lobby.
What a race puts into its snapshots and tables is a constant here.
`SamplesAssumption` says of it what the structs of `event.h` and the snapshot
builder make of it: flags are bits, a sound is one of three, a car shows what
comes after its next checkpoint only if its flag says so, a table has a row at
least.

### MapCells, MapLoader, EditorMap

A click is one action of the tool it is made with. Each handler writes in two
strokes, takes a piece away and lays one, and the undo entry keeps both
(`UndoBlock`), because a piece may be laid over cells just freed.
`AddCheckpoint` takes the cells of other checkpoints as its own, and
`EraseCheckpoint` finds the first that lists the cell, as the code does. `Load`
and `SaveMatrix` are the paths of `FileManagement` and `MainWindow`, with a
write that fails. `past` is a history of whole documents, against which the
refinement holds the stack of differences. Lengths of pieces are constants.

### Npc

A car of the traffic has a position in fractions of a cell and goes one
fraction per step; `can_go` probes three lanes as far as the code does, with
the code's conversion to a cell. A driving car stands on the cells of a road; a
parked one stands at the kerb, where its spawn is, and is asked nothing about
the road. Every random choice is a nondeterministic one. On cells of code 0 and
around the map stand walls, which hold a car up (`Drive`); other ground that is
closed to the traffic it can drive on, and only `can_go` keeps it off. A contact (`ApplyDamage`) may come at any step and destroys the car.

## 3. Runs

| Run | Shows | Bounds |
|---|---|---|
| `queue` | no overflow, no lost wake-up, blocked pops return after close, refinement of `BlockingChannel` with its liveness | 3 threads, capacity 2, 2 values: two producers or two consumers may block at once, and order is visible |
| `monitor` | lobby views current, lobby size, only racers registered, leavers reported, no empty game | 3 clients, 2 games, races of 2, so that a lobby can fill, refuse and be left; symmetry in clients and games, which are only compared |
| `session_abrupt` | receivers' pointers live, one destroyer per game, waiting lobbies show registered players | 2 clients (one may quit or abort), 2 games |
| `shutdown` | finished handlers are reaped, detached games destroyed, the shutdown ends, no game keeps a handler that left in order | 2 clients that send any message at any time, of whom one may quit, 1 game |
| `second_game` (violation) | an ordinary client that goes on to a second game stays in the registry of one | 1 client that keeps to its windows, 2 games and lobbies |
| `session_join_race` (violation) | join continues with a destroyed game | 2 clients, 1 game |
| `race` | finishes recorded as finished, finishes only by the goal after all checkpoints, a tournament that began ends | 2 players, one of whom drives and one cheats, 1 checkpoint and the goal, health 2, frames of 1 and 2 ticks of a race of 2 with 1 of countdown, a second map that does not load; no symmetry |
| `tournament` | leavers destroyed, upgrades kept, races counted once, totals, finish times fixed, refinement of `Tournament` | 2 players, 3 maps (two upgrade rounds, so that an old upgrade could come back), a valid and an invalid upgrade code, a third map that may not load, frames as long as a screen |
| `editor` | walls kept, one start and one finish, saved maps can be raced, refinement of `UndoableDocument` | a 2 x 3 city with a ramp and a wall, another map and a file without a matrix, 4 cells clicked, 3 edits, an undo stack of 2 |
| `client` | messages faithful both ways, accepted requests open the lobby, the race window is in step, the upgrade and the key held are the server's | 1 client, 2 lobbies asked for, 2 races, 2 messages unread, one key and one upgrade, 3 cars of different shape, tables of 1 and 4 rows |
| `client_start` (violation) | the race window opens for no race | as `client` |
| `npc` | traffic keeps to the road, never stuck, unless it was to start downwards; does not spin; the start stays clear | 4 towns of 18 x 15 cells, closed to the traffic but without walls beside the streets, with dead ends, a crossing, a ramp and a closed street, a start in each direction, one moving car (in one town it may be to start downwards) and one parked, thirds of a cell |

Two players are enough for the loop: the rules relate a player to its own car
and everybody to the end of a race. Three maps have a first, a middle and a
last race. The lengths make every timer end exactly, by more than a frame, and
not at all in a frame; with four tables in two or three ticks, several tables
come due at once.

`race` assumes `FairSpec` of the loop: weak fairness of `UpdateState` and
`EndFrame`, that is, the thread keeps running frames. `receive_commands` pops
until the queue is empty: the assumption also says that the clients do not send
faster than the loop pops. Clients need not send anything.

`MCSessionServer` uses the symmetry of game addresses and, in the safety runs,
the view `Control`: it leaves out `cars`, `told` and `view`, which are written
and never read by a guard, and `at[c]` of free clients. The invariants of those
runs do not read them either. `MCServerShutdown` has no symmetry;
its view leaves out `snapshot` too, which only ends up in `view`, and what a
closed queue still holds. Nothing that is left out enables or disables a step,
or is read by a property, so states that the view identifies have the same
futures, up to steps that change nothing in it; no fair step is one of those.
Two clients are enough for the interactions of the session: every property is
about one client, the game it uses, and one other thread that takes it away.
The proofs below remove the bounds for the safety part. The questions of
liveness in `shutdown` take two clients in one game, where `twice` stays empty
and `OthersLetGo` is `RegistryLetsGo`, but for exceptions. With two games this
fails, which takes one client and is the run `second_game`; `RegistriesLetGo`
proves `OthersLetGo` for any clients and games. TLC agrees: it holds in all the
236540 states of `second_game`'s instance with a client that is free.

In `editor` three edits are enough for a piece laid over another, taken away
and laid again; an undo stack of two is then full and drops its oldest entry.
The two rows hold one start, and a checkpoint can be laid across another.
Pieces keep their shape and not their size (the editor's start is 15 by 4
cells): what the properties tell apart is overlap, edge and ramp.

In `client` one lobby more than one is asked for, so that events of an old
lobby meet a new one, and two races give one round of upgrades. Deadlock is not
checked: a client whose connection is gone has nothing left to do, and one that
asked and was cut inside a message waits for ever, which the code does too
(below). Three properties say nothing of a client that left early (`left`), and
`KeysFollowHand` nothing of a key changed before the start (`unsent`): there
the code does what section 5 describes.

In `npc` fairness is weak fairness of `update_npcs` (the simulation runs). The
towns have the width of the shipped maps' narrowest roads, and thirds of a
cell are the fewest for which a position is left, in and right of the middle.
The other settings of `config.yaml` are scaled with the town.

## 4. Proofs

`MonitorQueueProofs`. The queue's invariant is typing, the bound and, for the
wake-ups, that a thread waits without a notification only when the queue cannot
serve it; each action preserves it because a notification is sent exactly when
the queue leaves the empty or the full state. The refinement proof maps a woken
thread to a blocked one. Assumption: the capacity is at least 1.

`GameManagerProofs`. Each property of `monitor` as a theorem of `GSpec`, by
induction on the monitor's operations. `DisconnectLeaves` flattens disconnect
into its two cases and is used by all. `LeaversReported` and
`OnlyRacersRegistered` are not inductive alone: they need that a waiting lobby
has equal players and registry (so that `StartLobby` makes a car for everyone
registered) and that an unused game is not started.

`SessionServerProofs`. The inductive invariant `IInv` is the types,
`ThreadsInPlace` (who may be joined, what the threads in the middle of an
operation hold), `OneDestroyer` and `Live`. The argument for
`ReceiversUseLiveGames`: a game leaves the map only when its registry is empty;
only `c`'s own disconnection and the join of `c`'s handler remove `c` from it,
and both end with `c`'s pointers cleared; so while `c` may use a pointer it is
registered, and the game stays. It holds for free and for aborting clients.
`PlayersAreRegistered` rests on the order of the two unlocked steps of join
(`LeftFirst`: the player is taken out before its registration) and on
`ReceiverAddsItself`: nobody else makes that client a player in between.
`SessionsImplementMonitor` assumes that no receiver ends by an exception; then
`join` never finds a current game (`OrderlyJoinsFindNoGame`) and the reaper
never finds an empty one, so every change of a game is an operation of the
monitor, and the monitor's theorems hold of the server
(`OrderlySessionsReportLeavers`). `session_join_race` shows what is lost
without the assumption.

`GameloopProofs`. No constant is bounded: any players, maps, checkpoints,
upgrades and durations that satisfy the named assumptions (a race, a screen, a
frame and a second last at least one tick, the countdown is not longer than the
race). First `CoreInv`, inductive alone: types, `FinishesRecorded`, and
`ClockInv`, whose point is that a race that runs has time left, so that a finish
is never recorded as time zero, which means "not finished". Then, relative to
it, `RoundInv`: the four properties of the sessions with what they need between
two races (`BetweenRaces`: after `create_new_race` no car has an upgrade yet and
nobody's answer is kept; `InLobby`: nobody left before the first race). Most actions are
`Quietly`: they keep the sessions, the upgrades and the wrecks, and
`QuietKeepsRound` covers them at once; `RaceFinished`, `StartNewMap`,
`LastRaceFinished` and `UpgradeCar` are the real cases.
`LoopImplementsTournament` maps each step to a step of `Tournament` or to a
quiet one; it needs `TablesInv` (no table before the last race is over, none
before it is due), where a table once due stays due since division is monotone.

`LoopKeepsAccounts` says what a total is made of: the penalties of the upgrades
that were granted and, for each race that is over, a time between none and the
length of a race. It is inductive on top of `CoreInv`, which bounds the time of
a finish; the upgrades are counted by level (`Granted`), and granting one more
adds one to the count of its own level and to no other (`GrantedOnceMore`).

`LoopFinishesByTheGoal` says that a car with a finish which used no winning
cheat passed every checkpoint: with `Progress`, a car's next checkpoint is the
number of those it passed plus one, and only the last one finishes it.

`ServerShutdownProofs`. `RegistriesLetGo` says that a registry of a game holds a
handler that is gone only if its client was listed in two games of the map at
once (`twice`) or its receiver was ended by an exception (`threw`), for any
clients and games, while the server serves and while it ends, and under every
interleaving of `clear` with the receivers. It has no hypothesis; section 5 says
what becomes of the clients it excepts. The invariant `SInv` adds `LetsGo` to the
types and to `ThreadsInPlace`, and `TwiceRecorded`, that who is not in `twice` is
in one game at most. `LetsGo` speaks of the clients that are `Regular`, in
neither set. A registered one is a player of that game and its receiver
is still `Serving`, so that it will disconnect it (`RegisteredPlay`); the one
exception is the client that `clear` has just taken out of the players and takes
out of the registry next (`HalfOut`). Until then the pointer that `clear` follows
leads to no game but the one the client is registered with
(`PointsNowhereElse`), and a receiver keeps none to a game it is not registered
with (`PointersRegistered`). Each needs the others: disconnect takes the client
out of the game that lists it, `join` out of the game of its pointer, and either
is enough only if there is no other. A step that brings a client into a second
game puts it in `twice`, and it is `Regular` no more.

`EditorMapProofs`. Any city, pieces, files, checkpoints and depth of the undo
stack; the assumption `FilesAssumption` says only that what the editor opens has
the shape of a map of the city, or has no matrix. `EInv` has four parts:
`Typed`; `MapsOfTheCity` (the map in the window, and every map that the undo
stack goes back to, keeps the walls, has one start and one finish at most, and
checkpoints numbered without gaps that cover the cells that show one: without
the older maps, an undo could bring back anything); `EntriesRevert` (undoing the
newest entry gives the document before it, and so on down the stack: an entry
holds the old code of every cell its two strokes change, and takes the second
stroke back first); `FilesOfTheCity` (what was saved keeps all this, and has a
start, a finish and a checkpoint, which the dialog asks for before it saves).
`EditorImplementsDocument` maps every step to one of `UndoableDocument`: an
edit, an undo, an open or a stutter. Liveness is no part of it.

`NpcProofs`. Any set of maps, and any settings (`TrafficAssumption`). What is assumed
of a map is a hypothesis of each theorem and not of the module: `SpawnsOnRoad`
(a driving car starts on road), `WholeStart` (the start is
there in full, along its direction) and, of the settings, `SlotsFit` (the rows
of cars fit on it). The shipped maps and settings satisfy them.
`RoadsKeepTraffic` is about every car whose spawn does not look down
(`LooksAhead`): the angle of the others, which section 5 describes, is the only
way off the road. The
argument: a step moves a car one fraction ahead, or leaves it before a wall. The
first cell that `can_go` probes covers the cell that the next step enters,
whatever the fraction the car stands on, and turning keeps the position; a direction other than the ones `dir_from_angle` knows is never
reached.

That no car gets stuck needs more of a map, `RoomToDrive`. A place is a cell and
a direction. There is a set of places that holds the spawns, that a car does not
leave by any way which may look free from it, and where each place has a free
way. A car stands between cells and `can_go` probes from where it stands, so the
invariant `RoomInv` (every car that nobody hit is at such a place) needs what
the probe reads: the cells of the three lanes, counted in whole cells from the
car's own (`ProbeReads`), but for a car beyond the left or the lower edge, for
which the cast of a position between -1 and 0 gives the cell at the edge
(`OnMap`). So a way that is free on the map is free to the car (`CarSees`), and
one way in any of the four directions is always among those that `update_npcs`
weighs or is the turn back it falls back to (`SomeWay`). `RoomKeepsTrafficGoing`
is the theorem, again without the spawns that look down. The closure is a fact of a
map. `TownsAssumption`, in the instance for TLC, checks it and the other
hypotheses on the towns of `npc`; that it is true of the nine maps in
`var/need4speed/mapas_jugables`, from their spawns that do not look down, was
computed from these files outside TLC, which would take maps of that size as
constants.

`ClientProgramProofs`. Any number of races, tables, lobbies asked for and
messages under way, any maps, names, code and upgrades (`ClientAssumption`: the
folder has maps enough for a race, the code is not 0, the user has one key).
The client is told neither the phase of its game nor its seat: it counts the
events it hears. So the invariant `Good` says where the events under way lead.
`ClientAt` is the place of the client's windows, `After(p, k)` the place where
an event of kind `k` takes it (out of place it is lost), `Coming` the events in
`inbox` and on the wire, and `Follows` says that they lead from `ClientAt` to
the place where the server is (`ServerAt`) through places only. Each step of
the server adds an event at the far end, each pop of the client takes one from
the near end; a frame of the race window takes several, and the snapshots it
drops move nobody. The rest of `Good`:

- `OneAsk`: a question goes out alone and is the last word until its answer
  comes. Without it a refusal could meet the next request.
- `KeysOfTheRace`: no key of a race is left when the next lobby opens.
- `AnswerComes`, `KeyComes`: the last upgrade or key under way is the one the
  user chose, or none is under way and the server has it.
- types, and `PhasesInPlace`, `WindowInPlace`: what each end's own variables
  have to do with each other.

`CInv` asks `Good` of a client whose connection is open and that left nothing
early (`Ordinary`), as the properties do: a client that leaves a lobby or a race
keeps the old events, and section 5 says what it makes of them. Neither is
undone later, so `Good` need not hold after.

None of this would follow if a message could be read as another one, and
`Spec` puts every event and command through the encoding of `Protocol`. So
`ClientReadsAsMeant` comes first: each message is read as it was meant and to its
last field. A message that holds lists has no bound on its length and no length
in front, and that the reader takes as many fields as the writer wrote is a fact
about folds, by induction. The library's induction theorems take an operator as
a parameter; `FromZero` states induction over a set of numbers instead, and
follows from the library's theorem that `<` is well founded. With it
`ConcatAt` and its kin lay the pieces of a message out by their offsets
(`HasAt`), and the reader, which moves by the width of each piece it takes, is at
the offset of the next. The invariant `Wired` says that what is under way is
only what the two programs write, with the constants of the form that
`SamplesAssumption` gives; `Good` then speaks of the events themselves. TLC found
`CInv` an invariant of `client`, on all its states, before it was proved.

Model-checked only: liveness, which is out of the provers' reach
(`TournamentEnds`, `PopsReturnAfterClose`, `FinishedHandlersReaped`,
`DetachedGamesDestroyed`, `ShutdownEnds`, `TrafficDoesNotSpin`, the progress part
of `ImplementsChannel`). Every safety property of a passing run is a theorem,
under the hypotheses named above. The type
invariants of `SessionServer`, `Gameloop` and `ClientProgram` are in no run;
they are theorems (`SessionsWellTyped`, `LoopTypes`) and, for an ordinary client,
parts of `Good`.

## 5. What the models showed

With a run (`findings`):

- `session_join_race`: `ClientHandler::join` uses `current_game` after another
  client's disconnection destroyed it. The theorem above says when it cannot.
- `client_start`: a refused join or a creation without maps leaves
  `PreLobby::action_` set, and closing the window then opens the race window.
- `second_game`: a client that raced and then creates another lobby is a player
  of two games, because the client program goes back to its menu without a
  message (`Client.cpp:39`), as `client_handler.h:40` means it to.
  `GameManager::disconnect` stops at the first game that lists it
  (`game_manager.cpp:156`); the other goes on broadcasting to the queue of a
  handler that the acceptor destroyed, against `client_registry.h:15`. One that
  left a running race stays in its `lobby_players`, with the same end, and one
  that sends what the client program never sends can be in two lobbies that wait.

With no run, met while modelling:

- Queue: a push blocked on a full queue completes after the queue was closed
  (`queue.h:89`; `queue.h:24` says that a closed queue takes nothing).
- Server: a handler whose receiver ended is not reaped while its sender waits
  (`client_handler.cpp:51`); join takes a client out of a running race without
  telling the loop (`client_handler.cpp:24`, against `game.cpp:90`); join may
  leave an empty lobby in the map.
- Shutdown: `clear` uses `current_game` while the receiver may clear it or
  destroy the game (`client_handler.cpp:22`), so an ordinary end of the server
  may crash it; all that `ShutdownEnds` promises is one or the other. A receiver
  that creates or joins a lobby just then registers its queue and throws
  (`game_manager.cpp:81`): it does not disconnect, and until `stop_all` the game
  may broadcast to the queue of a destroyed handler, which `OthersLetGo`
  excepts (`client_registry.h:15` says that a client that disconnects is taken
  out of the registry). A receiver that tested `current_game` in `start_lobby`
  may find it cleared (`client_handler.cpp:106`).
- Race: a destroyed car may still cross the goal (`race_system.cpp:68`).
- Client: events that wait when a player leaves a lobby or a race answer the
  next request. `race_started` stays true until the next PREGAME and the server
  does not look at the countdown, so keys may count before the start; a key
  held in the countdown is deduplicated and never sent; one released there
  likewise. Closing the lobby's window leaves without LEAVE_LOBBY. A connection
  lost inside a message gives no event, and a window that pops then blocks for
  good; one lost in a race is not noticed. A creation whose map does not load
  has no answer. A code that is no number is sent as 0. The `is_last_map` of
  PREGAME and the status of a row are never read. `Lobby` deletes its listener
  later than its destructor uses it.
- Editor: an undo leaves `mapModified` as it is, and saving clears it before
  the file opens; a map may be saved over another base map; opening a file
  without a matrix replaces the extra fields of the one in use, and does not
  ask before it drops changes. `restoreOriginalValue` forgets which ramp lies
  under two pieces. Erasing a checkpoint clears cells another one lists. After
  an undo the next start may lie across its direction (`mapview.cpp:581`), and
  its cars then start beside it.
- Traffic: the loader gives a spawn that looks down the angle 3/2 pi
  (`map_loader.cpp:399`), which `dir_from_angle` takes for Left
  (`race_context.cpp:52`) while the body looks down. The car goes on where
  `can_go` would stop it, until it turns or meets a wall; on ground without one
  (code 5) it leaves the road, as it does from two such spawns of the shipped
  Vice City maps. `TrafficKeepsToTheRoad` and `TrafficNeverStuck` leave such cars
  out (`LooksAhead`), and TLC finds both violated, in the town of `npc` that has
  such a spawn, if they do not.
- Traffic: border cells of a map may be road but carry walls in the physics
  (`map_loader.cpp:235`); positions between -1 and 0 count as column 0; a
  checkpoint's plain cells (code 4) count as no road, so cars turn round there;
  cars never change layer on a bridge; any contact destroys a parked car.

## 6. Not modelled, and the plan

Next, in this order: the server of `ClientProgram` as an implementation of
`Tournament`, so that the composition that section 2 describes is a theorem;
`RoomToDrive` of the shipped maps themselves, read into a run; an undo that
keeps the direction of the next start, once the editor does.

Left out, and why. Physics, forces and the shapes of contacts are floating
point geometry: the models let any contact happen at any step instead.
Rendering, sound, the widgets' look and the editor's overlay keep no state
others read. The POSIX socket library is an open or closed peer and a stream of
whole messages that may be cut. Of the configuration only the penalties and the
settings of the traffic matter here.
