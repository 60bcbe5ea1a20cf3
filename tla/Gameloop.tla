------------------------------ MODULE Gameloop ------------------------------
(***************************************************************************)
(* The game loop of one game: a thread that plays the races of a           *)
(* tournament in order, with the screens between them.                     *)
(*                                                                         *)
(* A frame is: the commands of the queue, one by one, update_state with    *)
(* the time since the last frame, the steps of the simulation, and the     *)
(* snapshots.  Time is counted in ticks, and tests of it against zero      *)
(* only: what is below zero is kept as zero.                               *)
(***************************************************************************)
EXTENDS RaceRules, FiniteSets

CONSTANTS
  NumMaps,        \* maps.size()
  BadMaps,        \* positions of the maps whose file may be unreadable when its race comes
  RaceTotalTime, RaceCountdownTime, ResultsScreen, UpgradesScreen, \* Config, in ticks
  TicksPerSecond, \* the protocol speaks in whole seconds
  Frames,         \* the durations a frame may have
  Upgrades,       \* the codes the Upgrade commands carry
  Penalty         \* Config::upgrade_penalties_: level to ticks

ASSUME MapsAssumption == NumMaps \in Nat \ {0} /\ BadMaps \subseteq 1 .. NumMaps - 1
ASSUME TimesAssumption ==
  /\ RaceTotalTime \in Nat \ {0} /\ RaceCountdownTime \in 0 .. RaceTotalTime
  /\ ResultsScreen \in Nat \ {0} /\ UpgradesScreen \in Nat \ {0}
  /\ TicksPerSecond \in Nat \ {0} /\ Frames \subseteq Nat \ {0}
ASSUME UpgradesAssumption ==
  /\ Upgrades \subseteq 0 .. 255
  /\ DOMAIN Penalty \subseteq 1 .. 3 /\ \A l \in DOMAIN Penalty : Penalty[l] \in Nat

VARIABLES
  pc,                     \* "receive", "simulate" or "ended"
  state,                  \* RaceState
  current_map_index,
  race_with_countdown,
  results_time_remaining,
  actual_result_time,     \* since the last race ended
  result_snapshot_sent,   \* tables of the last race sent
  players,                \* client to PlayerSession
  cast                    \* the events the last step broadcast

lvars == <<pc, state, current_map_index, race_with_countdown, results_time_remaining,
           actual_result_time, result_snapshot_sent, players, cast>>
gvars == <<lvars, rvars>>

RaceDuration == RaceTotalTime - RaceCountdownTime
StepsResultTable == 4

Minus(time, dt) == IF time > dt THEN time - dt ELSE 0

-----------------------------------------------------------------------------
\* The events the loop broadcasts, with what the clients look at.
PhaseChange == [type |-> "phase"]
PreGame(remaining, start) == [type |-> "pregame", remaining |-> remaining, start |-> start]
Results(last, status) ==
  [type |-> IF last THEN "final_results" ELSE "results", status |-> status]
Snapshot(seconds, exploding) ==
  [type |-> "snapshot", seconds |-> seconds, exploding |-> exploding]

Says(events) == cast' = events

SendPreGameSnapshot ==
  <<PreGame(NumMaps - current_map_index, RaceDuration \div TicksPerSecond)>>

NewSession ==
  [applied |-> <<>>, received |-> FALSE, pending |-> 0, disconnected |-> FALSE,
   total |-> 0, races |-> 0]

Init ==
  /\ pc = "receive" /\ state = "WaitingForLobbyStart"
  /\ current_map_index = 0
  /\ race_with_countdown = RaceTotalTime
  /\ results_time_remaining = ResultsScreen
  /\ actual_result_time = 0 /\ result_snapshot_sent = 0
  /\ players = [c \in {} |-> NewSession]
  /\ cast = <<>>
  /\ cars = [c \in {} |-> NewCar] /\ progress = [c \in {} |-> NewProgress] /\ pressed = {}

-----------------------------------------------------------------------------
\* Commands.  The lobby's start queues a NewCar for each client and then
\* BeginRace, before anything from the clients; a client queues nothing after
\* its Disconect.

timers == <<race_with_countdown, results_time_remaining, actual_result_time,
            result_snapshot_sent>>

Sends(c) == pc = "receive" /\ c \in DOMAIN players /\ ~players[c].disconnected

ReceiveNewCar(c) ==
  /\ pc = "receive" /\ state = "WaitingForLobbyStart" /\ c \notin DOMAIN players
  /\ players' = [d \in DOMAIN players \cup {c} |->
                   IF d \in DOMAIN players THEN players[d] ELSE NewSession]
  /\ AddNewCar(c)
  /\ Says(<<>>)
  /\ UNCHANGED <<pc, state, current_map_index, timers>>

BeginRace ==
  /\ pc = "receive" /\ DOMAIN players = Clients
  /\ state = "WaitingForLobbyStart"
  /\ state' = "Running" /\ Says(SendPreGameSnapshot)
  /\ UNCHANGED <<pc, current_map_index, timers, players, rvars>>

ReceiveMove(c, move) ==
  /\ Sends(c) /\ state = "Running"
  /\ ReceiveCommandMove(c, move, race_with_countdown)
  /\ Says(<<>>)
  /\ UNCHANGED <<pc, state, current_map_index, timers, players>>

UpgradeCar(c, up) ==
  /\ Sends(c) /\ state = "WaitingUpgrades"
  /\ players' = [players EXCEPT ![c].pending = up, ![c].received = TRUE]
  /\ Says(<<>>)
  /\ UNCHANGED <<pc, state, current_map_index, timers, rvars>>

\* A Move or an Upgrade in any other state.
IgnoreCommand(c) ==
  /\ Sends(c) /\ state # "WaitingForLobbyStart"
  /\ Says(<<>>)
  /\ UNCHANGED <<pc, state, current_map_index, timers, players, rvars>>

DisconectCar(c) ==
  /\ Sends(c) /\ state # "WaitingForLobbyStart"
  /\ players' = [players EXCEPT ![c].disconnected = TRUE]
  /\ Lose(c)
  /\ Says(<<>>)
  /\ UNCHANGED <<pc, state, current_map_index, timers>>

\* The closed queue is empty: try_pop throws.  It was closed by the loop's own
\* end, or by Game::stop when the last client left or the server stops.
LoopEnds ==
  /\ pc = "receive"
  /\ pc' = "ended" /\ Says(<<>>)
  /\ UNCHANGED <<state, current_map_index, timers, players, rvars>>

-----------------------------------------------------------------------------
\* update_state, in Running.

RaceTime_Unclamped(c) ==
  IF progress[c].finish = 0 THEN RaceDuration ELSE RaceDuration - progress[c].finish
RaceTime(c) ==
  LET taken == RaceDuration - progress[c].finish
  IN  IF progress[c].finish = 0 THEN RaceDuration ELSE IF taken < 0 THEN 0 ELSE taken

AddResult_OnlyFinishers(c) ==
  IF HasCar(c) /\ progress[c].finish > 0
  THEN [players[c] EXCEPT !.total = @ + RaceTime(c), !.races = @ + 1]
  ELSE players[c]
AddResult(c) ==
  IF HasCar(c) THEN [players[c] EXCEPT !.total = @ + RaceTime(c), !.races = @ + 1]
  ELSE players[c]
ForgetUpgrade(session) == [session EXCEPT !.received = FALSE, !.pending = 0]

\* Zero for a car that finished.
Status == [c \in DOMAIN cars |-> IF progress[c].finish > 0 THEN 0 ELSE 1]

RaceIsOver(dt) == Minus(race_with_countdown, dt) = 0 \/ AllPlayersFinishedOrDead
IsLast_OffByOne == current_map_index >= NumMaps
IsLast == current_map_index + 1 >= NumMaps

Updates(dt) == pc = "receive" /\ dt \in Frames

RaceGoesOn(dt) ==
  /\ Updates(dt) /\ state = "Running" /\ ~RaceIsOver(dt)
  /\ race_with_countdown' = Minus(race_with_countdown, dt)
  /\ pc' = "simulate" /\ Says(<<>>)
  /\ UNCHANGED <<state, current_map_index, results_time_remaining, actual_result_time,
                 result_snapshot_sent, players, rvars>>

\* race_finished and create_new_race.  The map is read again: if that fails it
\* ends the thread.
RaceFinished(dt) ==
  /\ Updates(dt) /\ state = "Running" /\ RaceIsOver(dt) /\ ~IsLast
  /\ Says(<<Results(FALSE, Status)>>)
  /\ current_map_index' = current_map_index + 1
  /\ race_with_countdown' = RaceTotalTime
  /\ results_time_remaining' = ResultsScreen
  /\ state' = "ShowingResults"
  /\ UNCHANGED <<actual_result_time, result_snapshot_sent>>
  /\ \/ /\ players' = [c \in DOMAIN players |-> ForgetUpgrade(AddResult(c))]
        /\ NewRace
        /\ UNCHANGED pc
     \/ /\ current_map_index + 1 \in BadMaps
        /\ players' = [c \in DOMAIN players |-> AddResult(c)]
        /\ pc' = "ended" /\ UNCHANGED rvars

LastRaceFinished(dt) ==
  /\ Updates(dt) /\ state = "Running" /\ RaceIsOver(dt) /\ IsLast
  /\ players' = [c \in DOMAIN players |-> AddResult(c)]
  /\ race_with_countdown' = Minus(race_with_countdown, dt)
  /\ results_time_remaining' = ResultsScreen
  /\ actual_result_time' = 0 /\ result_snapshot_sent' = 0
  /\ state' = "ShowingResultsLastRace"
  /\ Says(<<>>)
  /\ UNCHANGED <<pc, current_map_index, rvars>>

-----------------------------------------------------------------------------
\* update_state, in the screens between two races.

ScreenTime(dt) == Minus(results_time_remaining, dt)

\* A screen whose time is not over.
ScreenGoesOn(dt) ==
  /\ Updates(dt) /\ state \in {"ShowingResults", "ChoosingUpgrades"}
  /\ ScreenTime(dt) > 0
  /\ results_time_remaining' = ScreenTime(dt)
  /\ Says(<<>>)
  /\ UNCHANGED <<pc, state, current_map_index, race_with_countdown, actual_result_time,
                 result_snapshot_sent, players, rvars>>

EndScreen(dt, screen, next) ==
  /\ Updates(dt) /\ state = screen /\ ScreenTime(dt) = 0
  /\ results_time_remaining' = UpgradesScreen
  /\ state' = next /\ Says(<<PhaseChange>>)
  /\ UNCHANGED <<pc, current_map_index, race_with_countdown, actual_result_time,
                 result_snapshot_sent, players, rvars>>

ResultsShown(dt) == EndScreen(dt, "ShowingResults", "ChoosingUpgrades")
UpgradesChosen(dt) == EndScreen(dt, "ChoosingUpgrades", "WaitingUpgrades")

\* All players, those who left too.
AllReceived == \A c \in DOMAIN players : players[c].received

WaitForUpgrades(dt) ==
  /\ Updates(dt) /\ state = "WaitingUpgrades"
  /\ ~AllReceived /\ ScreenTime(dt) > 0
  /\ results_time_remaining' = ScreenTime(dt)
  /\ Says(<<>>)
  /\ UNCHANGED <<pc, state, current_map_index, race_with_countdown, actual_result_time,
                 result_snapshot_sent, players, rvars>>

IsUpgrade(up) == up \in 1 .. 9
Level(up) == IF IsUpgrade(up) THEN ((up - 1) % 3) + 1 ELSE 0
PenaltyFor(level) == IF level \in DOMAIN Penalty THEN Penalty[level] ELSE 0
ApplyPending(s) ==
  [s EXCEPT !.total = @ + PenaltyFor(Level(s.pending)),
            !.applied = IF IsUpgrade(s.pending) THEN Append(@, s.pending) ELSE @]

StartingCar_LastUpgrade(c) ==
  LET ups == IF IsUpgrade(players[c].pending) THEN <<players[c].pending>> ELSE <<>>
      car == ApplyUpgrades(cars[c], ups)
  IN  IF players[c].disconnected THEN Kill(car) ELSE car
StartingCar_ForgetsLeavers(c) == ApplyUpgrades(cars[c], ApplyPending(players[c]).applied)
\* The upgrades of all the rounds go to the new cars; who left starts dead.
StartingCar(c) ==
  LET car == ApplyUpgrades(cars[c], ApplyPending(players[c]).applied)
  IN  IF players[c].disconnected THEN Kill(car) ELSE car

StartNewMap_NoTimer(dt) ==
  /\ Updates(dt) /\ state = "WaitingUpgrades"
  /\ AllReceived
  /\ results_time_remaining' = ScreenTime(dt)
  /\ players' = [c \in DOMAIN players |-> ApplyPending(players[c])]
  /\ cars' = [c \in DOMAIN cars |-> StartingCar(c)]
  /\ Says(SendPreGameSnapshot)
  /\ race_with_countdown' = RaceTotalTime
  /\ state' = "Running" /\ pc' = "simulate"
  /\ UNCHANGED <<current_map_index, actual_result_time, result_snapshot_sent,
                 progress, pressed>>
StartNewMap(dt) ==
  /\ Updates(dt) /\ state = "WaitingUpgrades"
  /\ AllReceived \/ ScreenTime(dt) = 0
  /\ results_time_remaining' = ScreenTime(dt)
  /\ players' = [c \in DOMAIN players |-> ApplyPending(players[c])]
  /\ cars' = [c \in DOMAIN cars |-> StartingCar(c)]
  /\ Says(SendPreGameSnapshot)
  /\ race_with_countdown' = RaceTotalTime
  /\ state' = "Running" /\ pc' = "simulate"
  /\ UNCHANGED <<current_map_index, actual_result_time, result_snapshot_sent,
                 progress, pressed>>

-----------------------------------------------------------------------------
\* update_state after the last race: table k is due at k quarters of the
\* screen's time.
TablesDue(time) ==
  LET due == (StepsResultTable * time) \div ResultsScreen + 1
  IN  IF due < StepsResultTable THEN due ELSE StepsResultTable

ShowResultsLastRace(dt) ==
  LET shown == actual_result_time + dt
      due == TablesDue(shown)
      tables == [i \in 1 .. due - result_snapshot_sent |-> Results(TRUE, Status)]
  IN  /\ Updates(dt) /\ state = "ShowingResultsLastRace"
      /\ actual_result_time' = shown
      /\ results_time_remaining' = ScreenTime(dt)
      /\ result_snapshot_sent' = due
      /\ \/ /\ ScreenTime(dt) > 0 \/ due < StepsResultTable
            /\ Says(tables) /\ UNCHANGED state
         \/ /\ ScreenTime(dt) = 0 /\ due >= StepsResultTable
            /\ state' = "Finished" /\ Says(Append(tables, PhaseChange))
      /\ UNCHANGED <<pc, current_map_index, race_with_countdown, players, rvars>>

-----------------------------------------------------------------------------
\* step_simulation, any number of steps, and send_snapshots: at most one
\* snapshot a frame here.

Contact(c) ==
  /\ pc = "simulate"
  /\ \E order \in 1 .. LastOrder : HandleCheckpointContact(c, order, race_with_countdown)
  /\ Says(<<>>)
  /\ UNCHANGED <<pc, state, current_map_index, timers, players>>

Hit(c) ==
  /\ pc = "simulate"
  /\ \E damage \in 1 .. 3 : HandleHit(c, damage)
  /\ Says(<<>>)
  /\ UNCHANGED <<pc, state, current_map_index, timers, players>>

SendSnapshot ==
  /\ pc = "simulate" /\ DOMAIN cars # {}
  /\ Says(<<Snapshot(race_with_countdown \div TicksPerSecond, Exploding)>>)
  /\ ConsumeExplosions
  /\ pc' = "receive"
  /\ UNCHANGED <<state, current_map_index, timers, players, progress, pressed>>

SendNothing ==
  /\ pc = "simulate" /\ pc' = "receive" /\ Says(<<>>)
  /\ UNCHANGED <<state, current_map_index, timers, players, rvars>>

-----------------------------------------------------------------------------
Receive(c) ==
  \/ ReceiveNewCar(c) \/ DisconectCar(c) \/ IgnoreCommand(c)
  \/ \E move \in Moves[c] : ReceiveMove(c, move)
  \/ \E up \in Upgrades : UpgradeCar(c, up)

UpdateState ==
  \E dt \in Frames :
    \/ RaceGoesOn(dt) \/ RaceFinished(dt) \/ LastRaceFinished(dt)
    \/ ScreenGoesOn(dt) \/ ResultsShown(dt) \/ UpgradesChosen(dt)
    \/ WaitForUpgrades(dt) \/ StartNewMap(dt) \/ ShowResultsLastRace(dt)

EndFrame == SendSnapshot \/ SendNothing

Next ==
  \/ \E c \in Clients : Receive(c) \/ Contact(c) \/ Hit(c)
  \/ BeginRace \/ UpdateState \/ EndFrame \/ LoopEnds

Spec == Init /\ [][Next]_gvars

\* The loop keeps running: a frame that began ends, and update_state is
\* reached, since the loop pops commands faster than clients send them.
FairSpec == Spec /\ WF_gvars(UpdateState) /\ WF_gvars(EndFrame)

-----------------------------------------------------------------------------
RaceStates == {"WaitingForLobbyStart", "Running", "ShowingResults", "ChoosingUpgrades",
               "WaitingUpgrades", "ShowingResultsLastRace", "Finished"}
Sessions == [applied : Seq(1 .. 9), received : BOOLEAN, pending : 0 .. 255,
             disconnected : BOOLEAN, total : Nat, races : Nat]

ClockTypeOK ==
  /\ pc \in {"receive", "simulate", "ended"} /\ state \in RaceStates
  /\ current_map_index \in 0 .. NumMaps - 1
  /\ race_with_countdown \in 0 .. RaceTotalTime
  /\ results_time_remaining \in Nat /\ actual_result_time \in Nat
  /\ result_snapshot_sent \in 0 .. StepsResultTable
PlayersTypeOK ==
  DOMAIN players = DOMAIN cars /\ \A c \in DOMAIN players : players[c] \in Sessions

\* The variables keep to their types, and every player has a car.
GLTypeOK == RaceTypeOK /\ ClockTypeOK /\ PlayersTypeOK

\* A car is out of the simulation as finished exactly if it has a finish
\* time: finishing sets both, by the goal and by the cheat, at times that are
\* never zero (zero means "not finished" in race_progress).
FinishesRecorded == \A c \in DOMAIN cars : cars[c].finished <=> progress[c].finish > 0

\* While a race runs, the cars of players that left are destroyed, in the race
\* they left and in every later one: nobody waits for them.
LeaversDestroyed ==
  state = "Running" =>
    \A c \in DOMAIN players : players[c].disconnected => IsDestroyed(cars[c])

\* While a race runs every car has all the upgrades its player was ever
\* granted, each as often as it was granted, though its car is a new one.
UpgradesKept ==
  state = "Running" => \A c \in DOMAIN players : cars[c].upgrades = players[c].applied

\* An upgrade that waits to be applied was sent in this round: none is applied
\* (and charged) again in the next round because nobody forgot it.
PendingIsCurrent ==
  /\ \A c \in DOMAIN players : players[c].pending # 0 => players[c].received
  /\ state \in {"ShowingResults", "ChoosingUpgrades"} /\ pc # "ended" =>
       \A c \in DOMAIN players : ~players[c].received

\* A player's result counts once for every race that is over.
RacesOver ==
  current_map_index + (IF state \in {"ShowingResultsLastRace", "Finished"} THEN 1 ELSE 0)
RacesCountedOnce == \A c \in DOMAIN players : players[c].races = RacesOver

\* What upgrades cost: each the penalty of its level.
Granted(ups, level) == Cardinality({i \in DOMAIN ups : Level(ups[i]) = level})
Charged(ups) ==
  PenaltyFor(1) * Granted(ups, 1) + PenaltyFor(2) * Granted(ups, 2)
    + PenaltyFor(3) * Granted(ups, 3)

Accounts(s) == s.total - Charged(s.applied) \in 0 .. s.races * RaceDuration

\* A player's total is what was charged for upgrades and, for each race, a
\* time between zero and the whole race: a finish during the countdown counts
\* as zero and is no credit.
TotalsAccount == \A c \in DOMAIN players : Accounts(players[c])

\* Without the cheat that wins, who finished passed every checkpoint.
FinishedByTheGoal ==
  \A c \in DOMAIN cars :
    "win" \notin Moves[c] /\ progress[c].finish > 0 => progress[c].next_order = LastOrder + 1

\* A step keeps the finish times of the race that runs.
FinishKept ==
  current_map_index' = current_map_index =>
    \A c \in DOMAIN cars :
      progress[c].finish > 0 => progress'[c].finish = progress[c].finish

\* A finish time does not change until the next race, whatever the client
\* sends after it.
FinishTimeFixed == [][FinishKept]_gvars

\* Once begun, a tournament comes to its end, or its thread ends: no screen
\* waits for ever, whoever left and whatever is not answered.
TournamentEnds == state = "Running" ~> state = "Finished" \/ pc = "ended"

-----------------------------------------------------------------------------
\* The loop announces every race, screen and table in the order that
\* Tournament promises, and nothing else.
Phase ==
  CASE state = "WaitingForLobbyStart" -> "lobby"
    [] state = "Running" -> "racing"
    [] state = "ShowingResults" -> "results"
    [] state = "ChoosingUpgrades" -> "choosing"
    [] state = "WaitingUpgrades" -> "waiting"
    [] state = "ShowingResultsLastRace" -> "final"
    [] state = "Finished" -> "over"

Types(events) == [i \in DOMAIN events |-> events[i].type]

T == INSTANCE Tournament WITH
       Races <- NumMaps, Tables <- StepsResultTable,
       round <- current_map_index, phase <- Phase, shown <- result_snapshot_sent,
       said <- Types(cast)

ImplementsTournament == T!TSpec

=============================================================================
