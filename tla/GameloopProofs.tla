--------------------------- MODULE GameloopProofs ---------------------------
(***************************************************************************)
(* What the game loop guarantees for any number of players, maps,          *)
(* checkpoints and upgrades, and for any durations.                        *)
(***************************************************************************)
EXTENDS Gameloop, FiniteSetTheorems, TLAPS

-----------------------------------------------------------------------------
\* The operations of one car keep its type.
LEMMA CarsStayCars ==
  ASSUME NEW car \in Car
  PROVE  /\ Kill(car) \in Car /\ MarkFinished(car) \in Car /\ SetGodMode(car) \in Car
         /\ [car EXCEPT !.ghost = ~@] \in Car
         /\ [car EXCEPT !.one_destroy = FALSE] \in Car
         /\ \A damage \in Nat : ApplyDamage(car, damage) \in Car
         /\ \A ups \in Seq(1 .. 9) : ApplyUpgrades(car, ups) \in Car
<1> USE HealthAssumption DEF Car
<1>0. /\ \A h \in 0 .. MaxHealth : [car EXCEPT !.health = h] \in Car
      /\ [car EXCEPT !.finished = TRUE] \in Car
      /\ [car EXCEPT !.god = TRUE] \in Car
  OBVIOUS
<1>1. Kill(car) \in Car
  <2> DEFINE dead == [car EXCEPT !.health = 0]
  <2>1. dead \in Car /\ Kill(car) = [dead EXCEPT !.ghost = TRUE]
    BY <1>0 DEF Kill
  <2> QED
    BY <2>1
<1>6. MarkFinished(car) \in Car
  <2> DEFINE home == [car EXCEPT !.finished = TRUE]
  <2>1. home \in Car /\ MarkFinished(car) = [home EXCEPT !.ghost = TRUE]
    BY <1>0 DEF MarkFinished
  <2> QED
    BY <2>1
<1>5. SetGodMode(car) \in Car
  <2> DEFINE god == [car EXCEPT !.god = TRUE]
  <2>1. god \in Car /\ SetGodMode(car) = [god EXCEPT !.health = MaxHealth]
    BY <1>0 DEF SetGodMode
  <2>2. MaxHealth \in 0 .. MaxHealth
    OBVIOUS
  <2> HIDE DEF god
  <2> QED
    BY <2>1, <2>2
<1>2. /\ [car EXCEPT !.ghost = ~@] \in Car
      /\ [car EXCEPT !.one_destroy = FALSE] \in Car
  OBVIOUS
<1>3. ASSUME NEW damage \in Nat PROVE ApplyDamage(car, damage) \in Car
  BY DEF ApplyDamage
<1>4. ASSUME NEW ups \in Seq(1 .. 9) PROVE ApplyUpgrades(car, ups) \in Car
  <2>1. car.upgrades \o ups \in Seq(1 .. 9)
    BY <1>4
  <2> QED
    BY <2>1 DEF ApplyUpgrades
<1> QED
  BY <1>1, <1>2, <1>3, <1>4, <1>5, <1>6

LEMMA NewCarIsCar == NewCar \in Car /\ NewProgress \in RaceProgress
BY HealthAssumption, CheckpointsAssumption DEF NewCar, NewProgress, Car, RaceProgress

\* Only finishing changes the finished flag of a car.
LEMMA OnlyFinishingFinishes ==
  ASSUME NEW car \in Car
  PROVE  /\ Kill(car).finished = car.finished /\ SetGodMode(car).finished = car.finished
         /\ [car EXCEPT !.ghost = ~@].finished = car.finished
         /\ [car EXCEPT !.one_destroy = FALSE].finished = car.finished
         /\ \A damage : ApplyDamage(car, damage).finished = car.finished
         /\ \A ups : ApplyUpgrades(car, ups).finished = car.finished
         /\ MarkFinished(car).finished
BY DEF Kill, SetGodMode, ApplyDamage, ApplyUpgrades, MarkFinished, Car

-----------------------------------------------------------------------------
\* One race.  Every operation keeps its types, and finishes recorded.
RaceInv == RaceTypeOK /\ FinishesRecorded

LEMMA InvAddNewCar ==
  ASSUME RaceInv, NEW c \in Clients, AddNewCar(c), ~HasCar(c)
  PROVE  RaceInv'
BY NewCarIsCar DEF RaceInv, RaceTypeOK, FinishesRecorded, AddNewCar, HasCar, NewCar, NewProgress

LEMMA InvNewRace ==
  ASSUME RaceInv, NewRace
  PROVE  RaceInv'
BY NewCarIsCar DEF RaceInv, RaceTypeOK, FinishesRecorded, NewRace, NewCar, NewProgress

\* A change of one car that finishes nothing.
LEMMA InvSetCar ==
  ASSUME RaceInv, NEW c, HasCar(c), NEW car \in Car, car.finished = cars[c].finished,
         SetCar(c, car)
  PROVE  RaceInv'
BY DEF RaceInv, RaceTypeOK, FinishesRecorded, SetCar, HasCar

LEMMA InvFinish ==
  ASSUME RaceInv, NEW c, HasCar(c), NEW time \in Nat \ {0}, NEW prog \in RaceProgress,
         prog.finish > 0,
         cars' = [cars EXCEPT ![c] = MarkFinished(@)],
         progress' = [progress EXCEPT ![c] = prog], pressed' = pressed
  PROVE  RaceInv'
<1>1. MarkFinished(cars[c]) \in Car /\ MarkFinished(cars[c]).finished
  BY CarsStayCars, OnlyFinishingFinishes DEF RaceInv, RaceTypeOK, HasCar
<1> QED
  BY <1>1 DEF RaceInv, RaceTypeOK, FinishesRecorded, HasCar

LEMMA FinishIsPositive ==
  ASSUME NEW prog \in RaceProgress, NEW time \in Nat \ {0}
  PROVE  /\ SetRaceFinish(prog, time) \in RaceProgress
         /\ SetRaceFinish(prog, time).finish > 0
         /\ SetRaceFinish(prog, time).next_order = prog.next_order
BY DEF SetRaceFinish, RaceProgress

LEMMA InvMove ==
  ASSUME RaceInv, NEW c, NEW move, NEW time \in Nat \ {0},
         ReceiveCommandMove(c, move, time)
  PROVE  RaceInv'
<1>1. CASE UNCHANGED rvars
  BY <1>1 DEF rvars, RaceInv, RaceTypeOK, FinishesRecorded
<1>2. CASE HasCar(c) /\ (Press(c) \/ Release(c))
  BY <1>2 DEF Press, Release, HasCar, RaceInv, RaceTypeOK, FinishesRecorded
<1>3. CASE HasCar(c) /\ Win(c, time)
  <2>1. progress[c] \in RaceProgress
    BY <1>3 DEF RaceInv, RaceTypeOK, HasCar
  <2>2. progress' = [progress EXCEPT ![c] = SetRaceFinish(progress[c], time)]
    BY <1>3, Zenon DEF Win
  <2> QED
    BY <1>3, <2>1, <2>2, FinishIsPositive, InvFinish DEF Win
<1>4. CASE HasCar(c) /\ SetCar(c, Kill(cars[c]))
  BY <1>4, CarsStayCars, OnlyFinishingFinishes, InvSetCar DEF RaceInv, RaceTypeOK, HasCar
<1>5. CASE HasCar(c) /\ SetCar(c, SetGodMode(cars[c]))
  BY <1>5, CarsStayCars, OnlyFinishingFinishes, InvSetCar DEF RaceInv, RaceTypeOK, HasCar
<1>6. CASE HasCar(c) /\ SetCar(c, [cars[c] EXCEPT !.ghost = ~@])
  <2>1. cars[c] \in Car
    BY <1>6 DEF RaceInv, RaceTypeOK, HasCar
  <2>2. /\ [cars[c] EXCEPT !.ghost = ~@] \in Car
        /\ [cars[c] EXCEPT !.ghost = ~@].finished = cars[c].finished
    BY <2>1, CarsStayCars, OnlyFinishingFinishes
  <2> QED
    BY <1>6, <2>2, InvSetCar
<1> QED
  BY <1>1, <1>2, <1>3, <1>4, <1>5, <1>6 DEF ReceiveCommandMove

LEMMA InvLose ==
  ASSUME RaceInv, NEW c, Lose(c)
  PROVE  RaceInv'
BY CarsStayCars, OnlyFinishingFinishes DEF Lose, RaceInv, RaceTypeOK, FinishesRecorded

LEMMA InvContact ==
  ASSUME RaceInv, NEW c, NEW order \in 1 .. LastOrder, NEW time \in Nat \ {0},
         HandleCheckpointContact(c, order, time)
  PROVE  RaceInv'
<1> DEFINE prog == IF order = LastOrder THEN SetRaceFinish(progress[c], time) ELSE progress[c]
           next == [prog EXCEPT !.next_order = @ + 1]
<1>1. /\ HasCar(c) /\ order = progress[c].next_order
      /\ progress' = [progress EXCEPT ![c] = next]
      /\ cars' = IF order = LastOrder THEN [cars EXCEPT ![c] = MarkFinished(@)] ELSE cars
      /\ pressed' = pressed
  BY Zenon DEF HandleCheckpointContact
<1>2. progress[c] \in RaceProgress
  BY <1>1 DEF RaceInv, RaceTypeOK, HasCar
<1>3. /\ prog \in RaceProgress /\ prog.next_order = progress[c].next_order
      /\ order = LastOrder => prog.finish > 0
      /\ order # LastOrder => prog.finish = progress[c].finish
  BY <1>2, FinishIsPositive
<1> HIDE DEF prog
<1>4. next \in RaceProgress /\ next.finish = prog.finish
  BY <1>1, <1>3, CheckpointsAssumption DEF RaceProgress
<1> HIDE DEF next
<1>5. CASE order = LastOrder
  BY <1>1, <1>3, <1>4, <1>5, InvFinish
<1>6. CASE order # LastOrder
  BY <1>1, <1>3, <1>4, <1>6 DEF RaceInv, RaceTypeOK, FinishesRecorded, HasCar
<1> QED
  BY <1>5, <1>6

LEMMA InvHit ==
  ASSUME RaceInv, NEW c, NEW damage \in 1 .. 3, HandleHit(c, damage)
  PROVE  RaceInv'
<1>1. HasCar(c) /\ SetCar(c, ApplyDamage(cars[c], damage))
  BY Zenon DEF HandleHit
<1>2. cars[c] \in Car
  BY <1>1 DEF RaceInv, RaceTypeOK, HasCar
<1>3. /\ ApplyDamage(cars[c], damage) \in Car
      /\ ApplyDamage(cars[c], damage).finished = cars[c].finished
  <2>1. damage \in Nat
    OBVIOUS
  <2> QED
    BY <1>2, <2>1, CarsStayCars, OnlyFinishingFinishes, Zenon
<1> QED
  BY <1>1, <1>3, InvSetCar

LEMMA InvConsume ==
  ASSUME RaceInv, ConsumeExplosions, UNCHANGED <<progress, pressed>>
  PROVE  RaceInv'
<1>1. /\ DOMAIN cars' = DOMAIN cars
      /\ \A c \in DOMAIN cars : \/ cars'[c] = cars[c]
                                \/ cars'[c] = [cars[c] EXCEPT !.one_destroy = FALSE]
  BY DEF ConsumeExplosions
<1>2. \A c \in DOMAIN cars : cars'[c] \in Car /\ cars'[c].finished = cars[c].finished
  <2> SUFFICES ASSUME NEW c \in DOMAIN cars
               PROVE  cars'[c] \in Car /\ cars'[c].finished = cars[c].finished
    OBVIOUS
  <2>1. cars[c] \in Car
    BY DEF RaceInv, RaceTypeOK
  <2>2. /\ [cars[c] EXCEPT !.one_destroy = FALSE] \in Car
        /\ [cars[c] EXCEPT !.one_destroy = FALSE].finished = cars[c].finished
    BY <2>1, CarsStayCars, OnlyFinishingFinishes
  <2> QED
    BY <1>1, <2>1, <2>2, Zenon
<1> QED
  BY <1>1, <1>2 DEF RaceInv, RaceTypeOK, FinishesRecorded

-----------------------------------------------------------------------------
\* The clock, the phases and the map index.  A race that runs, or is about to,
\* has time left, and only races are simulated.
ClockInv ==
  /\ ClockTypeOK
  /\ race_with_countdown > 0 \/ state \in {"ShowingResultsLastRace", "Finished"}
  /\ pc = "simulate" => state = "Running"

LEMMA MinusIsNat ==
  ASSUME NEW t \in Nat, NEW dt \in Nat
  PROVE  Minus(t, dt) \in Nat /\ Minus(t, dt) <= t
BY DEF Minus

LEMMA TablesDueBound ==
  ASSUME NEW t \in Nat
  PROVE  TablesDue(t) \in 1 .. StepsResultTable
<1>1. (StepsResultTable * t) \div ResultsScreen \in Nat
  BY TimesAssumption DEF StepsResultTable
<1> QED
  BY <1>1 DEF TablesDue, StepsResultTable

\* Commands and the simulation leave the clock alone.
clockvars == <<state, current_map_index, timers>>

LEMMA ClockStep ==
  ASSUME ClockInv, [Next]_gvars
  PROVE  ClockInv'
<1> USE TimesAssumption, MapsAssumption DEF ClockInv, ClockTypeOK, RaceStates
<1>1. ASSUME UNCHANGED clockvars, pc' = pc \/ (pc = "simulate" /\ pc' = "receive")
                                  \/ (pc = "receive" /\ pc' = "ended")
      PROVE  ClockInv'
  BY <1>1 DEF clockvars, timers
<1>2. ASSUME NEW c \in Clients, Receive(c) \/ Contact(c) \/ Hit(c) PROVE ClockInv'
  <2>1. UNCHANGED clockvars /\ pc' = pc
    BY <1>2, Zenon DEF Receive, Contact, Hit, ReceiveNewCar, DisconectCar, IgnoreCommand,
                       ReceiveMove, UpgradeCar, clockvars
  <2> QED
    BY <1>1, <2>1
<1>3. CASE BeginRace
  BY <1>3 DEF BeginRace, timers
<1>4. ASSUME NEW dt \in Frames, RaceGoesOn(dt) PROVE ClockInv'
  <2>1. /\ race_with_countdown' = Minus(race_with_countdown, dt)
        /\ race_with_countdown' # 0
        /\ state = "Running" /\ pc' = "simulate"
        /\ UNCHANGED <<state, current_map_index, results_time_remaining,
                       actual_result_time, result_snapshot_sent>>
    BY <1>4, Zenon DEF RaceGoesOn, RaceIsOver
  <2>2. dt \in Nat /\ race_with_countdown \in Nat
    OBVIOUS
  <2>3. /\ Minus(race_with_countdown, dt) \in Nat
        /\ Minus(race_with_countdown, dt) <= race_with_countdown
    BY <2>2, MinusIsNat
  <2>4. race_with_countdown' \in 0 .. RaceTotalTime /\ race_with_countdown' > 0
    BY <2>1, <2>2, <2>3
  <2> QED
    BY <2>1, <2>4
<1>5. ASSUME NEW dt \in Frames, RaceFinished(dt) PROVE ClockInv'
  <2>1. /\ state' = "ShowingResults" /\ current_map_index' = current_map_index + 1
        /\ current_map_index + 1 < NumMaps
        /\ race_with_countdown' = RaceTotalTime /\ results_time_remaining' = ResultsScreen
        /\ UNCHANGED <<actual_result_time, result_snapshot_sent>>
        /\ pc = "receive" /\ (pc' = "ended" \/ pc' = pc)
    BY <1>5 DEF RaceFinished, IsLast, Updates
  <2> QED
    BY <2>1
<1>6. ASSUME NEW dt \in Frames, LastRaceFinished(dt) PROVE ClockInv'
  BY <1>6, MinusIsNat DEF LastRaceFinished, Updates, StepsResultTable
<1>7. ASSUME NEW dt \in Frames, ScreenGoesOn(dt) \/ WaitForUpgrades(dt) PROVE ClockInv'
  BY <1>7, MinusIsNat DEF ScreenGoesOn, WaitForUpgrades, Updates, ScreenTime
<1>8. ASSUME NEW dt \in Frames, ResultsShown(dt) \/ UpgradesChosen(dt) PROVE ClockInv'
  BY <1>8 DEF ResultsShown, UpgradesChosen, EndScreen, Updates
<1>9. ASSUME NEW dt \in Frames, StartNewMap(dt) PROVE ClockInv'
  BY <1>9, MinusIsNat DEF StartNewMap, Updates, ScreenTime
<1>10. ASSUME NEW dt \in Frames, ShowResultsLastRace(dt) PROVE ClockInv'
  <2>1. /\ actual_result_time' = actual_result_time + dt
        /\ results_time_remaining' = Minus(results_time_remaining, dt)
        /\ result_snapshot_sent' = TablesDue(actual_result_time + dt)
        /\ state' = state \/ state' = "Finished"
        /\ state = "ShowingResultsLastRace" /\ pc = "receive"
        /\ UNCHANGED <<pc, current_map_index, race_with_countdown>>
    BY <1>10 DEF ShowResultsLastRace, Updates, ScreenTime
  <2>2. dt \in Nat /\ actual_result_time + dt \in Nat
    OBVIOUS
  <2>3. TablesDue(actual_result_time + dt) \in 1 .. StepsResultTable
    BY <2>2, TablesDueBound
  <2>4. Minus(results_time_remaining, dt) \in Nat
    BY MinusIsNat
  <2> QED
    BY <2>1, <2>2, <2>3, <2>4 DEF StepsResultTable
<1>11. CASE EndFrame
  BY <1>11, <1>1 DEF EndFrame, SendSnapshot, SendNothing, clockvars
<1>12. CASE LoopEnds
  BY <1>12, <1>1 DEF LoopEnds, clockvars
<1>13. CASE UNCHANGED gvars
  BY <1>13, <1>1 DEF gvars, lvars, clockvars, timers
<1> QED
  BY <1>2, <1>3, <1>4, <1>5, <1>6, <1>7, <1>8, <1>9, <1>10, <1>11, <1>12, <1>13
     DEF Next, UpdateState

-----------------------------------------------------------------------------
\* The changes of a player's session.
LEMMA NewSessionType ==
  NewSession \in Sessions
BY DEF NewSession, Sessions

LEMMA SessionCounts ==
  ASSUME NEW s \in Sessions, NEW n \in Nat
  PROVE  /\ s.total + n \in Nat /\ s.races + n \in Nat
         /\ [s EXCEPT !.total = n] \in Sessions
         /\ [s EXCEPT !.races = n] \in Sessions
<1>1. s.total \in Nat /\ s.races \in Nat
  BY DEF Sessions
<1>2. [s EXCEPT !.total = n] \in Sessions
  BY DEF Sessions
<1>3. [s EXCEPT !.races = n] \in Sessions
  BY DEF Sessions
<1> QED
  BY <1>1, <1>2, <1>3

LEMMA SessionFlags ==
  ASSUME NEW s \in Sessions
  PROVE  /\ [s EXCEPT !.disconnected = TRUE] \in Sessions
         /\ \A up \in 0 .. 255 : [s EXCEPT !.pending = up, !.received = TRUE] \in Sessions
<1>1. [s EXCEPT !.disconnected = TRUE] \in Sessions
  BY DEF Sessions
<1>2. ASSUME NEW up \in 0 .. 255
      PROVE  [s EXCEPT !.pending = up, !.received = TRUE] \in Sessions
  <2> DEFINE asked == [s EXCEPT !.pending = up]
  <2>1. /\ asked \in Sessions
        /\ [s EXCEPT !.pending = up, !.received = TRUE] = [asked EXCEPT !.received = TRUE]
    BY DEF Sessions
  <2> HIDE DEF asked
  <2> QED
    BY <2>1 DEF Sessions
<1> QED
  BY <1>1, <1>2

LEMMA RaceTimeBound ==
  ASSUME RaceTypeOK, NEW c, HasCar(c)
  PROVE  RaceTime(c) \in 0 .. RaceDuration
<1>1. RaceDuration \in Nat /\ progress[c].finish \in Nat
  BY TimesAssumption DEF RaceDuration, RaceTypeOK, HasCar, RaceProgress
<1> QED
  BY <1>1 DEF RaceTime

\* The result of a race is counted, and nothing else is touched.
LEMMA ResultAdded ==
  ASSUME RaceTypeOK, PlayersTypeOK, NEW c \in DOMAIN players
  PROVE  /\ AddResult(c) \in Sessions
         /\ AddResult(c).races = players[c].races + 1
         /\ AddResult(c).total = players[c].total + RaceTime(c)
         /\ AddResult(c).applied = players[c].applied
         /\ AddResult(c).received = players[c].received
         /\ AddResult(c).pending = players[c].pending
         /\ AddResult(c).disconnected = players[c].disconnected
<1>1. HasCar(c) /\ players[c] \in Sessions
  BY DEF PlayersTypeOK, HasCar
<1>2. RaceTime(c) \in Nat
  BY <1>1, RaceTimeBound, TimesAssumption DEF RaceDuration
<1>3. AddResult(c) = [players[c] EXCEPT !.total = @ + RaceTime(c), !.races = @ + 1]
  BY <1>1 DEF AddResult
<1> DEFINE longer == [players[c] EXCEPT !.total = @ + RaceTime(c)]
<1>4. longer \in Sessions
  <2>1. players[c].total + RaceTime(c) \in Nat
    BY <1>1, <1>2, SessionCounts
  <2> QED
    BY <1>1, <2>1, SessionCounts
<1>6. AddResult(c) = [longer EXCEPT !.races = players[c].races + 1]
  BY <1>1, <1>3 DEF Sessions
<1>5. AddResult(c) \in Sessions
  <2>1. players[c].races + 1 \in Nat
    BY <1>1, SessionCounts
  <2> HIDE DEF longer
  <2> QED
    BY <1>4, <1>6, <2>1, SessionCounts
<1> QED
  BY <1>1, <1>3, <1>5 DEF Sessions

LEMMA UpgradeForgotten ==
  ASSUME NEW s \in Sessions
  PROVE  /\ ForgetUpgrade(s) \in Sessions
         /\ ForgetUpgrade(s).received = FALSE /\ ForgetUpgrade(s).pending = 0
         /\ ForgetUpgrade(s).races = s.races /\ ForgetUpgrade(s).applied = s.applied
         /\ ForgetUpgrade(s).disconnected = s.disconnected
<1> DEFINE unanswered == [s EXCEPT !.received = FALSE]
<1>1. unanswered \in Sessions /\ ForgetUpgrade(s) = [unanswered EXCEPT !.pending = 0]
  BY DEF Sessions, ForgetUpgrade
<1>2. ForgetUpgrade(s) \in Sessions
  <2> HIDE DEF unanswered
  <2> QED
    BY <1>1 DEF Sessions
<1> QED
  BY <1>2 DEF ForgetUpgrade, Sessions

LEMMA UpgradeApplied ==
  ASSUME NEW s \in Sessions
  PROVE  /\ ApplyPending(s) \in Sessions
         /\ ApplyPending(s).received = s.received /\ ApplyPending(s).pending = s.pending
         /\ ApplyPending(s).races = s.races /\ ApplyPending(s).disconnected = s.disconnected
<1> DEFINE more == IF IsUpgrade(s.pending) THEN Append(s.applied, s.pending) ELSE s.applied
           price == PenaltyFor(Level(s.pending))
           charged == [s EXCEPT !.total = @ + price]
<1>1. price \in Nat
  BY UpgradesAssumption DEF PenaltyFor
<1>2. more \in Seq(1 .. 9)
  BY DEF IsUpgrade, Sessions
<1>3. ApplyPending(s) = [s EXCEPT !.total = @ + price, !.applied = more]
  BY Zenon DEF ApplyPending
<1> HIDE DEF price, more
<1>4. charged \in Sessions
  <2>1. s.total + price \in Nat
    BY <1>1, SessionCounts
  <2> QED
    BY <2>1, SessionCounts
<1>6. ApplyPending(s) = [charged EXCEPT !.applied = more]
  BY <1>3 DEF Sessions
<1>5. ApplyPending(s) \in Sessions
  <2> HIDE DEF charged
  <2> QED
    BY <1>2, <1>4, <1>6 DEF Sessions
<1> QED
  BY <1>3, <1>5 DEF Sessions

-----------------------------------------------------------------------------
\* During a race the cars stay, with their upgrades, and a destroyed car stays
\* destroyed unless its own player uses a cheat.
KeepsCars ==
  /\ DOMAIN cars' = DOMAIN cars
  /\ \A d \in DOMAIN cars : cars'[d].upgrades = cars[d].upgrades
KeepsWrecks(others) == \A d \in others : IsDestroyed(cars[d]) => IsDestroyed(cars'[d])

LEMMA CarFields ==
  ASSUME NEW car \in Car
  PROVE  /\ IsDestroyed(Kill(car)) /\ Kill(car).upgrades = car.upgrades
         /\ MarkFinished(car).health = car.health
         /\ MarkFinished(car).upgrades = car.upgrades
         /\ SetGodMode(car).upgrades = car.upgrades
         /\ [car EXCEPT !.ghost = ~@].upgrades = car.upgrades
         /\ [car EXCEPT !.one_destroy = FALSE].upgrades = car.upgrades
         /\ [car EXCEPT !.one_destroy = FALSE].health = car.health
         /\ \A damage \in Nat : /\ ApplyDamage(car, damage).upgrades = car.upgrades
                                /\ IsDestroyed(car) => IsDestroyed(ApplyDamage(car, damage))
         /\ \A ups : ApplyUpgrades(car, ups).upgrades = car.upgrades \o ups
<1>1. ASSUME NEW damage \in Nat
      PROVE  /\ ApplyDamage(car, damage).upgrades = car.upgrades
             /\ IsDestroyed(car) => IsDestroyed(ApplyDamage(car, damage))
  BY DEF ApplyDamage, IsDestroyed, Car
<1>2. ASSUME NEW ups PROVE ApplyUpgrades(car, ups).upgrades = car.upgrades \o ups
  BY DEF ApplyUpgrades, Car
<1>3. /\ IsDestroyed(Kill(car)) /\ Kill(car).upgrades = car.upgrades
      /\ MarkFinished(car).health = car.health
      /\ MarkFinished(car).upgrades = car.upgrades
      /\ SetGodMode(car).upgrades = car.upgrades
      /\ [car EXCEPT !.ghost = ~@].upgrades = car.upgrades
      /\ [car EXCEPT !.one_destroy = FALSE].upgrades = car.upgrades
      /\ [car EXCEPT !.one_destroy = FALSE].health = car.health
  BY DEF IsDestroyed, Kill, MarkFinished, SetGodMode, Car
<1> QED
  BY <1>1, <1>2, <1>3

LEMMA SetCarKeeps ==
  ASSUME NEW c \in DOMAIN cars, NEW car, car.upgrades = cars[c].upgrades,
         cars' = [cars EXCEPT ![c] = car]
  PROVE  KeepsCars /\ \A d \in DOMAIN cars \ {c} : cars'[d] = cars[d]
BY DEF KeepsCars

LEMMA MoveKeeps ==
  ASSUME RaceTypeOK, NEW c, NEW move, NEW time, ReceiveCommandMove(c, move, time)
  PROVE  KeepsCars /\ \A d \in DOMAIN cars \ {c} : cars'[d] = cars[d]
<1>1. CASE cars' = cars
  BY <1>1 DEF KeepsCars
<1>2. CASE HasCar(c) /\ cars' # cars
  <2>1. cars[c] \in Car
    BY <1>2 DEF RaceTypeOK, HasCar
  <2>2. \/ cars' = [cars EXCEPT ![c] = MarkFinished(@)]
        \/ cars' = [cars EXCEPT ![c] = Kill(cars[c])]
        \/ cars' = [cars EXCEPT ![c] = SetGodMode(cars[c])]
        \/ cars' = [cars EXCEPT ![c] = [cars[c] EXCEPT !.ghost = ~@]]
    BY <1>2, Zenon DEF ReceiveCommandMove, Press, Release, Win, SetCar, rvars
  <2>3. /\ MarkFinished(cars[c]).upgrades = cars[c].upgrades
        /\ Kill(cars[c]).upgrades = cars[c].upgrades
        /\ SetGodMode(cars[c]).upgrades = cars[c].upgrades
        /\ [cars[c] EXCEPT !.ghost = ~@].upgrades = cars[c].upgrades
    BY <2>1, CarFields
  <2>4. PICK car : cars' = [cars EXCEPT ![c] = car] /\ car.upgrades = cars[c].upgrades
    BY <2>2, <2>3, Zenon
  <2> QED
    BY <1>2, <2>4, SetCarKeeps DEF HasCar
<1> QED
  BY <1>1, <1>2 DEF ReceiveCommandMove, rvars

LEMMA LoseKeeps ==
  ASSUME RaceTypeOK, NEW c, Lose(c)
  PROVE  /\ KeepsCars /\ KeepsWrecks(DOMAIN cars)
         /\ c \in DOMAIN cars => IsDestroyed(cars'[c])
<1>1. /\ DOMAIN cars' = DOMAIN cars
      /\ \A d \in DOMAIN cars : cars'[d] = IF d = c THEN Kill(cars[d]) ELSE cars[d]
  BY DEF Lose
<1>2. \A d \in DOMAIN cars : /\ IsDestroyed(Kill(cars[d]))
                             /\ Kill(cars[d]).upgrades = cars[d].upgrades
  BY CarFields DEF RaceTypeOK
<1> QED
  BY <1>1, <1>2, Zenon DEF KeepsCars, KeepsWrecks

LEMMA SimulationKeeps ==
  ASSUME RaceTypeOK,
         \/ \E c, order, time : HandleCheckpointContact(c, order, time)
         \/ \E c : \E damage \in 1 .. 3 : HandleHit(c, damage)
         \/ ConsumeExplosions
  PROVE  KeepsCars /\ KeepsWrecks(DOMAIN cars)
<1>1. ASSUME NEW c, NEW order, NEW time, HandleCheckpointContact(c, order, time)
      PROVE  KeepsCars /\ KeepsWrecks(DOMAIN cars)
  <2>1. HasCar(c) /\ (cars' = cars \/ cars' = [cars EXCEPT ![c] = MarkFinished(@)])
    BY <1>1 DEF HandleCheckpointContact
  <2>2. /\ MarkFinished(cars[c]).upgrades = cars[c].upgrades
        /\ MarkFinished(cars[c]).health = cars[c].health
    BY <2>1, CarFields DEF RaceTypeOK, HasCar
  <2> QED
    BY <2>1, <2>2 DEF KeepsCars, KeepsWrecks, IsDestroyed, HasCar
<1>2. ASSUME NEW c, NEW damage \in 1 .. 3, HandleHit(c, damage)
      PROVE  KeepsCars /\ KeepsWrecks(DOMAIN cars)
  <2>1. HasCar(c) /\ cars' = [cars EXCEPT ![c] = ApplyDamage(cars[c], damage)]
    BY <1>2, Zenon DEF HandleHit, SetCar
  <2>2. cars[c] \in Car /\ damage \in Nat
    BY <2>1 DEF RaceTypeOK, HasCar
  <2>3. /\ ApplyDamage(cars[c], damage).upgrades = cars[c].upgrades
        /\ IsDestroyed(cars[c]) => IsDestroyed(ApplyDamage(cars[c], damage))
    BY <2>2, CarFields, Zenon
  <2> QED
    BY <2>1, <2>3 DEF KeepsCars, KeepsWrecks, HasCar
<1>3. CASE ConsumeExplosions
  <2>1. /\ DOMAIN cars' = DOMAIN cars
        /\ \A c \in DOMAIN cars : \/ cars'[c] = cars[c]
                                  \/ cars'[c] = [cars[c] EXCEPT !.one_destroy = FALSE]
    BY <1>3 DEF ConsumeExplosions
  <2>2. \A c \in DOMAIN cars :
          /\ [cars[c] EXCEPT !.one_destroy = FALSE].upgrades = cars[c].upgrades
          /\ [cars[c] EXCEPT !.one_destroy = FALSE].health = cars[c].health
    BY CarFields DEF RaceTypeOK
  <2> QED
    BY <2>1, <2>2 DEF KeepsCars, KeepsWrecks, IsDestroyed
<1> QED
  BY <1>1, <1>2, <1>3

LEMMA StartingCars ==
  ASSUME RaceTypeOK, PlayersTypeOK, NEW c \in DOMAIN players
  PROVE  /\ StartingCar(c) \in Car /\ StartingCar(c).finished = cars[c].finished
         /\ players[c].disconnected => IsDestroyed(StartingCar(c))
         /\ StartingCar(c).upgrades = cars[c].upgrades \o ApplyPending(players[c]).applied
<1> DEFINE ups == ApplyPending(players[c]).applied
           car == ApplyUpgrades(cars[c], ups)
<1>1. cars[c] \in Car /\ players[c] \in Sessions
  BY DEF RaceTypeOK, PlayersTypeOK
<1>2. ups \in Seq(1 .. 9)
  BY <1>1, UpgradeApplied DEF Sessions
<1>3. StartingCar(c) = IF players[c].disconnected THEN Kill(car) ELSE car
  BY Zenon DEF StartingCar
<1> HIDE DEF ups
<1>4. car \in Car /\ car.finished = cars[c].finished /\ car.upgrades = cars[c].upgrades \o ups
  BY <1>1, <1>2, CarsStayCars, OnlyFinishingFinishes, CarFields
<1> HIDE DEF car
<1>5. /\ Kill(car) \in Car /\ Kill(car).finished = car.finished
      /\ IsDestroyed(Kill(car)) /\ Kill(car).upgrades = car.upgrades
  BY <1>4, CarsStayCars, OnlyFinishingFinishes, CarFields
<1> QED
  BY <1>3, <1>4, <1>5, Zenon DEF ups

-----------------------------------------------------------------------------
\* Every step of the loop keeps the race well typed, with its finishes
\* recorded, and every player with a session and a car.
CoreInv == RaceInv /\ ClockInv /\ PlayersTypeOK

LEMMA RaceStep ==
  ASSUME CoreInv, [Next]_gvars
  PROVE  RaceInv'
<1> USE DEF CoreInv
<1>1. ASSUME UNCHANGED rvars PROVE RaceInv'
  BY <1>1 DEF rvars, RaceInv, RaceTypeOK, FinishesRecorded
<1>2. race_with_countdown \in Nat
  BY TimesAssumption DEF ClockInv, ClockTypeOK
<1>3. ASSUME NEW c \in Clients, ReceiveNewCar(c) PROVE RaceInv'
  <2>1. AddNewCar(c) /\ ~HasCar(c)
    BY <1>3 DEF ReceiveNewCar, HasCar, PlayersTypeOK
  <2> QED
    BY <2>1, InvAddNewCar
<1>4. ASSUME NEW c \in Clients, NEW move \in Moves[c], ReceiveMove(c, move) PROVE RaceInv'
  <2>1. race_with_countdown > 0
    BY <1>4 DEF ReceiveMove, ClockInv
  <2> QED
    BY <1>2, <1>4, <2>1, InvMove DEF ReceiveMove
<1>5. ASSUME NEW c \in Clients, DisconectCar(c) PROVE RaceInv'
  BY <1>5, InvLose DEF DisconectCar
<1>6. ASSUME NEW c \in Clients, Contact(c) PROVE RaceInv'
  <2>1. race_with_countdown > 0
    BY <1>6 DEF Contact, ClockInv
  <2> QED
    BY <1>2, <1>6, <2>1, InvContact DEF Contact
<1>7. ASSUME NEW c \in Clients, Hit(c) PROVE RaceInv'
  BY <1>7, InvHit DEF Hit
<1>8. CASE SendSnapshot
  BY <1>8, InvConsume DEF SendSnapshot
<1>9. ASSUME NEW dt \in Frames, RaceFinished(dt) PROVE RaceInv'
  BY <1>1, <1>9, InvNewRace DEF RaceFinished
<1>10. ASSUME NEW dt \in Frames, StartNewMap(dt) PROVE RaceInv'
  <2>1. /\ cars' = [c \in DOMAIN cars |-> StartingCar(c)]
        /\ progress' = progress /\ pressed' = pressed
    BY <1>10, Zenon DEF StartNewMap
  <2>2. \A c \in DOMAIN cars : /\ StartingCar(c) \in Car
                               /\ StartingCar(c).finished = cars[c].finished
    BY StartingCars DEF RaceInv, PlayersTypeOK
  <2> QED
    BY <2>1, <2>2 DEF RaceInv, RaceTypeOK, FinishesRecorded
<1>11. ASSUME NEW c \in Clients, IgnoreCommand(c) \/ \E up \in Upgrades : UpgradeCar(c, up)
       PROVE  RaceInv'
  BY <1>1, <1>11 DEF IgnoreCommand, UpgradeCar
<1>12. CASE BeginRace \/ LoopEnds \/ SendNothing
  BY <1>1, <1>12 DEF BeginRace, LoopEnds, SendNothing
<1>13. ASSUME NEW dt \in Frames, \/ RaceGoesOn(dt) \/ LastRaceFinished(dt) \/ ScreenGoesOn(dt)
                                 \/ ResultsShown(dt) \/ UpgradesChosen(dt)
                                 \/ WaitForUpgrades(dt) \/ ShowResultsLastRace(dt)
       PROVE  RaceInv'
  BY <1>1, <1>13 DEF RaceGoesOn, LastRaceFinished, ScreenGoesOn, ResultsShown, UpgradesChosen,
                     EndScreen, WaitForUpgrades, ShowResultsLastRace
<1>14. CASE UNCHANGED gvars
  BY <1>1, <1>14 DEF gvars
<1> QED
  BY <1>3, <1>4, <1>5, <1>6, <1>7, <1>8, <1>9, <1>10, <1>11, <1>12, <1>13, <1>14
     DEF Next, Receive, UpdateState, EndFrame

LEMMA PlayersStep ==
  ASSUME CoreInv, [Next]_gvars
  PROVE  PlayersTypeOK'
<1> USE DEF CoreInv
<1>1. ASSUME players' = players, DOMAIN cars' = DOMAIN cars PROVE PlayersTypeOK'
  BY <1>1 DEF PlayersTypeOK
<1>2. RaceTypeOK
  BY DEF RaceInv
<1>3. ASSUME NEW c \in Clients, ReceiveNewCar(c) PROVE PlayersTypeOK'
  <2>1. /\ players' = [d \in DOMAIN players \cup {c} |->
                         IF d \in DOMAIN players THEN players[d] ELSE NewSession]
        /\ DOMAIN cars' = DOMAIN cars \cup {c}
    BY <1>3 DEF ReceiveNewCar, AddNewCar
  <2> QED
    BY <2>1, NewSessionType DEF PlayersTypeOK
<1>4. ASSUME NEW c \in Clients, NEW move \in Moves[c], ReceiveMove(c, move) PROVE PlayersTypeOK'
  BY <1>1, <1>2, <1>4, MoveKeeps DEF ReceiveMove, KeepsCars
<1>5. ASSUME NEW c \in Clients, DisconectCar(c) PROVE PlayersTypeOK'
  <2>1. /\ players' = [players EXCEPT ![c].disconnected = TRUE]
        /\ DOMAIN cars' = DOMAIN cars /\ c \in DOMAIN players
    BY <1>2, <1>5, LoseKeeps DEF DisconectCar, Sends, KeepsCars
  <2>2. [players[c] EXCEPT !.disconnected = TRUE] \in Sessions
    BY <2>1, SessionFlags DEF PlayersTypeOK
  <2> QED
    BY <2>1, <2>2 DEF PlayersTypeOK
<1>6. ASSUME NEW c \in Clients, NEW up \in Upgrades, UpgradeCar(c, up) PROVE PlayersTypeOK'
  <2>1. /\ players' = [players EXCEPT ![c].pending = up, ![c].received = TRUE]
        /\ cars' = cars /\ c \in DOMAIN players
    BY <1>6 DEF UpgradeCar, Sends, rvars
  <2>2. up \in 0 .. 255
    BY UpgradesAssumption
  <2>3. [players[c] EXCEPT !.pending = up, !.received = TRUE] \in Sessions
    BY <2>1, <2>2, SessionFlags DEF PlayersTypeOK
  <2>4. players' = [players EXCEPT ![c] = [players[c] EXCEPT !.pending = up, !.received = TRUE]]
    BY <2>1
  <2> QED
    BY <2>1, <2>3, <2>4 DEF PlayersTypeOK
<1>7. ASSUME NEW c \in Clients, Contact(c) \/ Hit(c) PROVE PlayersTypeOK'
  <2>1. players' = players
    BY <1>7 DEF Contact, Hit
  <2>2. \/ \E order, time : HandleCheckpointContact(c, order, time)
        \/ \E damage \in 1 .. 3 : HandleHit(c, damage)
    BY <1>7, Zenon DEF Contact, Hit
  <2>3. KeepsCars
    BY <1>2, <2>2, SimulationKeeps
  <2> QED
    BY <1>1, <2>1, <2>3 DEF KeepsCars
<1>8. CASE SendSnapshot
  BY <1>1, <1>2, <1>8, SimulationKeeps DEF SendSnapshot, KeepsCars
<1>9. ASSUME NEW dt \in Frames, RaceFinished(dt) PROVE PlayersTypeOK'
  <2>1. /\ \/ players' = [c \in DOMAIN players |-> AddResult(c)]
           \/ players' = [c \in DOMAIN players |-> ForgetUpgrade(AddResult(c))]
        /\ DOMAIN cars' = DOMAIN cars
    BY <1>9 DEF RaceFinished, NewRace, rvars
  <2>2. \A c \in DOMAIN players : /\ AddResult(c) \in Sessions
                                  /\ ForgetUpgrade(AddResult(c)) \in Sessions
    BY <1>2, ResultAdded, UpgradeForgotten
  <2> QED
    BY <2>1, <2>2 DEF PlayersTypeOK
<1>10. ASSUME NEW dt \in Frames, LastRaceFinished(dt) PROVE PlayersTypeOK'
  <2>1. players' = [c \in DOMAIN players |-> AddResult(c)] /\ cars' = cars
    BY <1>10 DEF LastRaceFinished, rvars
  <2>2. \A c \in DOMAIN players : AddResult(c) \in Sessions
    BY <1>2, ResultAdded
  <2> QED
    BY <2>1, <2>2 DEF PlayersTypeOK
<1>11. ASSUME NEW dt \in Frames, StartNewMap(dt) PROVE PlayersTypeOK'
  <2>1. /\ players' = [c \in DOMAIN players |-> ApplyPending(players[c])]
        /\ DOMAIN cars' = DOMAIN cars
    BY <1>11 DEF StartNewMap
  <2>2. \A c \in DOMAIN players : ApplyPending(players[c]) \in Sessions
    BY UpgradeApplied DEF PlayersTypeOK
  <2> QED
    BY <2>1, <2>2 DEF PlayersTypeOK
<1>12. ASSUME NEW c \in Clients, IgnoreCommand(c) PROVE PlayersTypeOK'
  BY <1>1, <1>12 DEF IgnoreCommand, rvars
<1>13. CASE BeginRace \/ LoopEnds \/ SendNothing
  BY <1>1, <1>13 DEF BeginRace, LoopEnds, SendNothing, rvars
<1>14. ASSUME NEW dt \in Frames, \/ RaceGoesOn(dt) \/ ScreenGoesOn(dt)
                                 \/ ResultsShown(dt) \/ UpgradesChosen(dt)
                                 \/ WaitForUpgrades(dt) \/ ShowResultsLastRace(dt)
       PROVE  PlayersTypeOK'
  BY <1>1, <1>14 DEF RaceGoesOn, ScreenGoesOn, ResultsShown, UpgradesChosen,
                     EndScreen, WaitForUpgrades, ShowResultsLastRace, rvars
<1>15. CASE UNCHANGED gvars
  BY <1>1, <1>15 DEF gvars, lvars, rvars
<1> QED
  BY <1>3, <1>4, <1>5, <1>6, <1>7, <1>8, <1>9, <1>10, <1>11, <1>12, <1>13, <1>14, <1>15
     DEF Next, Receive, UpdateState, EndFrame

LEMMA CoreInit ==
  ASSUME Init
  PROVE  CoreInv
<1>1. DOMAIN cars = {} /\ DOMAIN progress = {} /\ pressed = {} /\ DOMAIN players = {}
  BY DEF Init
<1>2. RaceInv /\ PlayersTypeOK
  BY <1>1 DEF RaceInv, RaceTypeOK, FinishesRecorded, PlayersTypeOK
<1>3. ClockInv
  BY TimesAssumption, MapsAssumption
     DEF Init, ClockInv, ClockTypeOK, RaceStates, StepsResultTable
<1> QED
  BY <1>2, <1>3 DEF CoreInv

\* CoreInv is inductive, and holds in every behaviour of the loop.
THEOREM LoopCore == Spec => []CoreInv
<1>1. Init => CoreInv
  BY CoreInit
<1>2. CoreInv /\ [Next]_gvars => CoreInv'
  BY ClockStep, RaceStep, PlayersStep DEF CoreInv
<1> QED
  BY <1>1, <1>2, PTL DEF Spec

\* The loop's state is well typed.
THEOREM LoopTypes == Spec => []GLTypeOK
<1>1. CoreInv => GLTypeOK
  BY DEF CoreInv, GLTypeOK, RaceInv, ClockInv
<1> QED
  BY <1>1, LoopCore, PTL

\* A car is marked as finished exactly if it has a finish time.
THEOREM LoopRecordsFinishes == Spec => []FinishesRecorded
<1>1. CoreInv => FinishesRecorded
  BY DEF CoreInv, RaceInv
<1> QED
  BY <1>1, LoopCore, PTL

-----------------------------------------------------------------------------
\* The rounds of a tournament.  The invariant joins what is claimed of the
\* players and their cars with what is true before the first race and in the
\* screens between two races, where the cars of the next race wait.
BetweenRaces == state \in {"ShowingResults", "ChoosingUpgrades", "WaitingUpgrades"}
InLobby ==
  /\ current_map_index = 0
  /\ \A c \in DOMAIN players :
       /\ ~players[c].disconnected /\ players[c].applied = <<>> /\ players[c].pending = 0
       /\ cars[c].upgrades = <<>>
RoundInv ==
  /\ LeaversDestroyed /\ UpgradesKept /\ PendingIsCurrent /\ RacesCountedOnce
  /\ state = "WaitingForLobbyStart" => InLobby
  /\ BetweenRaces /\ pc # "ended" => \A c \in DOMAIN cars : cars[c].upgrades = <<>>

\* A step that changes no session, no upgrade and no phase, and heals nobody
\* who left.
Quietly ==
  /\ players' = players /\ state' = state /\ current_map_index' = current_map_index
  /\ pc = "ended" => pc' = "ended"
  /\ KeepsCars
  /\ KeepsWrecks({c \in DOMAIN players : players[c].disconnected})

LEMMA QuietIf ==
  ASSUME CoreInv, KeepsCars, KeepsWrecks(DOMAIN cars), players' = players, state' = state,
         current_map_index' = current_map_index, pc = "ended" => pc' = "ended"
  PROVE  Quietly
BY DEF CoreInv, PlayersTypeOK, Quietly, KeepsWrecks

LEMMA QuietCars ==
  ASSUME CoreInv, cars' = cars, players' = players, state' = state,
         current_map_index' = current_map_index, pc = "ended" => pc' = "ended"
  PROVE  Quietly
<1>1. KeepsCars /\ KeepsWrecks(DOMAIN cars)
  BY DEF KeepsCars, KeepsWrecks
<1> QED
  BY <1>1, QuietIf

LEMMA QuietCommands ==
  ASSUME CoreInv, NEW c \in Clients,
         \/ \E move \in Moves[c] : ReceiveMove(c, move)
         \/ IgnoreCommand(c) \/ Contact(c) \/ Hit(c)
  PROVE  Quietly
<1>1. RaceTypeOK /\ PlayersTypeOK
  BY DEF CoreInv, RaceInv
<1>2. ASSUME NEW move \in Moves[c], ReceiveMove(c, move) PROVE Quietly
  <2>1. KeepsCars /\ \A d \in DOMAIN cars \ {c} : cars'[d] = cars[d]
    BY <1>1, <1>2, MoveKeeps DEF ReceiveMove
  <2>2. /\ players' = players /\ state' = state /\ current_map_index' = current_map_index
        /\ pc' = pc /\ ~players[c].disconnected
    BY <1>2 DEF ReceiveMove, Sends
  <2>3. KeepsWrecks({d \in DOMAIN players : players[d].disconnected})
    BY <1>1, <2>1, <2>2 DEF KeepsWrecks, PlayersTypeOK
  <2> QED
    BY <2>1, <2>2, <2>3 DEF Quietly
<1>3. CASE Contact(c) \/ Hit(c)
  <2>1. /\ players' = players /\ state' = state /\ current_map_index' = current_map_index
        /\ pc = "simulate"
    BY <1>3 DEF Contact, Hit
  <2>2. \/ \E order, time : HandleCheckpointContact(c, order, time)
        \/ \E damage \in 1 .. 3 : HandleHit(c, damage)
    BY <1>3, Zenon DEF Contact, Hit
  <2>3. KeepsCars /\ KeepsWrecks(DOMAIN cars)
    BY <1>1, <2>2, SimulationKeeps
  <2> QED
    BY <2>1, <2>3, QuietIf
<1>4. CASE IgnoreCommand(c)
  BY <1>4, QuietCars DEF IgnoreCommand, rvars
<1> QED
  BY <1>2, <1>3, <1>4

LEMMA QuietFrames ==
  ASSUME CoreInv, EndFrame \/ LoopEnds
  PROVE  Quietly
<1>1. CASE SendSnapshot
  <2>1. KeepsCars /\ KeepsWrecks(DOMAIN cars)
    BY <1>1, SimulationKeeps DEF SendSnapshot, CoreInv, RaceInv
  <2>2. /\ players' = players /\ state' = state /\ current_map_index' = current_map_index
        /\ pc = "simulate"
    BY <1>1 DEF SendSnapshot
  <2> QED
    BY <2>1, <2>2, QuietIf
<1>2. CASE SendNothing \/ LoopEnds
  BY <1>2, QuietCars DEF SendNothing, LoopEnds, rvars
<1> QED
  BY <1>1, <1>2 DEF EndFrame

LEMMA QuietScreens ==
  ASSUME CoreInv, NEW dt \in Frames, RaceGoesOn(dt) \/ ScreenGoesOn(dt) \/ WaitForUpgrades(dt)
  PROVE  Quietly
BY QuietCars DEF RaceGoesOn, ScreenGoesOn, WaitForUpgrades, Updates, rvars

LEMMA QuietKeepsRound ==
  ASSUME CoreInv, RoundInv, Quietly
  PROVE  RoundInv'
<1>1. DOMAIN players = DOMAIN cars
  BY DEF CoreInv, PlayersTypeOK
<1>2. LeaversDestroyed'
  BY <1>1 DEF RoundInv, LeaversDestroyed, Quietly, KeepsWrecks
<1>3. UpgradesKept'
  BY <1>1 DEF RoundInv, UpgradesKept, Quietly, KeepsCars
<1>4. PendingIsCurrent' /\ RacesCountedOnce'
  BY DEF RoundInv, PendingIsCurrent, RacesCountedOnce, RacesOver, Quietly
<1>5. state' = "WaitingForLobbyStart" => InLobby'
  BY <1>1 DEF RoundInv, InLobby, Quietly, KeepsCars
<1>6. BetweenRaces' /\ pc' # "ended" => \A c \in DOMAIN cars' : cars'[c].upgrades = <<>>
  BY DEF RoundInv, BetweenRaces, Quietly, KeepsCars
<1> QED
  BY <1>2, <1>3, <1>4, <1>5, <1>6 DEF RoundInv

\* A step to a phase where no race runs and no car is new.
LEMMA PhaseKeepsRound ==
  ASSUME CoreInv, RoundInv, players' = players, cars' = cars,
         current_map_index' = current_map_index, pc' = pc,
         \/ state = "WaitingForLobbyStart" /\ state' = "Running"
         \/ state = "ShowingResults" /\ state' = "ChoosingUpgrades"
         \/ state = "ChoosingUpgrades" /\ state' = "WaitingUpgrades"
         \/ state = "ShowingResultsLastRace" /\ state' \in {"ShowingResultsLastRace", "Finished"}
  PROVE  RoundInv'
<1>1. LeaversDestroyed' /\ UpgradesKept'
  BY DEF RoundInv, InLobby, LeaversDestroyed, UpgradesKept, IsDestroyed
<1>2. PendingIsCurrent' /\ RacesCountedOnce'
  BY DEF RoundInv, PendingIsCurrent, RacesCountedOnce, RacesOver
<1>3. /\ state' # "WaitingForLobbyStart"
      /\ BetweenRaces' /\ pc' # "ended" => \A c \in DOMAIN cars' : cars'[c].upgrades = <<>>
  BY DEF RoundInv, BetweenRaces
<1> QED
  BY <1>1, <1>2, <1>3 DEF RoundInv

LEMMA RoundStep ==
  ASSUME CoreInv, RoundInv, [Next]_gvars
  PROVE  RoundInv'
<1>1. /\ DOMAIN players = DOMAIN cars /\ RaceTypeOK /\ PlayersTypeOK
      /\ \A c \in DOMAIN players : players[c] \in Sessions
  BY DEF CoreInv, RaceInv, PlayersTypeOK
<1>2. ASSUME NEW c \in Clients, ReceiveNewCar(c) PROVE RoundInv'
  <2>1. /\ state = "WaitingForLobbyStart" /\ state' = state /\ pc' = pc
        /\ current_map_index' = current_map_index /\ c \notin DOMAIN players
        /\ players' = [d \in DOMAIN players \cup {c} |->
                         IF d \in DOMAIN players THEN players[d] ELSE NewSession]
        /\ cars' = [d \in DOMAIN cars \cup {c} |-> IF d \in DOMAIN cars THEN cars[d] ELSE NewCar]
    BY <1>2 DEF ReceiveNewCar, AddNewCar, HasCar
  <2>2. /\ DOMAIN players' = DOMAIN players \cup {c}
        /\ \A d \in DOMAIN players : players'[d] = players[d] /\ cars'[d] = cars[d]
        /\ players'[c] = NewSession /\ cars'[c] = NewCar
    BY <1>1, <2>1
  <2>3. InLobby'
    <3>1. InLobby
      BY <2>1 DEF RoundInv
    <3>2. /\ ~NewSession.disconnected /\ NewSession.applied = <<>> /\ NewSession.pending = 0
          /\ NewCar.upgrades = <<>>
      BY DEF NewSession, NewCar
    <3>3. ASSUME NEW d \in DOMAIN players'
          PROVE  /\ ~players'[d].disconnected /\ players'[d].applied = <<>>
                 /\ players'[d].pending = 0 /\ cars'[d].upgrades = <<>>
      <4>1. CASE d = c
        BY <2>2, <3>2, <4>1
      <4>2. CASE d # c
        BY <2>2, <3>1, <3>3, <4>2 DEF InLobby
      <4> QED
        BY <4>1, <4>2
    <3> QED
      BY <2>1, <3>1, <3>3 DEF InLobby
  <2>4. RacesCountedOnce'
    <3>1. players'[c].races = 0 /\ current_map_index = 0
      BY <2>1, <2>2 DEF NewSession, RoundInv, InLobby
    <3> QED
      BY <2>1, <2>2, <3>1 DEF RoundInv, RacesCountedOnce, RacesOver
  <2>5. PendingIsCurrent'
    BY <2>1, <2>2 DEF RoundInv, NewSession, PendingIsCurrent
  <2> QED
    BY <2>1, <2>3, <2>4, <2>5 DEF RoundInv, BetweenRaces, LeaversDestroyed, UpgradesKept
<1>3. ASSUME NEW c \in Clients, DisconectCar(c) PROVE RoundInv'
  <2>1. /\ state # "WaitingForLobbyStart" /\ state' = state /\ pc' = pc
        /\ current_map_index' = current_map_index /\ c \in DOMAIN players
        /\ players' = [players EXCEPT ![c].disconnected = TRUE]
    BY <1>3 DEF DisconectCar, Sends
  <2>2. KeepsCars /\ KeepsWrecks(DOMAIN cars) /\ IsDestroyed(cars'[c])
    BY <1>1, <1>3, <2>1, LoseKeeps DEF DisconectCar
  <2>3. /\ DOMAIN players' = DOMAIN players
        /\ \A d \in DOMAIN players :
             /\ players'[d].applied = players[d].applied
             /\ players'[d].pending = players[d].pending
             /\ players'[d].received = players[d].received
             /\ players'[d].races = players[d].races
             /\ d # c => players'[d].disconnected = players[d].disconnected
    BY <1>1, <2>1 DEF Sessions
  <2>4. LeaversDestroyed'
    BY <1>1, <2>1, <2>2, <2>3 DEF RoundInv, LeaversDestroyed, KeepsWrecks
  <2>5. UpgradesKept'
    BY <1>1, <2>1, <2>2, <2>3 DEF RoundInv, UpgradesKept, KeepsCars
  <2>6. PendingIsCurrent' /\ RacesCountedOnce'
    BY <2>1, <2>3 DEF RoundInv, PendingIsCurrent, RacesCountedOnce, RacesOver
  <2>7. BetweenRaces' /\ pc' # "ended" => \A d \in DOMAIN cars' : cars'[d].upgrades = <<>>
    BY <2>1, <2>2 DEF RoundInv, BetweenRaces, KeepsCars
  <2> QED
    BY <2>1, <2>4, <2>5, <2>6, <2>7 DEF RoundInv
<1>4. ASSUME NEW c \in Clients, NEW up \in Upgrades, UpgradeCar(c, up) PROVE RoundInv'
  <2>1. /\ state = "WaitingUpgrades" /\ state' = state /\ pc' = pc
        /\ current_map_index' = current_map_index /\ c \in DOMAIN players /\ cars' = cars
        /\ players' = [players EXCEPT ![c].pending = up, ![c].received = TRUE]
    BY <1>4 DEF UpgradeCar, Sends, rvars
  <2>2. /\ DOMAIN players' = DOMAIN players
        /\ players'[c].received
        /\ \A d \in DOMAIN players :
             /\ players'[d].races = players[d].races
             /\ d # c => players'[d] = players[d]
    BY <1>1, <2>1 DEF Sessions
  <2>3. PendingIsCurrent' /\ RacesCountedOnce'
    BY <2>1, <2>2 DEF RoundInv, PendingIsCurrent, RacesCountedOnce, RacesOver
  <2> QED
    BY <2>1, <2>3 DEF RoundInv, LeaversDestroyed, UpgradesKept, BetweenRaces
<1>5. ASSUME NEW dt \in Frames, RaceFinished(dt) PROVE RoundInv'
  <2>1. /\ state = "Running" /\ state' = "ShowingResults"
        /\ current_map_index' = current_map_index + 1
        /\ \/ /\ pc' = "ended"
              /\ players' = [c \in DOMAIN players |-> AddResult(c)]
           \/ /\ players' = [c \in DOMAIN players |-> ForgetUpgrade(AddResult(c))]
              /\ cars' = [c \in DOMAIN cars |-> NewCar]
    BY <1>5 DEF RaceFinished, NewRace
  <2>2. \A c \in DOMAIN players :
          /\ AddResult(c) \in Sessions
          /\ AddResult(c).races = players[c].races + 1
          /\ AddResult(c).received = players[c].received
          /\ AddResult(c).pending = players[c].pending
    BY <1>1, ResultAdded
  <2>3. \A c \in DOMAIN players :
          /\ ForgetUpgrade(AddResult(c)).races = players[c].races + 1
          /\ ForgetUpgrade(AddResult(c)).received = FALSE
          /\ ForgetUpgrade(AddResult(c)).pending = 0
    BY <2>2, UpgradeForgotten
  <2>4. PendingIsCurrent'
    BY <2>1, <2>2, <2>3 DEF RoundInv, PendingIsCurrent
  <2>5. RacesCountedOnce'
    BY <2>1, <2>2, <2>3 DEF RoundInv, RacesCountedOnce, RacesOver, CoreInv, ClockInv, ClockTypeOK
  <2>6. BetweenRaces' /\ pc' # "ended" => \A c \in DOMAIN cars' : cars'[c].upgrades = <<>>
    BY <2>1 DEF NewCar
  <2> QED
    BY <2>1, <2>4, <2>5, <2>6 DEF RoundInv, LeaversDestroyed, UpgradesKept
<1>6. ASSUME NEW dt \in Frames, LastRaceFinished(dt) PROVE RoundInv'
  <2>1. /\ state = "Running" /\ state' = "ShowingResultsLastRace"
        /\ current_map_index' = current_map_index
        /\ players' = [c \in DOMAIN players |-> AddResult(c)]
    BY <1>6 DEF LastRaceFinished
  <2>2. \A c \in DOMAIN players :
          /\ AddResult(c).races = players[c].races + 1
          /\ AddResult(c).received = players[c].received
          /\ AddResult(c).pending = players[c].pending
    BY <1>1, ResultAdded
  <2>3. PendingIsCurrent'
    BY <2>1, <2>2 DEF RoundInv, PendingIsCurrent
  <2>4. RacesCountedOnce'
    BY <2>1, <2>2 DEF RoundInv, RacesCountedOnce, RacesOver, CoreInv, ClockInv, ClockTypeOK
  <2> QED
    BY <2>1, <2>3, <2>4 DEF RoundInv, LeaversDestroyed, UpgradesKept, BetweenRaces
<1>7. ASSUME NEW dt \in Frames, StartNewMap(dt) PROVE RoundInv'
  <2>1. /\ state = "WaitingUpgrades" /\ state' = "Running" /\ pc = "receive"
        /\ current_map_index' = current_map_index
        /\ players' = [c \in DOMAIN players |-> ApplyPending(players[c])]
        /\ cars' = [c \in DOMAIN cars |-> StartingCar(c)]
    BY <1>7 DEF StartNewMap, Updates
  <2>2. \A c \in DOMAIN players :
          /\ players'[c].received = players[c].received
          /\ players'[c].pending = players[c].pending
          /\ players'[c].races = players[c].races
          /\ players'[c].disconnected = players[c].disconnected
          /\ players'[c].applied \in Seq(1 .. 9)
    BY <1>1, <2>1, UpgradeApplied DEF Sessions
  <2>3. \A c \in DOMAIN players :
          /\ players'[c].disconnected => IsDestroyed(cars'[c])
          /\ cars'[c].upgrades = cars[c].upgrades \o players'[c].applied
    BY <1>1, <2>1, <2>2, StartingCars
  <2>4. \A c \in DOMAIN players : cars[c].upgrades = <<>>
    BY <1>1, <2>1 DEF RoundInv, BetweenRaces
  <2>5. \A s \in Seq(1 .. 9) : <<>> \o s = s
    OBVIOUS
  <2>6. DOMAIN players' = DOMAIN players
    BY <2>1
  <2>8. \A c \in DOMAIN players : cars'[c].upgrades = players'[c].applied
    BY <2>2, <2>3, <2>4, <2>5
  <2>9. LeaversDestroyed' /\ UpgradesKept'
    BY <2>3, <2>6, <2>8 DEF LeaversDestroyed, UpgradesKept, IsDestroyed
  <2>7. PendingIsCurrent' /\ RacesCountedOnce'
    BY <2>1, <2>2 DEF RoundInv, PendingIsCurrent, RacesCountedOnce, RacesOver
  <2> QED
    BY <2>1, <2>7, <2>9 DEF RoundInv, BetweenRaces
<1>8. CASE BeginRace
  BY <1>8, PhaseKeepsRound DEF BeginRace, rvars
<1>9. ASSUME NEW dt \in Frames, ResultsShown(dt) \/ UpgradesChosen(dt) PROVE RoundInv'
  BY <1>9, PhaseKeepsRound DEF ResultsShown, UpgradesChosen, EndScreen, rvars
<1>10. ASSUME NEW dt \in Frames, ShowResultsLastRace(dt) PROVE RoundInv'
  <2>1. /\ state = "ShowingResultsLastRace"
        /\ state' \in {"ShowingResultsLastRace", "Finished"}
        /\ players' = players /\ cars' = cars /\ pc' = pc
        /\ current_map_index' = current_map_index
    BY <1>10 DEF ShowResultsLastRace, rvars
  <2> QED
    BY <2>1, PhaseKeepsRound
<1>11. ASSUME NEW c \in Clients,
              \/ \E move \in Moves[c] : ReceiveMove(c, move)
              \/ IgnoreCommand(c) \/ Contact(c) \/ Hit(c)
       PROVE  RoundInv'
  <2>1. Quietly
    BY <1>11, QuietCommands
  <2> QED
    BY <2>1, QuietKeepsRound
<1>12. CASE EndFrame \/ LoopEnds
  BY <1>12, QuietFrames, QuietKeepsRound
<1>13. ASSUME NEW dt \in Frames, RaceGoesOn(dt) \/ ScreenGoesOn(dt) \/ WaitForUpgrades(dt)
       PROVE  RoundInv'
  BY <1>13, QuietScreens, QuietKeepsRound
<1>14. CASE UNCHANGED gvars
  <2>1. Quietly
    BY <1>14 DEF gvars, lvars, rvars, Quietly, KeepsCars, KeepsWrecks
  <2> QED
    BY <2>1, QuietKeepsRound
<1> QED
  BY <1>2, <1>3, <1>4, <1>5, <1>6, <1>7, <1>8, <1>9, <1>10, <1>11, <1>12, <1>13, <1>14
     DEF Next, Receive, UpdateState

\* RoundInv, the strengthening of the four properties above, holds of every game:
\* what happens between two races keeps cars and players in agreement.
THEOREM LoopRounds == Spec => []RoundInv
<1>1. Init => RoundInv
  BY DEF Init, RoundInv, LeaversDestroyed, UpgradesKept, PendingIsCurrent, RacesCountedOnce,
         InLobby, BetweenRaces
<1>2. CoreInv /\ RoundInv /\ [Next]_gvars => RoundInv'
  BY RoundStep
<1> QED
  BY <1>1, <1>2, LoopCore, PTL DEF Spec

\* The cars of the players that left are destroyed in every race.
THEOREM LoopDestroysLeavers == Spec => []LeaversDestroyed
<1>1. RoundInv => LeaversDestroyed
  BY DEF RoundInv
<1> QED
  BY <1>1, LoopRounds, PTL

\* Every car has all the upgrades of its player while a race runs.
THEOREM LoopKeepsUpgrades == Spec => []UpgradesKept
<1>1. RoundInv => UpgradesKept
  BY DEF RoundInv
<1> QED
  BY <1>1, LoopRounds, PTL

\* An upgrade is applied in the round in which it was sent.
THEOREM LoopPendingCurrent == Spec => []PendingIsCurrent
<1>1. RoundInv => PendingIsCurrent
  BY DEF RoundInv
<1> QED
  BY <1>1, LoopRounds, PTL

\* Every player's result counts once a race.
THEOREM LoopCountsRaces == Spec => []RacesCountedOnce
<1>1. RoundInv => RacesCountedOnce
  BY DEF RoundInv
<1> QED
  BY <1>1, LoopRounds, PTL

-----------------------------------------------------------------------------
\* The accounts of the players.  How often a level was granted is a number.
LEMMA GrantedIsNat ==
  ASSUME NEW ups \in Seq(1 .. 9), NEW level
  PROVE  Granted(ups, level) \in Nat
<1>1. DOMAIN ups = 1 .. Len(ups) /\ Len(ups) \in Nat
  OBVIOUS
<1>2. IsFiniteSet(DOMAIN ups)
  BY <1>1, FS_Interval
<1>3. IsFiniteSet({i \in DOMAIN ups : Level(ups[i]) = level})
  BY <1>2, FS_Subset
<1> QED
  BY <1>3, FS_CardinalityType DEF Granted

\* One more upgrade counts once, at its own level.
LEMMA GrantedOnceMore ==
  ASSUME NEW ups \in Seq(1 .. 9), NEW up \in 1 .. 9, NEW level
  PROVE  Granted(Append(ups, up), level)
           = IF Level(up) = level THEN Granted(ups, level) + 1 ELSE Granted(ups, level)
<1> DEFINE n == Len(ups)
           more == Append(ups, up)
           before == {i \in DOMAIN ups : Level(ups[i]) = level}
           after == {i \in DOMAIN more : Level(more[i]) = level}
<1>1. DOMAIN ups = 1 .. n /\ n \in Nat
  OBVIOUS
<1>2. /\ DOMAIN more = 1 .. n + 1 /\ more[n + 1] = up
      /\ \A i \in 1 .. n : more[i] = ups[i]
  OBVIOUS
<1> HIDE DEF n, more
<1>3. IsFiniteSet(before) /\ n + 1 \notin before
  BY <1>1, FS_Interval, FS_Subset
<1>4. after = IF Level(up) = level THEN before \cup {n + 1} ELSE before
  BY <1>1, <1>2
<1>5. Cardinality(before \cup {n + 1}) = Cardinality(before) + 1
  BY <1>3, FS_AddElement
<1>6. Granted(ups, level) = Cardinality(before) /\ Granted(more, level) = Cardinality(after)
  BY Zenon DEF Granted
<1> HIDE DEF before, after
<1> QED
  BY <1>4, <1>5, <1>6 DEF more

\* An upgrade is charged with the penalty of its level.
LEMMA ChargedOnceMore ==
  ASSUME NEW ups \in Seq(1 .. 9), NEW up \in 1 .. 9
  PROVE  /\ Charged(ups) \in Nat
         /\ Charged(Append(ups, up)) = Charged(ups) + PenaltyFor(Level(up))
<1> DEFINE p(l) == PenaltyFor(l)
           g(l) == Granted(ups, l)
           h(l) == Granted(Append(ups, up), l)
<1>1. Level(up) \in 1 .. 3
  BY DEF Level, IsUpgrade
<1>2. \A l : p(l) \in Nat
  BY UpgradesAssumption DEF PenaltyFor
<1>3. \A l : g(l) \in Nat
  BY GrantedIsNat
<1>4. \A l : h(l) = IF Level(up) = l THEN g(l) + 1 ELSE g(l)
  BY GrantedOnceMore
<1>5. /\ Charged(ups) = p(1) * g(1) + p(2) * g(2) + p(3) * g(3)
      /\ Charged(Append(ups, up)) = p(1) * h(1) + p(2) * h(2) + p(3) * h(3)
  BY Zenon DEF Charged
<1> HIDE DEF p, g, h
<1>6. \A m, n \in Nat : m * n \in Nat /\ m * (n + 1) = m * n + m
  OBVIOUS
<1>7. \A l : p(l) * g(l) \in Nat /\ p(l) * h(l) = IF Level(up) = l THEN p(l) * g(l) + p(l) ELSE p(l) * g(l)
  BY <1>2, <1>3, <1>4, <1>6
<1>8. Charged(ups) \in Nat
  BY <1>5, <1>7
<1>9. Charged(Append(ups, up)) = Charged(ups) + p(Level(up))
  <2>1. p(1) \in Nat /\ p(2) \in Nat /\ p(3) \in Nat
    BY <1>2
  <2>2. CASE Level(up) = 1
    BY <1>5, <1>7, <2>1, <2>2
  <2>3. CASE Level(up) = 2
    BY <1>5, <1>7, <2>1, <2>3
  <2>4. CASE Level(up) = 3
    BY <1>5, <1>7, <2>1, <2>4
  <2> QED
    BY <1>1, <2>2, <2>3, <2>4
<1> QED
  BY <1>8, <1>9 DEF p

\* What leaves the total, the races and the upgrades alone leaves the account.
LEMMA AccountKept ==
  ASSUME NEW s, NEW t, Accounts(s),
         t.total = s.total, t.races = s.races, t.applied = s.applied
  PROVE  Accounts(t)
BY DEF Accounts

\* A player that comes starts with an empty account.
LEMMA AccountOpened ==
  Accounts(NewSession)
<1>1. /\ NewSession \in Sessions /\ NewSession.total = 0 /\ NewSession.races = 0
      /\ NewSession.applied = <<>>
  BY NewSessionType DEF NewSession
<1>2. \A level : Granted(<<>>, level) = 0
  BY FS_EmptySet DEF Granted
<1>3. \A level \in 1 .. 3 : PenaltyFor(level) \in Nat
  BY UpgradesAssumption DEF PenaltyFor
<1>4. Charged(<<>>) = 0
  BY <1>2, <1>3 DEF Charged
<1>5. RaceDuration \in Nat
  BY TimesAssumption DEF RaceDuration
<1> QED
  BY <1>1, <1>4, <1>5 DEF Accounts

\* A race more allows the time of a race more.
LEMMA ResultAccounted ==
  ASSUME RaceTypeOK, PlayersTypeOK, NEW c \in DOMAIN players, Accounts(players[c])
  PROVE  Accounts(AddResult(c)) /\ Accounts(ForgetUpgrade(AddResult(c)))
<1> DEFINE s == players[c]
           t == AddResult(c)
<1>1. s \in Sessions /\ t \in Sessions /\ HasCar(c)
  BY ResultAdded DEF PlayersTypeOK, HasCar
<1>2. t.races = s.races + 1 /\ t.total = s.total + RaceTime(c) /\ t.applied = s.applied
  BY ResultAdded
<1>3. RaceTime(c) \in 0 .. RaceDuration /\ RaceDuration \in Nat
  BY <1>1, RaceTimeBound, TimesAssumption DEF RaceDuration
<1>4. s.applied \in Seq(1 .. 9) /\ Charged(s.applied) \in Nat
  BY <1>1, ChargedOnceMore DEF Sessions
<1>5. s.total \in Nat /\ s.races \in Nat
  BY <1>1 DEF Sessions
<1>6. s.total - Charged(s.applied) \in 0 .. s.races * RaceDuration
  BY DEF Accounts
<1> HIDE DEF s, t
<1>7. t.races * RaceDuration = s.races * RaceDuration + RaceDuration
  BY <1>2, <1>3, <1>5
<1>8. t.total - Charged(t.applied) = (s.total - Charged(s.applied)) + RaceTime(c)
  BY <1>2, <1>3, <1>4, <1>5
<1>9. s.races * RaceDuration \in Nat
  BY <1>3, <1>5
<1>10. Accounts(t)
  BY <1>3, <1>6, <1>7, <1>8, <1>9 DEF Accounts
<1>11. Accounts(ForgetUpgrade(t))
  <2>1. ForgetUpgrade(t).total = t.total
    BY <1>1 DEF ForgetUpgrade, Sessions
  <2> QED
    BY <1>1, <1>10, <2>1, UpgradeForgotten, AccountKept
<1> QED
  BY <1>10, <1>11 DEF t

\* An upgrade is paid for when it is applied, and what is no upgrade is free.
LEMMA UpgradeAccounted ==
  ASSUME NEW s \in Sessions, Accounts(s)
  PROVE  Accounts(ApplyPending(s))
<1> DEFINE t == ApplyPending(s)
           price == PenaltyFor(Level(s.pending))
<1>1. t \in Sessions /\ t.races = s.races
  BY UpgradeApplied
<1>2. /\ t.total = s.total + price
      /\ t.applied = IF IsUpgrade(s.pending) THEN Append(s.applied, s.pending) ELSE s.applied
  BY DEF ApplyPending, Sessions
<1>3. s.applied \in Seq(1 .. 9) /\ s.total \in Nat /\ price \in Nat
  BY UpgradesAssumption DEF Sessions, PenaltyFor
<1>7. Charged(s.applied) \in Nat
  BY <1>3, ChargedOnceMore
<1>4. Charged(t.applied) = Charged(s.applied) + price
  <2>1. CASE IsUpgrade(s.pending)
    BY <1>2, <1>3, <2>1, ChargedOnceMore DEF IsUpgrade
  <2>2. CASE ~IsUpgrade(s.pending)
    <3>1. price = 0
      BY <2>2, UpgradesAssumption DEF Level, PenaltyFor
    <3> QED
      BY <1>2, <1>7, <2>2, <3>1
  <2> QED
    BY <2>1, <2>2
<1> HIDE DEF t, price
<1>5. t.total - Charged(t.applied) = s.total - Charged(s.applied)
  BY <1>2, <1>3, <1>4, <1>7
<1>6. Accounts(t)
  BY <1>1, <1>5 DEF Accounts
<1> QED
  BY <1>6 DEF t

LEMMA AccountsStep ==
  ASSUME CoreInv, TotalsAccount, [Next]_gvars
  PROVE  TotalsAccount'
<1>1. /\ RaceTypeOK /\ PlayersTypeOK
      /\ \A c \in DOMAIN players : players[c] \in Sessions /\ Accounts(players[c])
  BY DEF CoreInv, RaceInv, PlayersTypeOK, TotalsAccount
<1>2. ASSUME players' = players PROVE TotalsAccount'
  BY <1>1, <1>2 DEF TotalsAccount, Accounts
<1>3. ASSUME NEW c \in Clients, ReceiveNewCar(c) PROVE TotalsAccount'
  <2>1. players' = [d \in DOMAIN players \cup {c} |->
                      IF d \in DOMAIN players THEN players[d] ELSE NewSession]
    BY <1>3 DEF ReceiveNewCar
  <2> QED
    BY <1>1, <2>1, AccountOpened DEF TotalsAccount
<1>4. ASSUME NEW c \in Clients, DisconectCar(c) PROVE TotalsAccount'
  <2>1. c \in DOMAIN players /\ players' = [players EXCEPT ![c].disconnected = TRUE]
    BY <1>4 DEF DisconectCar, Sends
  <2>2. Accounts([players[c] EXCEPT !.disconnected = TRUE])
    <3>1. /\ [players[c] EXCEPT !.disconnected = TRUE].total = players[c].total
          /\ [players[c] EXCEPT !.disconnected = TRUE].races = players[c].races
          /\ [players[c] EXCEPT !.disconnected = TRUE].applied = players[c].applied
      BY <1>1, <2>1 DEF Sessions
    <3> QED
      BY <1>1, <2>1, <3>1, AccountKept
  <2> QED
    BY <1>1, <2>1, <2>2 DEF TotalsAccount
<1>5. ASSUME NEW c \in Clients, NEW up \in Upgrades, UpgradeCar(c, up) PROVE TotalsAccount'
  <2>1. c \in DOMAIN players /\ players' = [players EXCEPT ![c].pending = up, ![c].received = TRUE]
    BY <1>5 DEF UpgradeCar, Sends
  <2>2. DOMAIN players' = DOMAIN players /\ \A d \in DOMAIN players :
          /\ players'[d].total = players[d].total /\ players'[d].races = players[d].races
          /\ players'[d].applied = players[d].applied
    BY <1>1, <2>1 DEF Sessions
  <2> QED
    BY <1>1, <2>2, AccountKept DEF TotalsAccount
<1>6. ASSUME NEW dt \in Frames, RaceFinished(dt) \/ LastRaceFinished(dt) PROVE TotalsAccount'
  <2>1. \/ players' = [c \in DOMAIN players |-> AddResult(c)]
        \/ players' = [c \in DOMAIN players |-> ForgetUpgrade(AddResult(c))]
    BY <1>6 DEF RaceFinished, LastRaceFinished
  <2>2. \A c \in DOMAIN players : /\ Accounts(AddResult(c))
                                  /\ Accounts(ForgetUpgrade(AddResult(c)))
    BY <1>1, ResultAccounted
  <2> QED
    BY <2>1, <2>2 DEF TotalsAccount
<1>7. ASSUME NEW dt \in Frames, StartNewMap(dt) PROVE TotalsAccount'
  <2>1. players' = [c \in DOMAIN players |-> ApplyPending(players[c])]
    BY <1>7 DEF StartNewMap
  <2>2. \A c \in DOMAIN players : Accounts(ApplyPending(players[c]))
    BY <1>1, UpgradeAccounted
  <2> QED
    BY <2>1, <2>2 DEF TotalsAccount
<1>8. ASSUME NEW c \in Clients,
             \/ \E move \in Moves[c] : ReceiveMove(c, move)
             \/ IgnoreCommand(c) \/ Contact(c) \/ Hit(c)
      PROVE  TotalsAccount'
  BY <1>2, <1>8 DEF ReceiveMove, IgnoreCommand, Contact, Hit
<1>9. ASSUME NEW dt \in Frames, \/ RaceGoesOn(dt) \/ ScreenGoesOn(dt)
                                \/ ResultsShown(dt) \/ UpgradesChosen(dt)
                                \/ WaitForUpgrades(dt) \/ ShowResultsLastRace(dt)
      PROVE  TotalsAccount'
  BY <1>2, <1>9 DEF RaceGoesOn, ScreenGoesOn, ResultsShown, UpgradesChosen, EndScreen,
                    WaitForUpgrades, ShowResultsLastRace
<1>10. CASE BeginRace \/ EndFrame \/ LoopEnds
  BY <1>2, <1>10 DEF BeginRace, EndFrame, SendSnapshot, SendNothing, LoopEnds
<1>11. CASE UNCHANGED gvars
  BY <1>2, <1>11 DEF gvars, lvars
<1> QED
  BY <1>3, <1>4, <1>5, <1>6, <1>7, <1>8, <1>9, <1>10, <1>11 DEF Next, Receive, UpdateState

\* Whatever the races, the penalties and the upgrades, a player's total is what
\* its upgrades cost and for each race a time of at most the race's.
THEOREM LoopKeepsAccounts == Spec => []TotalsAccount
<1>1. Init => TotalsAccount
  BY DEF Init, TotalsAccount
<1>2. CoreInv /\ TotalsAccount /\ [Next]_gvars => TotalsAccount'
  BY AccountsStep
<1> QED
  BY <1>1, <1>2, LoopCore, PTL DEF Spec

-----------------------------------------------------------------------------
\* Within a race no step changes a finish time.
LEMMA RaceKeepsFinish ==
  ASSUME RaceTypeOK,
         \/ \E c, move, time : ReceiveCommandMove(c, move, time)
         \/ \E c, order, time : HandleCheckpointContact(c, order, time)
         \/ \E c : AddNewCar(c) /\ c \notin DOMAIN cars
         \/ progress' = progress
  PROVE  FinishKept
<1>1. ASSUME NEW c \in DOMAIN cars, NEW prog, NEW time,
             prog.finish = SetRaceFinish(progress[c], time).finish
                \/ prog.finish = progress[c].finish,
             progress' = [progress EXCEPT ![c] = prog]
      PROVE  FinishKept
  <2>1. progress[c].finish > 0 => prog.finish = progress[c].finish
    BY <1>1 DEF SetRaceFinish, RaceTypeOK, RaceProgress
  <2> QED
    BY <1>1, <2>1 DEF FinishKept, RaceTypeOK
<1>2. ASSUME progress' = progress PROVE FinishKept
  BY <1>2 DEF FinishKept
<1>3. ASSUME NEW c, NEW move, NEW time, ReceiveCommandMove(c, move, time) PROVE FinishKept
  <2>1. \/ progress' = progress
        \/ HasCar(c) /\ progress' = [progress EXCEPT ![c] = SetRaceFinish(progress[c], time)]
    BY <1>3, Zenon DEF ReceiveCommandMove, Press, Release, Win, SetCar, rvars
  <2> QED
    BY <1>1, <1>2, <2>1 DEF HasCar
<1>4. ASSUME NEW c, NEW order, NEW time, HandleCheckpointContact(c, order, time)
      PROVE  FinishKept
  <2> DEFINE prog == IF order = LastOrder THEN SetRaceFinish(progress[c], time)
                     ELSE progress[c]
             next == [prog EXCEPT !.next_order = @ + 1]
  <2>1. c \in DOMAIN cars /\ progress' = [progress EXCEPT ![c] = next]
    BY <1>4, Zenon DEF HandleCheckpointContact, HasCar
  <2>2. next.finish = SetRaceFinish(progress[c], time).finish
           \/ next.finish = progress[c].finish
    <3>1. progress[c] \in RaceProgress
      BY <2>1 DEF RaceTypeOK
    <3> QED
      BY <3>1 DEF SetRaceFinish, RaceProgress
  <2> HIDE DEF next
  <2> QED
    BY <1>1, <2>1, <2>2
<1>5. ASSUME NEW c, AddNewCar(c), c \notin DOMAIN cars PROVE FinishKept
  BY <1>5 DEF AddNewCar, FinishKept, RaceTypeOK
<1> QED
  BY <1>2, <1>3, <1>4, <1>5

LEMMA FinishStep ==
  ASSUME CoreInv, [Next]_gvars
  PROVE  FinishKept
<1>1. RaceTypeOK /\ DOMAIN players = DOMAIN cars
  BY DEF CoreInv, RaceInv, PlayersTypeOK
<1>2. ASSUME NEW c \in Clients, Receive(c) \/ Contact(c) \/ Hit(c) PROVE FinishKept
  <2>1. \/ \E move, time : ReceiveCommandMove(c, move, time)
        \/ \E order, time : HandleCheckpointContact(c, order, time)
        \/ AddNewCar(c) /\ c \notin DOMAIN cars
        \/ progress' = progress
    BY <1>1, <1>2, Zenon DEF Receive, ReceiveNewCar, DisconectCar, IgnoreCommand, ReceiveMove,
         UpgradeCar, Contact, Hit, Lose, HandleHit, SetCar, rvars
  <2> QED
    BY <1>1, <2>1, RaceKeepsFinish
<1>3. ASSUME NEW dt \in Frames, RaceFinished(dt) PROVE FinishKept
  <2>1. current_map_index' # current_map_index
    BY <1>3 DEF RaceFinished, CoreInv, ClockInv, ClockTypeOK
  <2> QED
    BY <2>1 DEF FinishKept
<1>4. CASE progress' = progress
  BY <1>1, <1>4, RaceKeepsFinish
<1>5. CASE BeginRace \/ EndFrame \/ LoopEnds \/ UNCHANGED gvars
  BY <1>4, <1>5 DEF BeginRace, EndFrame, SendSnapshot, SendNothing, LoopEnds, gvars, rvars
<1>6. ASSUME NEW dt \in Frames,
             \/ RaceGoesOn(dt) \/ LastRaceFinished(dt) \/ ScreenGoesOn(dt)
             \/ ResultsShown(dt) \/ UpgradesChosen(dt) \/ WaitForUpgrades(dt)
             \/ StartNewMap(dt) \/ ShowResultsLastRace(dt)
      PROVE  FinishKept
  BY <1>4, <1>6 DEF RaceGoesOn, LastRaceFinished, ScreenGoesOn, ResultsShown, UpgradesChosen,
       EndScreen, WaitForUpgrades, StartNewMap, ShowResultsLastRace, rvars
<1> QED
  BY <1>2, <1>3, <1>5, <1>6 DEF Next, UpdateState

\* A finish time stays until the next race.
THEOREM LoopFixesFinishTimes == Spec => FinishTimeFixed
<1>1. CoreInv /\ [Next]_gvars => [FinishKept]_gvars
  BY FinishStep
<1> QED
  BY <1>1, LoopCore, PTL DEF Spec, FinishTimeFixed

-----------------------------------------------------------------------------
\* A car that does not cheat has its finish from the goal's sensor alone, and
\* that one counts only after all the others.
GoalInv ==
  \A c \in DOMAIN progress :
    "win" \notin Moves[c] /\ progress[c].finish > 0 => progress[c].next_order = LastOrder + 1

LEMMA RaceKeepsGoal ==
  ASSUME RaceTypeOK, GoalInv,
         \/ \E c, time : \E move \in Moves[c] : ReceiveCommandMove(c, move, time)
         \/ \E c, time : \E order \in 1 .. LastOrder : HandleCheckpointContact(c, order, time)
         \/ \E c : AddNewCar(c)
         \/ NewRace
         \/ progress' = progress
  PROVE  GoalInv'
<1>1. CASE progress' = progress
  BY <1>1 DEF GoalInv
<1>2. ASSUME NEW c, NEW move \in Moves[c], NEW time, ReceiveCommandMove(c, move, time)
      PROVE  GoalInv'
  <2>1. \/ progress' = progress
        \/ /\ "win" \in Moves[c]
           /\ progress' = [progress EXCEPT ![c] = SetRaceFinish(progress[c], time)]
    BY <1>2, Zenon DEF ReceiveCommandMove, Press, Release, Win, SetCar, rvars
  <2>2. CASE "win" \in Moves[c]
    BY <2>1, <2>2 DEF GoalInv
  <2> QED
    BY <1>1, <2>1, <2>2
<1>3. ASSUME NEW c, NEW time, NEW order \in 1 .. LastOrder,
             HandleCheckpointContact(c, order, time)
      PROVE  GoalInv'
  <2> DEFINE prog == IF order = LastOrder THEN SetRaceFinish(progress[c], time)
                     ELSE progress[c]
             next == [prog EXCEPT !.next_order = @ + 1]
  <2>1. /\ c \in DOMAIN cars /\ order = progress[c].next_order
        /\ progress' = [progress EXCEPT ![c] = next]
    BY <1>3, Zenon DEF HandleCheckpointContact, HasCar
  <2>2. progress[c] \in RaceProgress /\ c \in DOMAIN progress
    BY <2>1 DEF RaceTypeOK
  <2>3. /\ next.next_order = order + 1
        /\ order # LastOrder => next.finish = progress[c].finish
    BY <2>1, <2>2 DEF SetRaceFinish, RaceProgress
  <2>4. "win" \notin Moves[c] /\ next.finish > 0 => next.next_order = LastOrder + 1
    BY <2>1, <2>2, <2>3, CheckpointsAssumption DEF GoalInv
  <2> HIDE DEF next
  <2> QED
    BY <2>1, <2>4 DEF GoalInv
<1>4. ASSUME NEW c, AddNewCar(c) PROVE GoalInv'
  BY <1>4 DEF AddNewCar, NewProgress, GoalInv
<1>5. CASE NewRace
  BY <1>5 DEF NewRace, NewProgress, GoalInv
<1> QED
  BY <1>1, <1>2, <1>3, <1>4, <1>5

LEMMA GoalStep ==
  ASSUME CoreInv, GoalInv, [Next]_gvars
  PROVE  GoalInv'
<1>1. RaceTypeOK
  BY DEF CoreInv, RaceInv
<1>2. CASE progress' = progress
  BY <1>1, <1>2, RaceKeepsGoal
<1>3. ASSUME NEW c \in Clients, Receive(c) \/ Contact(c) \/ Hit(c) PROVE GoalInv'
  <2>1. \/ \E time : \E move \in Moves[c] : ReceiveCommandMove(c, move, time)
        \/ \E time : \E order \in 1 .. LastOrder : HandleCheckpointContact(c, order, time)
        \/ AddNewCar(c)
        \/ progress' = progress
    BY <1>3, Zenon DEF Receive, ReceiveNewCar, DisconectCar, IgnoreCommand, ReceiveMove,
         UpgradeCar, Contact, Hit, Lose, HandleHit, SetCar, rvars
  <2> QED
    BY <1>1, <2>1, RaceKeepsGoal
<1>4. ASSUME NEW dt \in Frames, RaceFinished(dt) PROVE GoalInv'
  <2>1. NewRace \/ progress' = progress
    BY <1>4, Zenon DEF RaceFinished, rvars
  <2> QED
    BY <1>1, <2>1, RaceKeepsGoal
<1>5. CASE BeginRace \/ EndFrame \/ LoopEnds \/ UNCHANGED gvars
  BY <1>2, <1>5 DEF BeginRace, EndFrame, SendSnapshot, SendNothing, LoopEnds, gvars, rvars
<1>6. ASSUME NEW dt \in Frames,
             \/ RaceGoesOn(dt) \/ LastRaceFinished(dt) \/ ScreenGoesOn(dt)
             \/ ResultsShown(dt) \/ UpgradesChosen(dt) \/ WaitForUpgrades(dt)
             \/ StartNewMap(dt) \/ ShowResultsLastRace(dt)
      PROVE  GoalInv'
  BY <1>2, <1>6 DEF RaceGoesOn, LastRaceFinished, ScreenGoesOn, ResultsShown, UpgradesChosen,
       EndScreen, WaitForUpgrades, StartNewMap, ShowResultsLastRace, rvars
<1> QED
  BY <1>3, <1>4, <1>5, <1>6 DEF Next, UpdateState

\* Who does not cheat finishes only after every checkpoint.
THEOREM LoopFinishesByTheGoal == Spec => []FinishedByTheGoal
<1>1. Init => GoalInv
  BY DEF Init, GoalInv
<1>2. CoreInv /\ GoalInv /\ [Next]_gvars => GoalInv'
  BY GoalStep
<1>3. CoreInv /\ GoalInv => FinishedByTheGoal
  BY DEF CoreInv, RaceInv, RaceTypeOK, GoalInv, FinishedByTheGoal
<1> QED
  BY <1>1, <1>2, <1>3, LoopCore, PTL DEF Spec

-----------------------------------------------------------------------------
\* The loop implements Tournament.  First, what the messages are.
LEMMA NoType == Types(<<>>) = <<>>
BY DEF Types

LEMMA OneType ==
  ASSUME NEW e
  PROVE  Types(<<e>>) = <<e.type>>
BY DEF Types

LEMMA ManyTypes ==
  ASSUME NEW n \in Nat, NEW e, NEW f
  PROVE  /\ Types([i \in 1 .. n |-> e]) = [i \in 1 .. n |-> e.type]
         /\ Types(Append([i \in 1 .. n |-> e], f)) = Append([i \in 1 .. n |-> e.type], f.type)
<1>1. Types([i \in 1 .. n |-> e]) = [i \in 1 .. n |-> e.type]
  BY DEF Types
<1>2. Append([i \in 1 .. n |-> e], f) = [i \in 1 .. n + 1 |-> IF i = n + 1 THEN f ELSE e]
  OBVIOUS
<1>3. Append([i \in 1 .. n |-> e.type], f.type)
        = [i \in 1 .. n + 1 |-> IF i = n + 1 THEN f.type ELSE e.type]
  OBVIOUS
<1> QED
  BY <1>1, <1>2, <1>3 DEF Types

LEMMA DivBounds ==
  ASSUME NEW a \in Nat, NEW r \in Nat \ {0}
  PROVE  a \div r \in Nat /\ r * (a \div r) <= a /\ a < r * ((a \div r) + 1)
OBVIOUS

LEMMA DivMonotone ==
  ASSUME NEW a \in Nat, NEW b \in Nat, a <= b, NEW r \in Nat \ {0}
  PROVE  a \div r <= b \div r
<1> DEFINE p == a \div r
           q == b \div r
<1>1. p \in Nat /\ q \in Nat /\ r * p <= a /\ b < r * (q + 1)
  BY DivBounds
<1> HIDE DEF p, q
<1>2. ASSUME q + 1 <= p PROVE FALSE
  <2>1. PICK k \in Nat : p = q + 1 + k
    BY <1>1, <1>2
  <2>2. r * p = r * (q + 1) + r * k /\ r * k >= 0
    BY <1>1, <2>1
  <2> QED
    BY <1>1, <2>2
<1> QED
  BY <1>1, <1>2 DEF p, q

\* A table that was due stays due.
LEMMA TablesDueGrow ==
  ASSUME NEW t \in Nat, NEW dt \in Nat
  PROVE  TablesDue(t) <= TablesDue(t + dt)
<1> DEFINE p == (4 * t) \div ResultsScreen
           q == (4 * (t + dt)) \div ResultsScreen
<1>1. p \in Nat /\ q \in Nat /\ p <= q
  BY DivMonotone, DivBounds, TimesAssumption
<1>2. /\ TablesDue(t) = IF p + 1 < 4 THEN p + 1 ELSE 4
      /\ TablesDue(t + dt) = IF q + 1 < 4 THEN q + 1 ELSE 4
  BY DEF TablesDue, StepsResultTable
<1> HIDE DEF p, q
<1> QED
  BY <1>1, <1>2

\* No table is sent before the last race is over, nor before it is due.
TablesInv ==
  /\ state \notin {"ShowingResultsLastRace", "Finished"} => result_snapshot_sent = 0
  /\ state = "ShowingResultsLastRace" =>
       result_snapshot_sent <= TablesDue(actual_result_time)

\* The actions that neither announce anything nor move the tournament.
Unannounced ==
  /\ UNCHANGED <<state, current_map_index, result_snapshot_sent, actual_result_time>>
  /\ cast' = <<>> \/ cast' = cast

LEMMA UnannouncedSteps ==
  ASSUME \/ \E c \in Clients : Receive(c) \/ Contact(c) \/ Hit(c)
         \/ \E dt \in Frames : RaceGoesOn(dt) \/ ScreenGoesOn(dt) \/ WaitForUpgrades(dt)
         \/ SendNothing \/ LoopEnds \/ UNCHANGED gvars
  PROVE  Unannounced
<1>1. ASSUME NEW c \in Clients, Receive(c) \/ Contact(c) \/ Hit(c) PROVE Unannounced
  BY <1>1, Zenon DEF Receive, Contact, Hit, ReceiveNewCar, DisconectCar, IgnoreCommand,
     ReceiveMove, UpgradeCar, timers, Says, Unannounced
<1>2. ASSUME NEW dt \in Frames, RaceGoesOn(dt) \/ ScreenGoesOn(dt) \/ WaitForUpgrades(dt)
      PROVE  Unannounced
  BY <1>2, Zenon DEF RaceGoesOn, ScreenGoesOn, WaitForUpgrades, Says, Unannounced
<1>3. CASE SendNothing \/ LoopEnds \/ UNCHANGED gvars
  BY <1>3 DEF SendNothing, LoopEnds, gvars, lvars, timers, Says, Unannounced
<1> QED
  BY <1>1, <1>2, <1>3

\* A step after the last race shows the tables that came due.
LEMMA TablesShown ==
  ASSUME ClockInv, TablesInv, NEW dt \in Frames, ShowResultsLastRace(dt)
  PROVE  TablesInv' /\ T!ShowTables
<1> DEFINE due == TablesDue(actual_result_time + dt)
           n == due - result_snapshot_sent
           table == Results(TRUE, Status)
<1>1. /\ state = "ShowingResultsLastRace"
      /\ current_map_index' = current_map_index
      /\ actual_result_time' = actual_result_time + dt /\ result_snapshot_sent' = due
      /\ \/ cast' = [i \in 1 .. n |-> table] /\ state' = state
         \/ /\ due >= StepsResultTable /\ state' = "Finished"
            /\ cast' = Append([i \in 1 .. n |-> table], PhaseChange)
  BY Zenon DEF ShowResultsLastRace, Updates, Says
<1>2. actual_result_time \in Nat /\ dt \in Nat /\ result_snapshot_sent \in 0 .. 4
  BY TimesAssumption DEF ClockInv, ClockTypeOK, StepsResultTable
<1>3. /\ due \in 1 .. 4 /\ result_snapshot_sent <= due
  <2>1. TablesDue(actual_result_time) <= due
    BY <1>2, TablesDueGrow
  <2>2. TablesDue(actual_result_time) \in 1 .. 4 /\ due \in 1 .. 4
    BY <1>2, TablesDueBound DEF StepsResultTable
  <2> HIDE DEF due
  <2> QED
    BY <1>1, <1>2, <2>1, <2>2 DEF TablesInv
<1>4. TablesInv'
  <2>1. result_snapshot_sent' = TablesDue(actual_result_time')
    BY <1>1
  <2>2. /\ result_snapshot_sent' \in 1 .. 4
        /\ state' \in {"ShowingResultsLastRace", "Finished"}
    BY <1>1, <1>3, Zenon
  <2> HIDE DEF due, n, table
  <2>3. result_snapshot_sent' <= TablesDue(actual_result_time')
    BY <2>1, <2>2
  <2> QED
    BY <2>2, <2>3 DEF TablesInv
<1>5. table.type = "final_results" /\ PhaseChange.type = "phase"
  BY DEF Results, PhaseChange
<1> HIDE DEF due, table
<1>6. n \in 0 .. 4 - result_snapshot_sent /\ n \in Nat
      /\ result_snapshot_sent' = result_snapshot_sent + n
  BY <1>1, <1>2, <1>3
<1> HIDE DEF n
<1>7. /\ Types([i \in 1 .. n |-> table]) = [i \in 1 .. n |-> "final_results"]
      /\ Types(Append([i \in 1 .. n |-> table], PhaseChange))
           = Append([i \in 1 .. n |-> "final_results"], "phase")
  <2>1. /\ Types([i \in 1 .. n |-> table]) = [i \in 1 .. n |-> table.type]
        /\ Types(Append([i \in 1 .. n |-> table], PhaseChange))
             = Append([i \in 1 .. n |-> table.type], PhaseChange.type)
    BY <1>6, ManyTypes
  <2> QED
    BY <1>5, <2>1, Zenon
<1>8. \/ /\ state' = "ShowingResultsLastRace"
         /\ Types(cast)' = [i \in 1 .. n |-> "final_results"]
      \/ /\ result_snapshot_sent' = StepsResultTable /\ state' = "Finished"
         /\ Types(cast)' = Append([i \in 1 .. n |-> "final_results"], "phase")
  <2>1. due >= 4 => result_snapshot_sent' = 4
    BY <1>1, <1>3
  <2>2. \/ cast' = [i \in 1 .. n |-> table] /\ state' = "ShowingResultsLastRace"
        \/ /\ due >= 4 /\ state' = "Finished"
           /\ cast' = Append([i \in 1 .. n |-> table], PhaseChange)
    BY <1>1, Zenon DEF n, StepsResultTable
  <2> QED
    BY <1>7, <2>1, <2>2, Zenon DEF StepsResultTable
<1>9. /\ Phase = "final"
      /\ state' = "ShowingResultsLastRace" => Phase' = "final"
      /\ state' = "Finished" => Phase' = "over"
  BY <1>1 DEF Phase
<1>10. n \in 0 .. StepsResultTable - result_snapshot_sent
  BY <1>6 DEF StepsResultTable
<1>11. T!ShowTables
  BY <1>1, <1>6, <1>8, <1>9, <1>10, Zenon DEF T!ShowTables
<1> QED
  BY <1>4, <1>11

LEMMA TournamentStep ==
  ASSUME ClockInv, TablesInv, [Next]_gvars
  PROVE  TablesInv' /\ [T!TNext]_(T!tvars)
<1>1. ASSUME Unannounced PROVE TablesInv' /\ (T!Quiet \/ UNCHANGED T!tvars)
  BY <1>1, NoType DEF Unannounced, TablesInv, T!Quiet, T!tvars, Phase
<1>2. CASE BeginRace
  <2>1. /\ state = "WaitingForLobbyStart" /\ state' = "Running"
        /\ UNCHANGED <<current_map_index, result_snapshot_sent>>
        /\ \E e : cast' = <<e>> /\ e.type = "pregame"
    BY <1>2 DEF BeginRace, timers, Says, SendPreGameSnapshot, PreGame
  <2> QED
    BY <2>1, OneType DEF TablesInv, T!TNext, T!OpenRace, Phase
<1>3. ASSUME NEW dt \in Frames, StartNewMap(dt) PROVE TablesInv' /\ T!OpenRace
  <2>1. /\ state = "WaitingUpgrades" /\ state' = "Running"
        /\ UNCHANGED <<current_map_index, result_snapshot_sent>>
        /\ \E e : cast' = <<e>> /\ e.type = "pregame"
    BY <1>3 DEF StartNewMap, Updates, Says, SendPreGameSnapshot, PreGame
  <2> QED
    BY <2>1, OneType DEF TablesInv, T!OpenRace, Phase
<1>4. ASSUME NEW dt \in Frames, RaceFinished(dt) PROVE TablesInv' /\ T!CloseRace
  <2>1. /\ state = "Running" /\ state' = "ShowingResults"
        /\ ~(current_map_index + 1 >= NumMaps)
        /\ current_map_index' = current_map_index + 1
        /\ UNCHANGED result_snapshot_sent
        /\ \E e : cast' = <<e>> /\ e.type = "results"
    BY <1>4 DEF RaceFinished, IsLast, Says, Results
  <2>2. current_map_index + 1 < NumMaps
    BY <2>1, MapsAssumption DEF ClockInv, ClockTypeOK
  <2> QED
    BY <2>1, <2>2, OneType DEF TablesInv, T!CloseRace, Phase
<1>5. ASSUME NEW dt \in Frames, LastRaceFinished(dt) PROVE TablesInv' /\ T!CloseLastRace
  <2>1. /\ state = "Running" /\ state' = "ShowingResultsLastRace"
        /\ current_map_index + 1 >= NumMaps /\ current_map_index' = current_map_index
        /\ actual_result_time' = 0 /\ result_snapshot_sent' = 0 /\ cast' = <<>>
    BY <1>5 DEF LastRaceFinished, IsLast, Says
  <2>2. current_map_index + 1 = NumMaps
    BY <2>1, MapsAssumption DEF ClockInv, ClockTypeOK
  <2>3. result_snapshot_sent = 0
    BY <2>1 DEF TablesInv
  <2>4. TablesInv'
    BY <2>1, TablesDueBound DEF TablesInv, StepsResultTable
  <2> QED
    BY <2>1, <2>2, <2>3, <2>4, NoType DEF T!CloseLastRace, Phase
<1>6. ASSUME NEW dt \in Frames, ResultsShown(dt) PROVE TablesInv' /\ T!OfferUpgrades
  BY <1>6, OneType DEF ResultsShown, EndScreen, Says, PhaseChange, TablesInv,
                       T!OfferUpgrades, Phase
<1>7. ASSUME NEW dt \in Frames, UpgradesChosen(dt) PROVE TablesInv' /\ T!CollectUpgrades
  BY <1>7, OneType DEF UpgradesChosen, EndScreen, Says, PhaseChange, TablesInv,
                       T!CollectUpgrades, Phase
<1>8. CASE SendSnapshot
  <2>1. /\ state = "Running"
        /\ UNCHANGED <<state, current_map_index, result_snapshot_sent>>
        /\ \E e : cast' = <<e>> /\ e.type = "snapshot"
    BY <1>8 DEF SendSnapshot, ClockInv, timers, Says, Snapshot
  <2> QED
    BY <2>1, OneType DEF TablesInv, T!TNext, T!TSnapshot, Phase
<1> QED
  BY <1>1, <1>2, <1>3, <1>4, <1>5, <1>6, <1>7, <1>8, TablesShown, UnannouncedSteps
     DEF Next, UpdateState, EndFrame, T!TNext

\* What the loop broadcasts is a tournament: every race is announced, followed
\* by its screens in order and, after the last one, by the tables and the end.
THEOREM LoopImplementsTournament == Spec => ImplementsTournament
<1>1. Init => TablesInv /\ T!TInit
  BY NoType DEF Init, TablesInv, T!TInit, Phase
<1>2. CoreInv => ClockInv
  BY DEF CoreInv
<1>3. ClockInv /\ TablesInv /\ [Next]_gvars => TablesInv' /\ [T!TNext]_(T!tvars)
  BY TournamentStep
<1> QED
  BY <1>1, <1>2, <1>3, LoopCore, PTL DEF Spec, ImplementsTournament, T!TSpec

=============================================================================
