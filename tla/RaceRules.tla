------------------------------ MODULE RaceRules ------------------------------
(***************************************************************************)
(* One race: the cars of WorldState, their progress through the            *)
(* checkpoints (RaceSystem), the damage of crashes (PhysicWorld and Car)   *)
(* and the commands that change them (RaceContext).                        *)
(*                                                                         *)
(* Where the cars are is left out: the simulation may bring a car to its   *)
(* next checkpoint, or crash it, at any step.  Ghost cars are filtered out *)
(* by the simulation: they touch nothing.                                  *)
(***************************************************************************)
EXTENDS Integers, Sequences

CONSTANTS
  Clients,    \* the clients registered when the lobby starts
  LastOrder,  \* the order of the goal, one more than the last checkpoint's
  MaxHealth,  \* in crashes: a crash takes one to three of them
  Moves       \* the codes of the Move commands each client sends

ASSUME CheckpointsAssumption == LastOrder \in Nat \ {0}
ASSUME HealthAssumption == MaxHealth \in Nat \ {0}
ASSUME MovesAssumption ==
  Moves \in [Clients -> SUBSET {"press", "release", "win", "lose", "undestroyable", "ghost"}]

VARIABLES
  cars,      \* WorldState::cars, client to Car
  progress,  \* WorldState::race_progress, client to RaceProgress
  pressed    \* WorldState::player_movements, the clients holding the throttle

rvars == <<cars, progress, pressed>>

-----------------------------------------------------------------------------
\* Car and RaceProgress as they are built.
NewCar ==
  [health |-> MaxHealth, finished |-> FALSE, ghost |-> FALSE, god |-> FALSE,
   one_destroy |-> TRUE, upgrades |-> <<>>]
NewProgress == [next_order |-> 1, finish |-> 0]

HasCar(c) == c \in DOMAIN cars
IsDestroyed(car) == car.health = 0

Kill(car) == [car EXCEPT !.health = 0, !.ghost = TRUE]
MarkFinished(car) == [car EXCEPT !.finished = TRUE, !.ghost = TRUE]
SetGodMode(car) == [car EXCEPT !.god = TRUE, !.health = MaxHealth]
ApplyUpgrades(car, ups) == [car EXCEPT !.upgrades = @ \o ups]

SetRaceFinish_Last(prog, time) == [prog EXCEPT !.finish = time]
SetRaceFinish_AfterTick(prog, time) ==
  IF prog.finish = 0 THEN [prog EXCEPT !.finish = time - 1] ELSE prog
\* The time of the first finish stays.
SetRaceFinish(prog, time) == IF prog.finish = 0 THEN [prog EXCEPT !.finish = time] ELSE prog

\* std::map::emplace keeps a car that is there; keys and progress start again.
AddNewCar(c) ==
  /\ cars' = [d \in DOMAIN cars \cup {c} |-> IF HasCar(d) THEN cars[d] ELSE NewCar]
  /\ progress' = [d \in DOMAIN progress \cup {c} |-> IF d = c THEN NewProgress ELSE progress[d]]
  /\ pressed' = pressed \ {c}

\* A RaceContext on the next map, with a car for everyone who had one.
NewRace ==
  /\ cars' = [c \in DOMAIN cars |-> NewCar]
  /\ progress' = [c \in DOMAIN cars |-> NewProgress]
  /\ pressed' = {}

-----------------------------------------------------------------------------
\* The Move commands.  Of the four keys one is enough: the others are set and
\* cleared alike.
Press(c) == pressed' = pressed \cup {c} /\ UNCHANGED <<cars, progress>>
Release(c) == pressed' = pressed \ {c} /\ UNCHANGED <<cars, progress>>

Win(c, time) ==
  /\ progress' = [progress EXCEPT ![c] = SetRaceFinish(@, time)]
  /\ cars' = [cars EXCEPT ![c] = MarkFinished(@)]
  /\ UNCHANGED pressed

SetCar(c, car) == cars' = [cars EXCEPT ![c] = car] /\ UNCHANGED <<progress, pressed>>

ReceiveCommandMove(c, move, time) ==
  \/ ~HasCar(c) /\ UNCHANGED rvars
  \/ /\ HasCar(c)
     /\ \/ move = "press" /\ Press(c)
        \/ move = "release" /\ Release(c)
        \/ move = "win" /\ Win(c, time)
        \/ move = "lose" /\ SetCar(c, Kill(cars[c]))
        \/ move = "undestroyable" /\ SetCar(c, SetGodMode(cars[c]))
        \/ move = "ghost" /\ SetCar(c, [cars[c] EXCEPT !.ghost = ~@])

\* RaceContext::kill.  It asks only for a car.
Lose(c) ==
  /\ cars' = [d \in DOMAIN cars |-> IF d = c THEN Kill(cars[d]) ELSE cars[d]]
  /\ UNCHANGED <<progress, pressed>>

-----------------------------------------------------------------------------
\* What a step of the simulation may do.

HandleCheckpointContact_AnyOrder(c, order, time) ==
  /\ HasCar(c) /\ ~cars[c].ghost
  /\ LET prog == IF order = LastOrder THEN SetRaceFinish(progress[c], time) ELSE progress[c]
     IN  progress' = [progress EXCEPT ![c] = [prog EXCEPT !.next_order = @ + 1]]
  /\ cars' = IF order = LastOrder THEN [cars EXCEPT ![c] = MarkFinished(@)] ELSE cars
  /\ UNCHANGED pressed
\* The car touches a sensor: only that of its next checkpoint counts, and
\* nobody asks whether the car is destroyed.
HandleCheckpointContact(c, order, time) ==
  /\ HasCar(c) /\ ~cars[c].ghost
  /\ order = progress[c].next_order
  /\ LET prog == IF order = LastOrder THEN SetRaceFinish(progress[c], time) ELSE progress[c]
     IN  progress' = [progress EXCEPT ![c] = [prog EXCEPT !.next_order = @ + 1]]
  /\ cars' = IF order = LastOrder THEN [cars EXCEPT ![c] = MarkFinished(@)] ELSE cars
  /\ UNCHANGED pressed

\* A crash.  The health of a car may go below zero: zero stands for that too.
ApplyDamage(car, damage) ==
  IF car.god THEN car
  ELSE [car EXCEPT !.health = IF @ > damage THEN @ - damage ELSE 0]

HandleHit(c, damage) ==
  /\ HasCar(c) /\ ~cars[c].ghost /\ ~cars[c].finished
  /\ SetCar(c, ApplyDamage(cars[c], damage))

AllPlayersFinishedOrDead ==
  /\ DOMAIN cars # {}
  /\ \A c \in DOMAIN cars : IsDestroyed(cars[c]) \/ progress[c].finish > 0

\* The cars a snapshot shows exploding: once for each car.
Exploding == {c \in DOMAIN cars : IsDestroyed(cars[c]) /\ cars[c].one_destroy}
ConsumeExplosions ==
  cars' = [c \in DOMAIN cars |->
             IF c \in Exploding THEN [cars[c] EXCEPT !.one_destroy = FALSE] ELSE cars[c]]

Car == [health : 0 .. MaxHealth, finished : BOOLEAN, ghost : BOOLEAN, god : BOOLEAN,
        one_destroy : BOOLEAN, upgrades : Seq(1 .. 9)]
RaceProgress == [next_order : 1 .. LastOrder + 1, finish : Nat]

RaceTypeOK ==
  /\ DOMAIN cars \subseteq Clients
  /\ \A c \in DOMAIN cars : cars[c] \in Car
  /\ DOMAIN progress = DOMAIN cars
  /\ \A c \in DOMAIN cars : progress[c] \in RaceProgress
  /\ pressed \subseteq DOMAIN cars

=============================================================================
