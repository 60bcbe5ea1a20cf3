------------------------------ MODULE NpcProofs ------------------------------
(***************************************************************************)
(* What the traffic keeps to on any map, with any number of cars, any step *)
(* of the simulation below one cell and any delay between two turns.       *)
(***************************************************************************)
EXTENDS Npc, TLAPS

-----------------------------------------------------------------------------
CarRecord ==
  [x : Int, y : Int, angle : Int, dir : Dirs, steps : Nat, parked : BOOLEAN, destroyed : BOOLEAN]

CarsTyped == \A s \in DOMAIN npcs : npcs[s] \in CarRecord
ParkedFar ==
  \A s \in DOMAIN npcs : npcs[s].parked => s \in filter_spawns_by_distance(map.npc_spawns_park)

\* The car looks where it goes, is on the map and on a road there.
OnCourse(npc) ==
  /\ npc.angle = angle_for_npc_dir(npc.dir)
  /\ npc.x >= 0 /\ npc.y >= 0 /\ is_driveable_world_pos(npc.x, npc.y)
NoneOffCourse ==
  \A s \in DOMAIN npcs : ~npcs[s].parked => s \in map.npc_spawns /\ (s.dir # "Down" => OnCourse(npcs[s]))

TInv == map \in Maps /\ CarsTyped /\ ParkedFar
RInv == TInv /\ NoneOffCourse

-----------------------------------------------------------------------------
\* Fractions of cells.
LEMMA InsideCell ==
  ASSUME NEW F \in Nat \ {0}, NEW a \in Int, NEW b \in 0 .. F - 1
  PROVE  (F * a + b) \div F = a
OBVIOUS

LEMMA NextCells ==
  ASSUME NEW F \in Nat \ {0}, NEW x \in Int
  PROVE  /\ x \div F \in Int
         /\ (x + F) \div F = x \div F + 1
         /\ (x + 1) \div F \in {x \div F, x \div F + 1}
         /\ x >= 0 => x \div F >= 0
OBVIOUS

\* One fraction ahead is in the same cell or in the one that lies ahead.
LEMMA OneFractionAhead ==
  ASSUME NEW x \in Nat
  PROVE  /\ ToInt(x) \in Nat /\ ToInt(x + 1) \in {ToInt(x), ToInt(x + Fractions)}
         /\ x # 0 => ToInt(x - 1) \in {ToInt(x), ToInt(x - Fractions)}
         /\ x = 0 => ToInt(x - Fractions) = -1
<1>1. Fractions \in Nat \ {0, 1}
  BY TrafficAssumption
<1>2. /\ x \div Fractions \in Nat
      /\ (x + Fractions) \div Fractions = x \div Fractions + 1
      /\ (x + 1) \div Fractions \in {x \div Fractions, x \div Fractions + 1}
  <2>1. Fractions \in Nat \ {0} /\ x \in Int /\ x >= 0
    BY <1>1
  <2>2. /\ x \div Fractions \in Int /\ x \div Fractions >= 0
        /\ (x + Fractions) \div Fractions = x \div Fractions + 1
        /\ (x + 1) \div Fractions \in {x \div Fractions, x \div Fractions + 1}
    BY <2>1, NextCells
  <2> QED
    BY <2>2
<1>3. ToInt(x) \in Nat /\ ToInt(x + 1) \in {ToInt(x), ToInt(x + Fractions)}
  BY <1>1, <1>2 DEF ToInt
<1>4. ASSUME x # 0 PROVE ToInt(x - 1) \in {ToInt(x), ToInt(x - Fractions)}
  <2>1. x - 1 \in Nat
    BY <1>4
  <2>2. x \div Fractions \in {(x - 1) \div Fractions, (x - 1) \div Fractions + 1}
    <3>1. ((x - 1) + 1) \div Fractions \in {(x - 1) \div Fractions, (x - 1) \div Fractions + 1}
      BY <1>1, <2>1, NextCells
    <3> QED
      BY <3>1
  <2>3. CASE x >= Fractions
    <3>0. x - Fractions \in Int /\ Fractions \in Nat \ {0}
      BY <1>1
    <3>1. /\ ((x - Fractions) + Fractions) \div Fractions = (x - Fractions) \div Fractions + 1
          /\ (x - Fractions) \div Fractions \in Int
      BY <3>0, NextCells
    <3>2. x \div Fractions = (x - Fractions) \div Fractions + 1
      BY <1>1, <3>1
    <3>3. (x - 1) \div Fractions \in Int
      BY <1>1, <2>1, NextCells
    <3> QED
      BY <1>1, <2>1, <2>2, <2>3, <3>1, <3>2, <3>3 DEF ToInt
  <2>4. CASE x < Fractions
    <3>1. x \div Fractions = 0 /\ (x - 1) \div Fractions = 0
      BY <1>1, <2>1, <2>4
    <3> QED
      BY <1>1, <2>1, <3>1 DEF ToInt
  <2> QED
    BY <1>1, <2>3, <2>4
<1>5. ASSUME x = 0 PROVE ToInt(x - Fractions) = -1
  BY <1>1, <1>5 DEF ToInt
<1> QED
  BY <1>3, <1>4, <1>5

\* A car that can go a way and goes a fraction of a cell along it stays on the
\* map and on the road: the first probe ahead of it was in the cell it comes to.
LEMMA StepStaysOnRoad ==
  ASSUME NEW npc \in CarRecord, npc.x >= 0, npc.y >= 0, is_driveable_world_pos(npc.x, npc.y),
         NEW dir \in Dirs, can_go(npc, dir)
  PROVE  LET angle == angle_for_npc_dir(dir)
             x == npc.x + Cos(angle)
             y == npc.y + Sin(angle)
         IN  x >= 0 /\ y >= 0 /\ is_driveable_world_pos(x, y)
<1> DEFINE angle == angle_for_npc_dir(dir)
           c == Cos(angle)
           n == Sin(angle)
<1>1. Fractions \in Nat \ {0, 1} /\ npc.x \in Nat /\ npc.y \in Nat
  BY TrafficAssumption DEF CarRecord
<1>2. \/ c = 1 /\ n = 0
      \/ c = 0 /\ n = 1
      \/ c = -1 /\ n = 0
      \/ c = 0 /\ n = -1
  BY DEF Dirs, angle_for_npc_dir, Cos, Sin
<1>3. is_driveable_world_pos(npc.x + (c * 1 - n * 0) * Fractions, npc.y + (n * 1 + c * 0) * Fractions)
  <2>1. 1 \in 1 .. Reach(npc.dir, dir) /\ 0 \in -1 .. 1
    BY DEF Reach
  <2> QED
    BY <2>1 DEF can_go
<1> HIDE DEF c, n
<1>4. \A x, y : is_driveable_world_pos(x, y) =>
        /\ ToInt(x) \in 0 .. Cols - 1 /\ Rows - 1 - ToInt(y) \in 0 .. Rows - 1
  BY DEF is_driveable_world_pos, is_driveable_cell, Cells
<1>5. \A x1, y1, x2, y2 :
        is_driveable_world_pos(x1, y1) /\ ToInt(x1) = ToInt(x2) /\ ToInt(y1) = ToInt(y2)
          => is_driveable_world_pos(x2, y2)
  BY DEF is_driveable_world_pos
<1>6. /\ ToInt(npc.x) \in Nat /\ ToInt(npc.x + 1) \in {ToInt(npc.x), ToInt(npc.x + Fractions)}
      /\ npc.x # 0 => ToInt(npc.x - 1) \in {ToInt(npc.x), ToInt(npc.x - Fractions)}
      /\ npc.x = 0 => ToInt(npc.x - Fractions) = -1
  BY <1>1, OneFractionAhead
<1>7. /\ ToInt(npc.y) \in Nat /\ ToInt(npc.y + 1) \in {ToInt(npc.y), ToInt(npc.y + Fractions)}
      /\ npc.y # 0 => ToInt(npc.y - 1) \in {ToInt(npc.y), ToInt(npc.y - Fractions)}
      /\ npc.y = 0 => ToInt(npc.y - Fractions) = -1
  BY <1>1, OneFractionAhead
<1>8. Rows \in Nat \ {0} /\ Cols \in Nat \ {0}
  BY SizesAssumption
<1>9. npc.x + c >= 0 /\ npc.y + n >= 0 /\ is_driveable_world_pos(npc.x + c, npc.y + n)
  <2>1. CASE c = 1 /\ n = 0
    <3>1. is_driveable_world_pos(npc.x + Fractions, npc.y) /\ npc.x + c = npc.x + 1 /\ npc.y + n = npc.y
      BY <1>1, <1>3, <2>1
    <3> QED
      BY <1>1, <1>5, <1>6, <3>1
  <2>2. CASE c = 0 /\ n = 1
    <3>1. is_driveable_world_pos(npc.x, npc.y + Fractions) /\ npc.x + c = npc.x /\ npc.y + n = npc.y + 1
      BY <1>1, <1>3, <2>2
    <3> QED
      BY <1>1, <1>5, <1>7, <3>1
  <2>3. CASE c = -1 /\ n = 0
    <3>1. is_driveable_world_pos(npc.x - Fractions, npc.y) /\ npc.x + c = npc.x - 1 /\ npc.y + n = npc.y
      BY <1>1, <1>3, <2>3
    <3>2. npc.x # 0
      BY <1>4, <1>6, <1>8, <3>1
    <3> QED
      BY <1>1, <1>5, <1>6, <3>1, <3>2
  <2>4. CASE c = 0 /\ n = -1
    <3>1. is_driveable_world_pos(npc.x, npc.y - Fractions) /\ npc.x + c = npc.x /\ npc.y + n = npc.y - 1
      BY <1>1, <1>3, <2>4
    <3>2. npc.y # 0
      BY <1>4, <1>7, <1>8, <3>1
    <3> QED
      BY <1>1, <1>5, <1>7, <3>1, <3>2
  <2> QED
    BY <1>2, <2>1, <2>2, <2>3, <2>4
<1> QED
  BY <1>9 DEF c, n

-----------------------------------------------------------------------------
\* The cars at first.
LEMMA SpawnedCar ==
  ASSUME NEW m \in Maps, map = m, NEW parked \in BOOLEAN,
         NEW s \in m.npc_spawns \cup m.npc_spawns_park
  PROVE  /\ spawn_npc(s, parked) \in CarRecord
         /\ spawn_npc(s, parked).parked = parked
         /\ s.dir # "Down" /\ m.grid[<<s.row, s.col>>] \in DriveableCodes
              => OnCourse(spawn_npc(s, parked))
<1>1. <<s.row, s.col>> \in Cells /\ s.dir \in Dirs
  BY TrafficAssumption DEF Dirs
<1>2. s.col \in Nat /\ s.row \in Nat /\ Rows - 1 - s.row \in Nat
  BY <1>1, SizesAssumption DEF Cells
<1>3. /\ Fractions \in Nat \ {0, 1} /\ Fractions \div 2 \in 0 .. Fractions - 1
      /\ MIN_STEPS_BETWEEN_TURNS \in Nat
  BY TrafficAssumption
<1> DEFINE x == Fractions * s.col + Fractions \div 2
           y == Fractions * (Rows - 1 - s.row) + Fractions \div 2
<1>4. x \in Nat /\ y \in Nat
  BY <1>2, <1>3
<1>5. ToInt(x) = s.col /\ ToInt(y) = Rows - 1 - s.row
  <2>1. Fractions \in Nat \ {0} /\ Fractions \div 2 \in 0 .. Fractions - 1
    BY <1>3
  <2>2. \A a \in Int : (Fractions * a + Fractions \div 2) \div Fractions = a
    BY <2>1, InsideCell
  <2>3. x \div Fractions = s.col /\ y \div Fractions = Rows - 1 - s.row
    BY <1>2, <2>2
  <2> QED
    BY <1>4, <2>3 DEF ToInt
<1>6. spawn_angle(s.dir) \in Int /\ dir_from_angle(spawn_angle(s.dir)) \in Dirs
  BY <1>1 DEF Dirs, spawn_angle, dir_from_angle
<1> HIDE DEF x, y
<1>7. /\ spawn_npc(s, parked) \in CarRecord /\ spawn_npc(s, parked).parked = parked
      /\ spawn_npc(s, parked).x = x /\ spawn_npc(s, parked).y = y
      /\ spawn_npc(s, parked).angle = spawn_angle(s.dir)
      /\ spawn_npc(s, parked).dir = dir_from_angle(spawn_angle(s.dir))
  BY <1>3, <1>4, <1>6 DEF spawn_npc, CarRecord, x, y
<1>8. ASSUME s.dir # "Down", m.grid[<<s.row, s.col>>] \in DriveableCodes
      PROVE  OnCourse(spawn_npc(s, parked))
  <2>1. angle_for_npc_dir(dir_from_angle(spawn_angle(s.dir))) = spawn_angle(s.dir)
    BY <1>1, <1>8 DEF Dirs, spawn_angle, dir_from_angle, angle_for_npc_dir
  <2>2. Rows - 1 - (Rows - 1 - s.row) = s.row
    BY <1>2, SizesAssumption
  <2>3. is_driveable_world_pos(x, y)
    BY <1>1, <1>5, <1>8, <2>2 DEF is_driveable_world_pos, is_driveable_cell
  <2> QED
    BY <1>4, <1>7, <2>1, <2>3 DEF OnCourse
<1> QED
  BY <1>7, <1>8

LEMMA PickedAreFar ==
  ASSUME NEW defs, NEW count, NEW picked \in Picked(defs, count)
  PROVE  picked \subseteq filter_spawns_by_distance(defs) /\ picked \subseteq defs
BY DEF Picked, kSubset, filter_spawns_by_distance

LEMMA FirstTraffic ==
  ASSUME Init
  PROVE  TInv /\ ((\A m \in Maps : SpawnsOnRoad(m)) => NoneOffCourse)
<1>1. map \in Maps
  BY DEF Init
<1>2. PICK moving \in Picked(map.npc_spawns, MaxMoving), parking \in Picked(map.npc_spawns_park, MaxParked) :
        npcs = [s \in moving \cup parking |-> spawn_npc(s, s \in parking)]
  BY DEF Init, init_npcs
<1>3. /\ moving \subseteq map.npc_spawns /\ parking \subseteq map.npc_spawns_park
      /\ parking \subseteq filter_spawns_by_distance(map.npc_spawns_park)
  BY PickedAreFar
<1>4. ASSUME NEW s \in DOMAIN npcs
      PROVE  /\ npcs[s] \in CarRecord /\ npcs[s].parked = (s \in parking)
             /\ s.dir # "Down" /\ map.grid[<<s.row, s.col>>] \in DriveableCodes => OnCourse(npcs[s])
  <2>1. npcs[s] = spawn_npc(s, s \in parking) /\ (s \in parking) \in BOOLEAN
    BY <1>2
  <2>2. s \in map.npc_spawns \cup map.npc_spawns_park
    BY <1>2, <1>3
  <2> QED
    BY <1>1, <2>1, <2>2, SpawnedCar
<1>5. CarsTyped /\ ParkedFar
  BY <1>3, <1>4 DEF CarsTyped, ParkedFar
<1>6. ASSUME \A m \in Maps : SpawnsOnRoad(m) PROVE NoneOffCourse
  <2> SUFFICES ASSUME NEW s \in DOMAIN npcs, ~npcs[s].parked
               PROVE  s \in map.npc_spawns /\ (s.dir # "Down" => OnCourse(npcs[s]))
    BY DEF NoneOffCourse
  <2>1. s \in map.npc_spawns
    BY <1>2, <1>3, <1>4
  <2> QED
    BY <1>1, <1>4, <1>6, <2>1 DEF SpawnsOnRoad
<1> QED
  BY <1>1, <1>5, <1>6 DEF TInv

\* What a step makes of a car.
LEMMA WaysAreFree ==
  ASSUME NEW npc \in CarRecord, NEW dir \in Ways(npc)
  PROVE  dir \in Dirs /\ can_go(npc, dir)
<1>1. /\ npc.dir \in Dirs
      /\ left_of(npc.dir) \in Dirs /\ right_of(npc.dir) \in Dirs /\ opposite_of(npc.dir) \in Dirs
  <2>1. \A d \in Dirs : left_of(d) \in Dirs
    BY DEF Dirs, left_of
  <2>2. \A d \in Dirs : \E e \in Dirs : left_of(e) = d
    BY DEF Dirs, left_of
  <2>3. \A d \in Dirs : right_of(d) \in Dirs
    BY <2>2 DEF right_of
  <2>4. npc.dir \in Dirs
    BY DEF CarRecord
  <2> QED
    BY <2>1, <2>3, <2>4 DEF opposite_of
<1>2. \A d \in Options(npc) \cup Back(npc) : d \in Dirs /\ can_go(npc, d)
  BY <1>1 DEF Options, Back
<1>3. dir \in Options(npc) \cup Back(npc)
  BY DEF Ways
<1> QED
  BY <1>2, <1>3

LEMMA DriveMoves ==
  ASSUME NEW car \in CarRecord
  PROVE  /\ Drive(car) \in {car, Forward(car)}
         /\ Forward(car) \in CarRecord /\ Forward(car).parked = car.parked
         /\ Forward(car).destroyed = car.destroyed
         /\ Forward(car).dir = car.dir /\ Forward(car).angle = car.angle
         /\ Forward(car).x = car.x + Cos(car.angle) /\ Forward(car).y = car.y + Sin(car.angle)
<1>1. PICK c \in Int, n \in Int : c = Cos(car.angle) /\ n = Sin(car.angle)
  BY DEF Cos, Sin
<1>2. Forward(car) = [car EXCEPT !.x = @ + c, !.y = @ + n]
  BY <1>1 DEF Forward
<1>3. car.x + c \in Int /\ car.y + n \in Int
  BY DEF CarRecord
<1>4. /\ [car EXCEPT !.x = @ + c, !.y = @ + n] \in CarRecord
      /\ Forward(car).x = car.x + c /\ Forward(car).y = car.y + n
  BY <1>2, <1>3 DEF CarRecord
<1>5. /\ Forward(car).parked = car.parked /\ Forward(car).destroyed = car.destroyed
      /\ Forward(car).dir = car.dir /\ Forward(car).angle = car.angle
  BY <1>2 DEF CarRecord
<1>6. Drive(car) \in {car, Forward(car)}
  BY DEF Drive
<1> QED
  BY <1>1, <1>2, <1>4, <1>5, <1>6

LEMMA StepOfCar ==
  ASSUME NEW npc \in CarRecord, NEW next \in Updated(npc)
  PROVE  /\ next \in CarRecord /\ next.parked = npc.parked
         /\ OnCourse(npc) => OnCourse(next)
<1> DEFINE counted == CountStep(npc)
<1>1. /\ counted \in CarRecord /\ counted.parked = npc.parked
      /\ counted.x = npc.x /\ counted.y = npc.y /\ counted.dir = npc.dir /\ counted.angle = npc.angle
  BY TrafficAssumption DEF CountStep, CarRecord
<1>2. CASE next = npc
  BY <1>2
<1> HIDE DEF counted
<1>3. CASE next = [counted EXCEPT !.destroyed = TRUE]
  <2>1. /\ next \in CarRecord /\ next.parked = npc.parked /\ next.x = npc.x /\ next.y = npc.y
        /\ next.dir = npc.dir /\ next.angle = npc.angle
    BY <1>1, <1>3 DEF CarRecord
  <2> QED
    BY <2>1 DEF OnCourse
<1>4. ASSUME NEW dir \in Ways(counted), next = Drive(Turn(counted, dir))
      PROVE  /\ next \in CarRecord /\ next.parked = npc.parked
             /\ OnCourse(npc) => OnCourse(next)
  <2>1. dir \in Dirs /\ can_go(counted, dir)
    BY <1>1, WaysAreFree
  <2> DEFINE turned == Turn(counted, dir)
             angle == angle_for_npc_dir(dir)
  <2>2. angle \in Int /\ \A a : Cos(a) \in Int /\ Sin(a) \in Int
    BY <2>1 DEF Dirs, angle_for_npc_dir, Cos, Sin
  <2>3. /\ turned \in CarRecord /\ turned.parked = npc.parked /\ turned.dir = dir
        /\ turned.x = npc.x /\ turned.y = npc.y
        /\ OnCourse(npc) => turned.angle = angle
    BY <1>1, <2>1, <2>2 DEF Turn, CarRecord, OnCourse
  <2>6. next = Drive(turned)
    BY <1>4
  <2> HIDE DEF turned, angle
  <2>4. /\ next \in CarRecord /\ next.parked = npc.parked /\ next.dir = dir
        /\ next.angle = turned.angle
        /\ \/ next.x = npc.x /\ next.y = npc.y
           \/ next.x = npc.x + Cos(turned.angle) /\ next.y = npc.y + Sin(turned.angle)
    BY <2>3, <2>6, DriveMoves
  <2>5. ASSUME OnCourse(npc) PROVE OnCourse(next)
    <3>1. counted.x >= 0 /\ counted.y >= 0 /\ is_driveable_world_pos(counted.x, counted.y)
      BY <1>1, <2>5 DEF OnCourse
    <3>2. /\ counted.x + Cos(angle) >= 0 /\ counted.y + Sin(angle) >= 0
          /\ is_driveable_world_pos(counted.x + Cos(angle), counted.y + Sin(angle))
      BY <1>1, <2>1, <3>1, StepStaysOnRoad DEF angle
    <3> QED
      BY <1>1, <2>3, <2>4, <2>5, <3>2 DEF OnCourse, angle
  <2> QED
    BY <2>4, <2>5
<1> QED
  BY <1>2, <1>3, <1>4 DEF Updated, counted

\* Every step keeps the cars what they are, and those on course on course.
LEMMA StepsKeepCars ==
  ASSUME TInv, [Next]_nvars
  PROVE  /\ map' = map /\ DOMAIN npcs' = DOMAIN npcs
         /\ \A s \in DOMAIN npcs :
              /\ npcs'[s] \in CarRecord /\ npcs'[s].parked = npcs[s].parked
              /\ OnCourse(npcs[s]) => OnCourse(npcs'[s])
<1>1. \A s \in DOMAIN npcs : npcs[s] \in CarRecord
  BY DEF TInv, CarsTyped
<1>2. CASE update_npcs
  <2>1. /\ map' = map /\ DOMAIN npcs' = DOMAIN npcs
        /\ \A s \in DOMAIN npcs : npcs'[s] \in Updated(npcs[s])
    BY <1>2 DEF update_npcs
  <2> QED
    BY <1>1, <2>1, StepOfCar
<1>3. ASSUME NEW r \in DOMAIN npcs, ApplyDamage(r)
      PROVE  /\ map' = map /\ DOMAIN npcs' = DOMAIN npcs
             /\ \A s \in DOMAIN npcs :
                  /\ npcs'[s] \in CarRecord /\ npcs'[s].parked = npcs[s].parked
                  /\ OnCourse(npcs[s]) => OnCourse(npcs'[s])
  <2>1. map' = map /\ npcs' = [npcs EXCEPT ![r].destroyed = TRUE]
    BY <1>3 DEF ApplyDamage
  <2>2. \A car \in CarRecord :
          LET c == [car EXCEPT !.destroyed = TRUE]
          IN  /\ c \in CarRecord /\ c.parked = car.parked
              /\ c.x = car.x /\ c.y = car.y /\ c.dir = car.dir /\ c.angle = car.angle
    BY DEF CarRecord
  <2>3. /\ DOMAIN npcs' = DOMAIN npcs
        /\ \A s \in DOMAIN npcs :
             npcs'[s] = IF s = r THEN [npcs[s] EXCEPT !.destroyed = TRUE] ELSE npcs[s]
    BY <2>1
  <2> QED
    BY <1>1, <2>1, <2>2, <2>3 DEF OnCourse
<1>4. CASE UNCHANGED nvars
  BY <1>1, <1>4 DEF nvars
<1> QED
  BY <1>2, <1>3, <1>4 DEF Next

LEMMA StepsKeepTraffic ==
  /\ TInv /\ [Next]_nvars => TInv'
  /\ RInv /\ [Next]_nvars => RInv'
<1>1. ASSUME TInv, [Next]_nvars PROVE TInv'
  <2>1. /\ map' = map /\ DOMAIN npcs' = DOMAIN npcs
        /\ \A s \in DOMAIN npcs : npcs'[s] \in CarRecord /\ npcs'[s].parked = npcs[s].parked
    BY <1>1, StepsKeepCars
  <2>2. ParkedFar'
    BY <1>1, <2>1 DEF TInv, ParkedFar, filter_spawns_by_distance
  <2>3. CarsTyped'
    BY <2>1 DEF CarsTyped
  <2> QED
    BY <1>1, <2>1, <2>2, <2>3 DEF TInv
<1>2. ASSUME RInv, [Next]_nvars PROVE RInv'
  <2>1. /\ map' = map /\ DOMAIN npcs' = DOMAIN npcs
        /\ \A s \in DOMAIN npcs :
             /\ npcs'[s].parked = npcs[s].parked
             /\ OnCourse(npcs[s]) => OnCourse(npcs'[s])
    BY <1>2, StepsKeepCars DEF RInv
  <2>2. \A s \in DOMAIN npcs : OnCourse(npcs'[s]) => OnCourse(npcs[s])'
    BY <2>1 DEF OnCourse, is_driveable_world_pos, is_driveable_cell
  <2>3. NoneOffCourse'
    BY <1>2, <2>1, <2>2 DEF RInv, NoneOffCourse
  <2> QED
    BY <1>1, <1>2, <2>3 DEF RInv
<1> QED
  BY <1>1, <1>2

\* Only a car that is to start downwards does not look ahead.
LEMMA AheadIsNotDown ==
  ASSUME NEW s PROVE LooksAhead(s) => s.dir # "Down"
BY DEF LooksAhead, dir_from_angle, spawn_angle

LEMMA AheadIfNotDown ==
  ASSUME NEW s, s.dir \in Dirs, s.dir # "Down" PROVE LooksAhead(s)
BY DEF LooksAhead, dir_from_angle, spawn_angle, Dirs

LEMMA CourseIsOnRoad ==
  ASSUME RInv, NEW s \in DOMAIN npcs, s.dir # "Down"
  PROVE  KeepsToTheRoad(s)
BY DEF RInv, NoneOffCourse, OnCourse, KeepsToTheRoad, CellOf, is_driveable_world_pos

\* On a map whose spawns are on a road, a car that looked ahead at first keeps
\* to the road, whatever it and the others choose and whoever is hit.
THEOREM RoadsKeepTraffic ==
  ASSUME \A m \in Maps : SpawnsOnRoad(m)
  PROVE  Spec => []TrafficKeepsToTheRoad
<1>1. Init => RInv
  BY FirstTraffic DEF RInv
<1>2. RInv => TrafficKeepsToTheRoad
  BY CourseIsOnRoad, AheadIsNotDown DEF TrafficKeepsToTheRoad
<1> QED
  BY <1>1, <1>2, StepsKeepTraffic, PTL DEF Spec

-----------------------------------------------------------------------------
\* A car sees the cells around it.  A whole number of cells further on is that
\* many cells further on; but one below zero may be taken for zero.
LEMMA CellsFurther ==
  ASSUME NEW x \in Nat, NEW k \in Int
  PROVE  /\ ToInt(x) \in Nat /\ ToInt(x + k * Fractions) \in Int
         /\ ToInt(x) + k >= 0 => ToInt(x + k * Fractions) = ToInt(x) + k
         /\ ToInt(x) + k = -1 => ToInt(x + k * Fractions) \in {-1, 0}
         /\ ToInt(x) + k < -1 => ToInt(x + k * Fractions) < 0
<1> DEFINE F == Fractions
           q == x \div F
           r == x % F
           p == x + k * F
<1>1. F \in Nat \ {0, 1}
  BY TrafficAssumption
<1>2. q \in Nat /\ r \in 0 .. F - 1 /\ x = F * q + r
  <2> HIDE DEF F
  <2> QED
    BY <1>1
<1>3. ToInt(x) = q /\ q \in Nat
  BY <1>1, <1>2 DEF ToInt
<1> HIDE DEF F, q, r
<1>4. p \in Int /\ p = F * (q + k) + r
  BY <1>1, <1>2
<1>5. \A a \in Nat, b \in 0 .. F - 1 : F * a + b \in Nat /\ (F * a + b) \div F = a
  BY <1>1
<1>6. ToInt(p) = IF p >= 0 THEN p \div F ELSE -((-p) \div F)
  BY DEF ToInt, F
<1> HIDE DEF p
<1>7. ASSUME q + k >= 0 PROVE ToInt(p) = q + k
  <2>1. q + k \in Nat
    BY <1>2, <1>7
  <2>2. p \in Nat /\ p \div F = q + k
    BY <1>2, <1>4, <1>5, <2>1
  <2> QED
    BY <1>6, <2>2
<1>8. ASSUME q + k = -1 PROVE ToInt(p) \in {-1, 0}
  <2>1. p = r - F
    BY <1>1, <1>2, <1>4, <1>8
  <2>2. -p \in 1 .. F /\ ~(p >= 0)
    BY <1>1, <1>2, <2>1
  <2>3. \A b \in 1 .. F : b \div F \in {0, 1}
    BY <1>1
  <2> QED
    BY <1>6, <2>2, <2>3
<1>9. ASSUME q + k < -1 PROVE ToInt(p) < 0
  <2>1. PICK n \in Nat : q + k = -(n + 2)
    <3>1. -(q + k) - 2 \in Nat /\ q + k = -((-(q + k) - 2) + 2)
      BY <1>2, <1>9
    <3> QED
      BY <3>1
  <2>2. -p = F * n + F + (F - r)
    <3>1. F * (-(n + 2)) = -(F * n) - F - F
      BY <1>1, <2>1
    <3> QED
      BY <1>1, <1>2, <1>4, <2>1, <3>1
  <2>3. F * n \in Nat /\ F - r \in 1 .. F
    BY <1>1, <1>2, <2>1
  <2>4. -p \in Nat /\ -p > F /\ ~(p >= 0)
    BY <1>1, <1>4, <2>2, <2>3
  <2>5. \A b \in Nat : b > F => b \div F >= 1 /\ b \div F \in Int
    BY <1>1
  <2>6. (-p) \div F >= 1 /\ (-p) \div F \in Int
    BY <2>4, <2>5
  <2> QED
    BY <1>6, <2>4, <2>6
<1>10. ToInt(p) \in Int
  <2>1. \A b \in Nat : b \div F \in Int
    BY <1>1
  <2>2. p >= 0 \/ -p \in Nat
    BY <1>4
  <2> QED
    BY <1>4, <1>6, <2>1, <2>2
<1> QED
  BY <1>3, <1>7, <1>8, <1>9, <1>10 DEF p, F

LEMMA RoadIsDriveable ==
  ASSUME NEW col, NEW row
  PROVE  is_driveable_cell(col, row) <=> <<row, col>> \in Road(map)
BY DEF is_driveable_cell, Road

\* What a probe k columns and l rows away reads.
LEMMA ProbeReads ==
  ASSUME NEW x \in Nat, NEW y \in Nat, NEW k \in Int, NEW l \in Int
  PROVE  LET cell == <<(Rows - 1 - ToInt(y)) - l, ToInt(x) + k>>
             free == is_driveable_world_pos(x + k * Fractions, y + l * Fractions)
         IN  (cell \in Road(map) => free) /\ (free => OnMap(cell) \in Road(map))
<1> DEFINE cx == ToInt(x)
           cy == ToInt(y)
           px == ToInt(x + k * Fractions)
           py == ToInt(y + l * Fractions)
           cell == <<(Rows - 1 - cy) - l, cx + k>>
           read == <<Rows - 1 - py, px>>
<1>1. Rows \in Nat \ {0} /\ Cols \in Nat \ {0}
  BY SizesAssumption
<1>2. /\ cx \in Nat /\ px \in Int
      /\ cx + k >= 0 => px = cx + k
      /\ cx + k = -1 => px \in {-1, 0}
      /\ cx + k < -1 => px < 0
  BY CellsFurther
<1>3. /\ cy \in Nat /\ py \in Int
      /\ cy + l >= 0 => py = cy + l
      /\ cy + l = -1 => py \in {-1, 0}
      /\ cy + l < -1 => py < 0
  BY CellsFurther
<1>4. is_driveable_world_pos(x + k * Fractions, y + l * Fractions) <=> read \in Road(map)
  BY RoadIsDriveable DEF is_driveable_world_pos
<1> HIDE DEF cx, cy, px, py
<1>5. \A c \in Road(map) : c[1] \in 0 .. Rows - 1 /\ c[2] \in 0 .. Cols - 1
  BY DEF Road, Cells
<1>6. ASSUME cell \in Road(map) PROVE read \in Road(map)
  <2>1. (Rows - 1 - cy) - l \in 0 .. Rows - 1 /\ cx + k \in 0 .. Cols - 1
    BY <1>5, <1>6
  <2>2. py = cy + l /\ px = cx + k
    BY <1>1, <1>2, <1>3, <2>1
  <2>3. Rows - 1 - py = (Rows - 1 - cy) - l
    BY <1>1, <1>3, <2>2
  <2> QED
    BY <1>6, <2>2, <2>3
<1>7. ASSUME read \in Road(map) PROVE OnMap(cell) \in Road(map)
  <2>1. Rows - 1 - py \in 0 .. Rows - 1 /\ px \in 0 .. Cols - 1
    BY <1>5, <1>7
  <2>2. px = IF cx + k = -1 THEN 0 ELSE cx + k
    BY <1>1, <1>2, <2>1
  <2>3. cy + l >= -1 /\ (cy + l >= 0 => py = cy + l) /\ (cy + l = -1 => py = 0)
    <3>1. py >= 0
      BY <1>1, <1>3, <2>1
    <3> QED
      BY <1>3, <3>1
  <2>4. Rows - 1 - py = IF (Rows - 1 - cy) - l = Rows THEN Rows - 1 ELSE (Rows - 1 - cy) - l
    BY <1>1, <1>3, <2>3
  <2> QED
    BY <1>7, <2>2, <2>4 DEF OnMap
<1> QED
  BY <1>4, <1>6, <1>7 DEF cx, cy, px, py

\* Where three lanes of road are free the car sees it, and where it sees them
\* free they are, but for the cells over the edge.
LEMMA CarSees ==
  ASSUME NEW npc \in CarRecord, npc.x >= 0, npc.y >= 0, NEW dir \in Dirs
  PROVE  LET cells == Lanes(CellOf(npc), dir, Reach(npc.dir, dir))
         IN  /\ cells \subseteq Road(map) => can_go(npc, dir)
             /\ can_go(npc, dir) => \A cell \in cells : OnMap(cell) \in Road(map)
<1> DEFINE angle == angle_for_npc_dir(dir)
           far == 1 .. Reach(npc.dir, dir)
           K(d, side) == Cos(angle) * d - Sin(angle) * side
           L(d, side) == Sin(angle) * d + Cos(angle) * side
           Free(d, side) ==
             is_driveable_world_pos(npc.x + K(d, side) * Fractions, npc.y + L(d, side) * Fractions)
           At(d, side) == Ahead(CellOf(npc), dir, d, side)
<1>1. npc.x \in Nat /\ npc.y \in Nat
  BY DEF CarRecord
<1>2. \A d \in far, side \in -1 .. 1 : K(d, side) \in Int /\ L(d, side) \in Int
  BY DEF Dirs, angle_for_npc_dir, Cos, Sin, Reach
<1>3. can_go(npc, dir) <=> \A d \in far, side \in -1 .. 1 : Free(d, side)
  BY Zenon DEF can_go
<1>4. \A d, side : At(d, side)
                     = <<(Rows - 1 - ToInt(npc.y)) - L(d, side), ToInt(npc.x) + K(d, side)>>
  BY DEF Ahead, CellOf
<1>5. Lanes(CellOf(npc), dir, Reach(npc.dir, dir)) = {At(d, side) : d \in far, side \in -1 .. 1}
  BY DEF Lanes
<1>6. ASSUME NEW d \in far, NEW side \in -1 .. 1
      PROVE  /\ At(d, side) \in Road(map) => Free(d, side)
             /\ Free(d, side) => OnMap(At(d, side)) \in Road(map)
  <2>1. K(d, side) \in Int /\ L(d, side) \in Int
    BY <1>2
  <2>2. At(d, side) = <<(Rows - 1 - ToInt(npc.y)) - L(d, side), ToInt(npc.x) + K(d, side)>>
    BY <1>4
  <2> HIDE DEF K, L, At
  <2> QED
    BY <1>1, <2>1, <2>2, ProbeReads
<1> HIDE DEF far, Free, At
<1> QED
  BY <1>3, <1>5, <1>6

\* A car that drives comes to the cell ahead or stays in its own.
LEMMA DrivesAhead ==
  ASSUME NEW npc \in CarRecord, npc.x >= 0, npc.y >= 0, is_driveable_world_pos(npc.x, npc.y),
         NEW dir \in Dirs, can_go(npc, dir), NEW next \in CarRecord,
         next.x = npc.x + Cos(angle_for_npc_dir(dir)), next.y = npc.y + Sin(angle_for_npc_dir(dir))
  PROVE  CellOf(next) \in {CellOf(npc), Ahead(CellOf(npc), dir, 1, 0)} \cap Road(map)
<1> DEFINE c == Cos(angle_for_npc_dir(dir))
           n == Sin(angle_for_npc_dir(dir))
           cx == ToInt(npc.x)
           cy == ToInt(npc.y)
           nx == ToInt(npc.x + c)
           ny == ToInt(npc.y + n)
<1>1. npc.x \in Nat /\ npc.y \in Nat /\ Rows \in Nat \ {0}
  BY SizesAssumption DEF CarRecord
<1>2. npc.x + c >= 0 /\ npc.y + n >= 0 /\ is_driveable_world_pos(npc.x + c, npc.y + n)
  BY StepStaysOnRoad
<1>3. CellOf(next) = <<Rows - 1 - ny, nx>> /\ CellOf(npc) = <<Rows - 1 - cy, cx>>
  BY DEF CellOf
<1>4. CellOf(next) \in Road(map)
  BY <1>2, <1>3, RoadIsDriveable DEF is_driveable_world_pos
<1>5. Ahead(CellOf(npc), dir, 1, 0) = <<(Rows - 1 - cy) - (n * 1 + c * 0), cx + (c * 1 - n * 0)>>
  BY <1>3 DEF Ahead
<1>6. \/ c = 1 /\ n = 0
      \/ c = 0 /\ n = 1
      \/ c = -1 /\ n = 0
      \/ c = 0 /\ n = -1
  BY DEF Dirs, angle_for_npc_dir, Cos, Sin
<1>7. \A x \in Nat : /\ ToInt(x) \in Nat /\ ToInt(x + 1) \in {ToInt(x), ToInt(x) + 1}
                     /\ x # 0 => ToInt(x - 1) \in {ToInt(x), ToInt(x) - 1}
  <2> SUFFICES ASSUME NEW x \in Nat
               PROVE  /\ ToInt(x) \in Nat /\ ToInt(x + 1) \in {ToInt(x), ToInt(x) + 1}
                      /\ x # 0 => ToInt(x - 1) \in {ToInt(x), ToInt(x) - 1}
    OBVIOUS
  <2>1. Fractions \in Nat
    BY TrafficAssumption
  <2>2. /\ ToInt(x) \in Nat
        /\ ToInt(x) + 1 >= 0 => ToInt(x + 1 * Fractions) = ToInt(x) + 1
    BY CellsFurther
  <2>3. PICK k \in Int : k = -1
    OBVIOUS
  <2>7. /\ ToInt(x) + k >= 0 => ToInt(x + k * Fractions) = ToInt(x) + k
        /\ ToInt(x) + k = -1 => ToInt(x + k * Fractions) \in {-1, 0}
    BY CellsFurther
  <2>4. /\ ToInt(x + 1) \in {ToInt(x), ToInt(x + Fractions)}
        /\ x # 0 => ToInt(x - 1) \in {ToInt(x), ToInt(x - Fractions)}
    BY OneFractionAhead
  <2>5. x + 1 * Fractions = x + Fractions /\ x + k * Fractions = x - Fractions
    BY <2>1, <2>3
  <2> QED
    BY <2>2, <2>3, <2>4, <2>5, <2>7
<1> HIDE DEF c, n
<1>8. \/ nx \in {cx, cx + 1} /\ ny = cy /\ c = 1 /\ n = 0
      \/ nx \in {cx, cx - 1} /\ ny = cy /\ c = -1 /\ n = 0
      \/ nx = cx /\ ny \in {cy, cy + 1} /\ c = 0 /\ n = 1
      \/ nx = cx /\ ny \in {cy, cy - 1} /\ c = 0 /\ n = -1
  <2>1. CASE c = 1 /\ n = 0
    BY <1>1, <1>7, <2>1
  <2>2. CASE c = 0 /\ n = 1
    BY <1>1, <1>7, <2>2
  <2>3. CASE c = -1 /\ n = 0
    <3>1. npc.x + c = npc.x - 1 /\ npc.x # 0 /\ npc.y + n = npc.y
      BY <1>1, <1>2, <2>3
    <3> QED
      BY <1>1, <1>7, <2>3, <3>1
  <2>4. CASE c = 0 /\ n = -1
    <3>1. npc.y + n = npc.y - 1 /\ npc.y # 0 /\ npc.x + c = npc.x
      BY <1>1, <1>2, <2>4
    <3> QED
      BY <1>1, <1>7, <2>4, <3>1
  <2> QED
    BY <1>6, <2>1, <2>2, <2>3, <2>4
<1>9. cx \in Nat /\ cy \in Nat
  BY <1>1, <1>7
<1> HIDE DEF cx, cy, nx, ny
<1>10. CellOf(next) \in {CellOf(npc), Ahead(CellOf(npc), dir, 1, 0)}
  BY <1>1, <1>3, <1>5, <1>8, <1>9
<1> QED
  BY <1>4, <1>10

\* A way that is free is among the ways of a car or, if it leads back, is taken
\* when nothing else is left.
LEMMA SomeWay ==
  ASSUME NEW npc \in CarRecord, NEW dir \in Dirs, can_go(npc, dir)
  PROVE  Ways(npc) # {}
<1>1. npc.dir \in Dirs
  BY DEF CarRecord
<1>2. \A d \in Dirs : left_of(right_of(d)) = d /\ right_of(d) \in Dirs
  <2>1. \A d \in Dirs : \E e \in Dirs : left_of(e) = d
    BY DEF Dirs, left_of
  <2> QED
    BY <2>1 DEF right_of
<1>3. \A d \in Dirs : Dirs = {d, left_of(d), right_of(d), opposite_of(d)}
  BY <1>2 DEF Dirs, left_of, opposite_of
<1>4. dir \in {npc.dir, left_of(npc.dir), right_of(npc.dir)} \cup {opposite_of(npc.dir)}
  BY <1>1, <1>3
<1>5. dir \in Options(npc) \/ dir \in Back(npc)
  BY <1>4 DEF Options, Back
<1> QED
  BY <1>5 DEF Ways

-----------------------------------------------------------------------------
\* The invariant: the cars that drive are at places with room.
Roomy(m) == CHOOSE places \in SUBSET (Cells \X Dirs) : RoomOn(m, places)
AtRoomyPlace(npc) == <<CellOf(npc), npc.dir>> \in Roomy(map)
RoomInv ==
  \A s \in DOMAIN npcs :
    /\ npcs[s].parked => NeverStuck(s)
    /\ ~npcs[s].parked /\ s.dir # "Down" => AtRoomyPlace(npcs[s]) /\ NeverStuck(s)

LEMMA RoomyPlaces ==
  ASSUME NEW m, RoomToDrive(m)
  PROVE  Roomy(m) \subseteq Cells \X Dirs /\ RoomOn(m, Roomy(m))
BY DEF RoomToDrive, Roomy

\* A car on course at a place with room goes on to such a place, unharmed.
LEMMA RoomyStep ==
  ASSUME RoomToDrive(map), NEW npc \in CarRecord, OnCourse(npc), AtRoomyPlace(npc), ~npc.parked,
         NEW next \in Updated(npc)
  PROVE  AtRoomyPlace(next) /\ next.destroyed = npc.destroyed
<1> DEFINE counted == CountStep(npc)
           place == <<CellOf(npc), npc.dir>>
<1>1. /\ counted \in CarRecord /\ counted.parked = npc.parked /\ counted.destroyed = npc.destroyed
      /\ counted.x = npc.x /\ counted.y = npc.y /\ counted.dir = npc.dir /\ counted.angle = npc.angle
  BY TrafficAssumption DEF CountStep, CarRecord
<1>2. CellOf(counted) = CellOf(npc)
  BY <1>1 DEF CellOf
<1>3. counted.x >= 0 /\ counted.y >= 0 /\ is_driveable_world_pos(counted.x, counted.y)
  BY <1>1 DEF OnCourse
<1>4. place \in Roomy(map) /\ HasRoom(map, place) /\ MayCome(map, place) \subseteq Roomy(map)
  <2>1. RoomOn(map, Roomy(map))
    BY RoomyPlaces
  <2> QED
    BY <2>1 DEF RoomOn, AtRoomyPlace
<1>5. CASE npc.destroyed /\ next = npc
  BY <1>5
<1> HIDE DEF counted
<1>6. Ways(counted) # {}
  <2>1. PICK dir \in Dirs : Lanes(CellOf(npc), dir, Reach(npc.dir, dir)) \subseteq Road(map)
    BY <1>4 DEF HasRoom
  <2>2. can_go(counted, dir)
    BY <1>1, <1>2, <1>3, <2>1, CarSees
  <2> QED
    BY <1>1, <2>2, SomeWay
<1>7. ASSUME NEW dir \in Ways(counted), next = Drive(Turn(counted, dir))
      PROVE  AtRoomyPlace(next) /\ next.destroyed = npc.destroyed
  <2>1. dir \in Dirs /\ can_go(counted, dir)
    BY <1>1, WaysAreFree
  <2> DEFINE turned == Turn(counted, dir)
             angle == angle_for_npc_dir(dir)
  <2>2. angle \in Int
    BY <2>1 DEF Dirs, angle_for_npc_dir
  <2>3. /\ turned \in CarRecord /\ turned.dir = dir /\ turned.destroyed = npc.destroyed
        /\ turned.x = counted.x /\ turned.y = counted.y /\ turned.angle = angle
    BY <1>1, <2>1, <2>2 DEF Turn, CarRecord, OnCourse
  <2>4. next = Drive(turned)
    BY <1>7
  <2>5. next.destroyed = turned.destroyed
    BY <2>3, <2>4, DriveMoves
  <2> HIDE DEF turned, angle
  <2>6. /\ next \in CarRecord /\ next.dir = dir
        /\ \/ next.x = counted.x /\ next.y = counted.y
           \/ next.x = counted.x + Cos(angle) /\ next.y = counted.y + Sin(angle)
    BY <2>3, <2>4, DriveMoves
  <2>7. CellOf(next) \in {CellOf(npc), Ahead(CellOf(npc), dir, 1, 0)} \cap Road(map)
    <3>1. CASE next.x = counted.x /\ next.y = counted.y
      <4>1. CellOf(next) = CellOf(npc)
        BY <1>1, <3>1 DEF CellOf
      <4>2. CellOf(npc) \in Road(map)
        BY <1>1, <1>3, RoadIsDriveable DEF CellOf, is_driveable_world_pos
      <4> QED
        BY <4>1, <4>2
    <3>2. CASE next.x = counted.x + Cos(angle) /\ next.y = counted.y + Sin(angle)
      <4>1. CellOf(next) \in {CellOf(counted), Ahead(CellOf(counted), dir, 1, 0)} \cap Road(map)
        BY <1>1, <1>3, <2>1, <2>6, <3>2, DrivesAhead DEF angle
      <4> QED
        BY <1>2, <4>1
    <3> QED
      BY <2>6, <3>1, <3>2
  <2>8. MayGo(map, place, dir)
    <3>1. \A cell \in Lanes(CellOf(npc), dir, Reach(npc.dir, dir)) : OnMap(cell) \in Road(map)
      BY <1>1, <1>2, <1>3, <2>1, CarSees
    <3> QED
      BY <3>1 DEF MayGo
  <2>9. <<CellOf(next), dir>> \in MayCome(map, place)
    <3>1. MayCome(map, place)
            = UNION {({CellOf(npc), Ahead(CellOf(npc), d, 1, 0)} \cap Road(map)) \X {d} :
                       d \in {e \in Dirs : MayGo(map, place, e)}}
      BY DEF MayCome
    <3>2. dir \in {e \in Dirs : MayGo(map, place, e)}
      BY <2>1, <2>8
    <3>3. <<CellOf(next), dir>>
            \in ({CellOf(npc), Ahead(CellOf(npc), dir, 1, 0)} \cap Road(map)) \X {dir}
      BY <2>7
    <3> QED
      BY <3>1, <3>2, <3>3
  <2> QED
    BY <1>4, <2>3, <2>5, <2>6, <2>9 DEF AtRoomyPlace
<1> QED
  BY <1>5, <1>6, <1>7 DEF Updated, counted

\* A car that drives is put where its spawn says and looks as it says, unless
\* that is down.
LEMMA SpawnedAt ==
  ASSUME NEW m \in Maps, NEW s \in m.npc_spawns, s.dir # "Down", NEW parked
  PROVE  /\ CellOf(spawn_npc(s, parked)) = <<s.row, s.col>>
         /\ spawn_npc(s, parked).dir = s.dir
<1>1. <<s.row, s.col>> \in Cells /\ s.dir \in Dirs
  BY TrafficAssumption DEF Dirs
<1>2. s.col \in Nat /\ s.row \in Nat /\ Rows - 1 - s.row \in Nat /\ Rows \in Nat
  BY <1>1, SizesAssumption DEF Cells
<1>3. Fractions \in Nat \ {0} /\ Fractions \div 2 \in 0 .. Fractions - 1
  BY TrafficAssumption
<1>4. \A a \in Nat : /\ Fractions * a + Fractions \div 2 \in Nat
                     /\ (Fractions * a + Fractions \div 2) \div Fractions = a
  <2>1. \A a \in Int : (Fractions * a + Fractions \div 2) \div Fractions = a
    BY <1>3, InsideCell
  <2>2. \A a \in Nat : Fractions * a + Fractions \div 2 \in Nat
    BY <1>3
  <2> QED
    BY <2>1, <2>2
<1>5. \A a \in Nat : ToInt(Fractions * a + Fractions \div 2) = a
  BY <1>4 DEF ToInt
<1>6. /\ spawn_npc(s, parked).x = Fractions * s.col + Fractions \div 2
      /\ spawn_npc(s, parked).y = Fractions * (Rows - 1 - s.row) + Fractions \div 2
      /\ spawn_npc(s, parked).dir = dir_from_angle(spawn_angle(s.dir))
  BY DEF spawn_npc
<1>7. dir_from_angle(spawn_angle(s.dir)) = s.dir
  BY <1>1 DEF Dirs, spawn_angle, dir_from_angle
<1>8. Rows - 1 - (Rows - 1 - s.row) = s.row
  BY <1>2
<1> QED
  BY <1>2, <1>5, <1>6, <1>7, <1>8 DEF CellOf

\* The cars at first.
LEMMA RoomAtFirst ==
  ASSUME Init, \A m \in Maps : RoomToDrive(m)
  PROVE  RoomInv
<1>1. map \in Maps /\ RoomToDrive(map)
  BY DEF Init
<1>2. PICK moving \in Picked(map.npc_spawns, MaxMoving), parking \in Picked(map.npc_spawns_park, MaxParked) :
        npcs = [s \in moving \cup parking |-> spawn_npc(s, s \in parking)]
  BY DEF Init, init_npcs
<1>3. moving \subseteq map.npc_spawns
  BY PickedAreFar
<1>4. ASSUME NEW s \in DOMAIN npcs
      PROVE  npcs[s] = spawn_npc(s, s \in parking)
  BY <1>2
<1>5. \A s, parked : spawn_npc(s, parked).destroyed = FALSE /\ spawn_npc(s, parked).parked = parked
  BY DEF spawn_npc
<1>6. \A s \in DOMAIN npcs : NeverStuck(s)
  BY <1>4, <1>5 DEF NeverStuck
<1>7. ASSUME NEW s \in DOMAIN npcs, ~npcs[s].parked, s.dir # "Down" PROVE AtRoomyPlace(npcs[s])
  <2>1. s \in map.npc_spawns
    BY <1>2, <1>3, <1>4, <1>5, <1>7
  <2>2. CellOf(npcs[s]) = <<s.row, s.col>> /\ npcs[s].dir = s.dir
    BY <1>1, <1>4, <1>7, <2>1, SpawnedAt
  <2>3. <<<<s.row, s.col>>, s.dir>> \in Places(map)
    <3>1. s.dir \in Dirs
      BY <1>1, <2>1, TrafficAssumption DEF Dirs
    <3> QED
      BY <1>7, <2>1, <3>1, AheadIfNotDown DEF Places
  <2>4. Places(map) \subseteq Roomy(map)
    BY <1>1, RoomyPlaces DEF RoomOn
  <2> QED
    BY <2>2, <2>3, <2>4 DEF AtRoomyPlace
<1> QED
  BY <1>6, <1>7 DEF RoomInv

\* A step keeps the cars at places with room.
LEMMA RoomStep ==
  ASSUME RInv, RoomInv, RoomToDrive(map), [Next]_nvars
  PROVE  RoomInv'
<1>1. /\ map' = map /\ DOMAIN npcs' = DOMAIN npcs
      /\ \A s \in DOMAIN npcs : npcs[s] \in CarRecord /\ npcs'[s].parked = npcs[s].parked
  BY StepsKeepCars DEF RInv, TInv, CarsTyped
<1>2. ASSUME NEW s \in DOMAIN npcs, ~npcs[s].parked, s.dir # "Down"
      PROVE  OnCourse(npcs[s]) /\ AtRoomyPlace(npcs[s])
  BY <1>2 DEF RInv, NoneOffCourse, RoomInv
<1>3. ASSUME \A s \in DOMAIN npcs :
               npcs[s].parked \/ s.dir # "Down" =>
                 /\ NeverStuck(s) /\ npcs'[s].destroyed => s \in hit'
                 /\ ~npcs[s].parked => AtRoomyPlace(npcs'[s])
      PROVE  RoomInv'
  <2>1. \A s \in DOMAIN npcs : AtRoomyPlace(npcs'[s]) => AtRoomyPlace(npcs[s])'
    BY <1>1 DEF AtRoomyPlace, CellOf
  <2> QED
    BY <1>1, <1>3, <2>1 DEF RoomInv, NeverStuck
<1>4. CASE update_npcs
  <2>1. hit' = hit /\ \A s \in DOMAIN npcs : npcs'[s] \in Updated(npcs[s])
    BY <1>4 DEF update_npcs
  <2> SUFFICES ASSUME NEW s \in DOMAIN npcs, npcs[s].parked \/ s.dir # "Down"
               PROVE  /\ NeverStuck(s) /\ npcs'[s].destroyed => s \in hit'
                      /\ ~npcs[s].parked => AtRoomyPlace(npcs'[s])
    BY <1>3
  <2>2. CASE npcs[s].parked
    BY <2>1, <2>2 DEF Updated, NeverStuck
  <2>3. CASE ~npcs[s].parked /\ s.dir # "Down"
    <3>1. AtRoomyPlace(npcs'[s]) /\ npcs'[s].destroyed = npcs[s].destroyed
      BY <1>1, <1>2, <2>1, <2>3, RoomyStep
    <3> QED
      BY <2>1, <3>1 DEF NeverStuck
  <2> QED
    BY <2>2, <2>3
<1>5. ASSUME NEW r \in DOMAIN npcs, ApplyDamage(r) PROVE RoomInv'
  <2>1. npcs' = [npcs EXCEPT ![r].destroyed = TRUE] /\ hit' = hit \cup {r}
    BY <1>5 DEF ApplyDamage
  <2>2. \A s \in DOMAIN npcs :
          /\ CellOf(npcs'[s]) = CellOf(npcs[s]) /\ npcs'[s].dir = npcs[s].dir
          /\ s # r => npcs'[s] = npcs[s]
    BY <1>1, <2>1 DEF CellOf, CarRecord
  <2> QED
    BY <1>2, <1>3, <2>1, <2>2 DEF AtRoomyPlace, NeverStuck
<1>6. CASE UNCHANGED nvars
  BY <1>2, <1>3, <1>6 DEF nvars, NeverStuck
<1> QED
  BY <1>4, <1>5, <1>6 DEF Next

\* On a map with room to drive and its spawns on the road, nothing but a
\* contact stops a car that looked ahead at first: it always has a way.
THEOREM RoomKeepsTrafficGoing ==
  ASSUME \A m \in Maps : SpawnsOnRoad(m) /\ RoomToDrive(m)
  PROVE  Spec => []TrafficNeverStuck
<1>1. Init => RInv /\ RoomInv
  BY FirstTraffic, RoomAtFirst DEF RInv
<1>2. RInv /\ RoomInv /\ [Next]_nvars => RInv' /\ RoomInv'
  <2>1. RInv => RoomToDrive(map)
    BY DEF RInv, TInv
  <2> QED
    BY <2>1, RoomStep, StepsKeepTraffic
<1>3. RoomInv => TrafficNeverStuck
  BY AheadIsNotDown DEF RoomInv, TrafficNeverStuck
<1> QED
  BY <1>1, <1>2, <1>3, PTL DEF Spec

-----------------------------------------------------------------------------
\* The places of the players.  The tip of a start that is there in full is the
\* corner where the first row of cars stands.
LEMMA TipOfBox ==
  ASSUME NEW r \in Nat, NEW c \in Nat, NEW h \in Nat \ {0}, NEW w \in Nat \ {0}
  PROVE  /\ Punta(Box(r, c, h, w), "derecha") = <<r, c + w - 1>>
         /\ Punta(Box(r, c, h, w), "izquierda") = <<r, c>>
         /\ Punta(Box(r, c, h, w), "abajo") = <<r + h - 1, c>>
         /\ Punta(Box(r, c, h, w), "arriba") = <<r, c + w - 1>>
<1> DEFINE pole == Box(r, c, h, w)
<1>1. \A p \in pole : /\ p = <<p[1], p[2]>>
                      /\ p[1] \in r .. r + h - 1 /\ p[2] \in c .. c + w - 1
  BY DEF Box
<1>2. <<r, c + w - 1>> \in pole /\ <<r, c>> \in pole /\ <<r + h - 1, c>> \in pole
  BY DEF Box
<1> HIDE DEF pole
<1>3. /\ Punta(pole, "derecha") = <<r, c + w - 1>>
      /\ Punta(pole, "arriba") = <<r, c + w - 1>>
  <2> DEFINE Foremost(p) == \A q \in pole : q[2] < p[2] \/ (q[2] = p[2] /\ q[1] >= p[1])
  <2>1. Foremost(<<r, c + w - 1>>)
    BY <1>1
  <2>2. ASSUME NEW p \in pole, Foremost(p) PROVE p = <<r, c + w - 1>>
    BY <1>1, <1>2, <2>2
  <2>3. /\ Punta(pole, "derecha") = CHOOSE p \in pole : Foremost(p)
        /\ Punta(pole, "arriba") = CHOOSE p \in pole : Foremost(p)
    BY DEF Punta
  <2> HIDE DEF Foremost
  <2> QED
    BY <1>2, <2>1, <2>2, <2>3
<1>4. Punta(pole, "izquierda") = <<r, c>>
  <2> DEFINE Foremost(p) == \A q \in pole : q[2] > p[2] \/ (q[2] = p[2] /\ q[1] >= p[1])
  <2>1. Foremost(<<r, c>>)
    BY <1>1
  <2>2. ASSUME NEW p \in pole, Foremost(p) PROVE p = <<r, c>>
    BY <1>1, <1>2, <2>2
  <2>3. Punta(pole, "izquierda") = CHOOSE p \in pole : Foremost(p)
    BY DEF Punta
  <2> HIDE DEF Foremost
  <2> QED
    BY <1>2, <2>1, <2>2, <2>3
<1>5. Punta(pole, "abajo") = <<r + h - 1, c>>
  <2> DEFINE Foremost(p) == \A q \in pole : q[2] > p[2] \/ (q[2] = p[2] /\ q[1] <= p[1])
  <2>1. Foremost(<<r + h - 1, c>>)
    BY <1>1
  <2>2. ASSUME NEW p \in pole, Foremost(p) PROVE p = <<r + h - 1, c>>
    BY <1>1, <1>2, <2>2
  <2>3. Punta(pole, "abajo") = CHOOSE p \in pole : Foremost(p)
    BY DEF Punta
  <2> HIDE DEF Foremost
  <2> QED
    BY <1>2, <2>1, <2>2, <2>3
<1> QED
  BY <1>3, <1>4, <1>5 DEF pole

LEMMA TipsOfStart ==
  ASSUME NEW r \in Nat, NEW c \in Nat
  PROVE  /\ Punta(Box(r, c, StartShort, StartLong), "derecha") = <<r, c + StartLong - 1>>
         /\ Punta(Box(r, c, StartShort, StartLong), "izquierda") = <<r, c>>
         /\ Punta(Box(r, c, StartLong, StartShort), "abajo") = <<r + StartLong - 1, c>>
         /\ Punta(Box(r, c, StartLong, StartShort), "arriba") = <<r, c + StartShort - 1>>
<1>1. StartLong \in Nat \ {0} /\ StartShort \in Nat \ {0}
  BY SizesAssumption
<1>2. /\ Punta(Box(r, c, StartShort, StartLong), "derecha") = <<r, c + StartLong - 1>>
      /\ Punta(Box(r, c, StartShort, StartLong), "izquierda") = <<r, c>>
  BY <1>1, TipOfBox
<1>3. /\ Punta(Box(r, c, StartLong, StartShort), "abajo") = <<r + StartLong - 1, c>>
      /\ Punta(Box(r, c, StartLong, StartShort), "arriba") = <<r, c + StartShort - 1>>
  BY <1>1, TipOfBox
<1> QED
  BY <1>2, <1>3

\* A point less than n cells from the edge of the r-th lies in one of n cells.
LEMMA EighthsOfCells ==
  ASSUME NEW r \in Int, NEW n \in Nat, NEW p \in Int, 8 * r <= p, p < 8 * (r + n)
  PROVE  p \div 8 \in r .. r + n - 1
OBVIOUS

LEMMA RowsOfCars ==
  ASSUME SlotsFit, NEW i \in 0 .. MaxPlayers - 1
  PROVE  /\ i % 2 \in {0, 1}
         /\ SlotForward \div 2 + (i \div 2) * SlotForward \in Nat
         /\ SlotForward \div 2 + (i \div 2) * SlotForward < 8 * StartLong - 4
<1>1. SlotForward \in Nat /\ MaxPlayers \in Nat /\ StartLong \in Nat
  BY SlotsAssumption, SizesAssumption
<1>2. \A a, b, k \in Nat : a <= b => a * k <= b * k /\ a * k \in Nat /\ b * k \in Nat
  OBVIOUS
<1>3. i \in Nat /\ i \div 2 \in Nat /\ (MaxPlayers - 1) \div 2 \in Nat
      /\ i \div 2 <= (MaxPlayers - 1) \div 2
  BY <1>1
<1>4. /\ (i \div 2) * SlotForward <= ((MaxPlayers - 1) \div 2) * SlotForward
      /\ (i \div 2) * SlotForward \in Nat /\ ((MaxPlayers - 1) \div 2) * SlotForward \in Nat
  BY <1>1, <1>2, <1>3
<1>5. SlotForward \div 2 \in Nat
  BY <1>1
<1> QED
  BY <1>1, <1>3, <1>4, <1>5 DEF SlotsFit

LEMMA PlacesOnStart ==
  ASSUME NEW m \in Maps, WholeStart(m), SlotsFit, NEW i \in 0 .. MaxPlayers - 1
  PROVE  SpawnCell(PoleCells(m), m.direccion_salida, i) \in PoleCells(m)
<1>1. PICK cell \in Cells :
        PoleCells(m) = StartBox(cell, m.direccion_salida \in {"arriba", "abajo"})
  BY DEF WholeStart
<1>2. PICK r \in Nat, c \in Nat : r = cell[1] /\ c = cell[2]
  BY SizesAssumption DEF Cells
<1> DEFINE lane == i % 2
           along == SlotForward \div 2 + (i \div 2) * SlotForward
           dir == m.direccion_salida
           pole == PoleCells(m)
           half == SlotSide \div 2
<1>3. StartLong \in Nat \ {0} /\ StartShort \in Nat \ {0} /\ SlotSide \in Nat /\ half \in Nat
  BY SizesAssumption, SlotsAssumption
<1>4. lane \in {0, 1} /\ along \in Nat /\ along < 8 * StartLong - 4
  BY RowsOfCars
<1>5. half + SlotSide < 8 * StartShort /\ half <= 8 * (StartShort - 2) /\ SlotSide - half < 16
  BY DEF SlotsFit
<1>6. half + lane * SlotSide \in Nat /\ half + lane * SlotSide < 8 * StartShort
  BY <1>3, <1>4, <1>5
<1>7. lane * SlotSide - half \in Int /\ lane * SlotSide - half < 16
      /\ 0 - half <= lane * SlotSide - half
  BY <1>3, <1>4, <1>5
<1>8. dir \in {"arriba", "derecha", "abajo", "izquierda"}
  BY TrafficAssumption DEF Loads, DirectionNames
<1> DEFINE at == SpawnPoint(pole, dir, i)
<1>9. SpawnCell(pole, dir, i) = <<at[1] \div 8, at[2] \div 8>>
  BY DEF SpawnCell
<1> HIDE DEF along, lane, half
<1>14. /\ Punta(Box(r, c, StartShort, StartLong), "derecha") = <<r, c + StartLong - 1>>
       /\ Punta(Box(r, c, StartShort, StartLong), "izquierda") = <<r, c>>
       /\ Punta(Box(r, c, StartLong, StartShort), "abajo") = <<r + StartLong - 1, c>>
       /\ Punta(Box(r, c, StartLong, StartShort), "arriba") = <<r, c + StartShort - 1>>
  BY TipsOfStart
<1>10. CASE dir = "derecha"
  <2>1. pole = Box(r, c, StartShort, StartLong)
    BY <1>1, <1>2, <1>10 DEF StartBox
  <2>2. Punta(pole, dir) = <<r, c + StartLong - 1>>
    BY <1>14, <1>10, <2>1
  <2>3. at = <<8 * r + (half + lane * SlotSide), 8 * (c + StartLong - 1) + 4 - along>>
    BY <1>10, <2>2 DEF SpawnPoint, along, lane, half
  <2>4. (8 * r + (half + lane * SlotSide)) \div 8 \in r .. r + StartShort - 1
    BY <1>2, <1>3, <1>6, EighthsOfCells
  <2>5. (8 * (c + StartLong - 1) + 4 - along) \div 8 \in c .. c + StartLong - 1
    BY <1>2, <1>3, <1>4, EighthsOfCells
  <2> QED
    BY <1>9, <2>1, <2>3, <2>4, <2>5 DEF Box
<1>11. CASE dir = "izquierda"
  <2>1. pole = Box(r, c, StartShort, StartLong)
    BY <1>1, <1>2, <1>11 DEF StartBox
  <2>2. Punta(pole, dir) = <<r, c>>
    BY <1>14, <1>11, <2>1
  <2>3. at = <<8 * r + (half + lane * SlotSide), 8 * c + 4 + along>>
    BY <1>11, <2>2 DEF SpawnPoint, along, lane, half
  <2>4. (8 * r + (half + lane * SlotSide)) \div 8 \in r .. r + StartShort - 1
    BY <1>2, <1>3, <1>6, EighthsOfCells
  <2>5. (8 * c + 4 + along) \div 8 \in c .. c + StartLong - 1
    BY <1>2, <1>3, <1>4, EighthsOfCells
  <2> QED
    BY <1>9, <2>1, <2>3, <2>4, <2>5 DEF Box
<1>12. CASE dir = "abajo"
  <2>1. pole = Box(r, c, StartLong, StartShort)
    BY <1>1, <1>2, <1>12 DEF StartBox
  <2>2. Punta(pole, dir) = <<r + StartLong - 1, c>>
    BY <1>14, <1>12, <2>1
  <2>3. at = <<8 * (r + StartLong - 1) + 4 - along, 8 * c + (half + lane * SlotSide)>>
    BY <1>12, <2>2 DEF SpawnPoint, along, lane, half
  <2>4. (8 * c + (half + lane * SlotSide)) \div 8 \in c .. c + StartShort - 1
    BY <1>2, <1>3, <1>6, EighthsOfCells
  <2>5. (8 * (r + StartLong - 1) + 4 - along) \div 8 \in r .. r + StartLong - 1
    BY <1>2, <1>3, <1>4, EighthsOfCells
  <2> QED
    BY <1>9, <2>1, <2>3, <2>4, <2>5 DEF Box
<1>13. CASE dir = "arriba"
  <2>1. pole = Box(r, c, StartLong, StartShort)
    BY <1>1, <1>2, <1>13 DEF StartBox
  <2>2. Punta(pole, dir) = <<r, c + StartShort - 1>>
    BY <1>14, <1>13, <2>1
  <2>3. at = <<8 * r + 4 + along, 8 * (c + StartShort - 1) - 8 - half + lane * SlotSide>>
    BY <1>13, <2>2 DEF SpawnPoint, along, lane, half
  <2>4. (8 * (c + StartShort - 1) - 8 - half + lane * SlotSide) \div 8 \in c .. c + StartShort - 1
    <3>1. 8 * (c + StartShort - 1) - 8 - half + lane * SlotSide
            = 8 * (c + StartShort - 2) + (lane * SlotSide - half)
      <4>1. PICK across \in Int : across = lane * SlotSide
        BY <1>3, <1>4
      <4> QED
        BY <1>2, <1>3, <4>1
    <3>2. PICK side \in Int : side = lane * SlotSide - half
      BY <1>7
    <3>3. /\ 8 * (c + StartShort - 2) + side \in Int
          /\ 8 * c <= 8 * (c + StartShort - 2) + side
          /\ 8 * (c + StartShort - 2) + side < 8 * (c + StartShort)
      BY <1>2, <1>3, <1>5, <1>7, <3>2
    <3>4. (8 * (c + StartShort - 2) + side) \div 8 \in c .. c + StartShort - 1
      BY <1>2, <1>3, <3>3, EighthsOfCells
    <3> QED
      BY <3>1, <3>2, <3>4
  <2>5. (8 * r + 4 + along) \div 8 \in r .. r + StartLong - 1
    BY <1>2, <1>3, <1>4, EighthsOfCells
  <2> QED
    BY <1>9, <2>1, <2>3, <2>4, <2>5 DEF Box
<1> QED
  BY <1>8, <1>10, <1>11, <1>12, <1>13

\* On a map whose start is there in full and lies along its direction every
\* player's car is put on the start, and no parked car stands near it.
THEOREM StartsStayClear ==
  ASSUME SlotsFit, \A m \in Maps : WholeStart(m)
  PROVE  Spec => []StartIsClear
<1>1. Init => TInv
  BY FirstTraffic
<1>2. ASSUME TInv PROVE StartIsClear
  <2> SUFFICES ASSUME NEW i \in 0 .. MaxPlayers - 1
               PROVE  LET place == SpawnCell(PoleCells(map), map.direccion_salida, i)
                      IN  /\ place \in PoleCells(map)
                          /\ \A s \in DOMAIN npcs :
                               npcs[s].parked => Distance2(s, place) >= MinDistance * MinDistance
    BY DEF StartIsClear
  <2> DEFINE place == SpawnCell(PoleCells(map), map.direccion_salida, i)
  <2>1. place \in PoleCells(map)
    BY <1>2, PlacesOnStart DEF TInv
  <2> HIDE DEF place
  <2>2. ASSUME NEW s \in DOMAIN npcs, npcs[s].parked
        PROVE  Distance2(s, place) >= MinDistance * MinDistance
    BY <1>2, <2>1, <2>2 DEF TInv, ParkedFar, filter_spawns_by_distance
  <2> QED
    BY <2>1, <2>2 DEF place
<1> QED
  BY <1>1, <1>2, StepsKeepTraffic, PTL DEF Spec

=============================================================================
