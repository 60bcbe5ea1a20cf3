-------------------------------- MODULE Npc --------------------------------
(***************************************************************************)
(* The traffic: cars without a driver that follow the roads of the map's   *)
(* matrix and turn where they have room.  In the world y grows upwards,    *)
(* and a cell is one metre wide; positions are counted in fractions of a   *)
(* cell, angles in right angles.                                           *)
(*                                                                         *)
(* A car goes one fraction ahead in each step of the simulation, unless a  *)
(* wall is there.  What happens to a car that was hit, and that other cars *)
(* may shove one without hitting it, is left out.                          *)
(***************************************************************************)
EXTENDS MapLoader, FiniteSetsExt, Functions

CONSTANTS
  Maps,                \* the files: matrix, start, npc_spawns and npc_spawns_park
  MinDistance,         \* Config::get_min_distance_to_pole, in cells
  MaxMoving, MaxParked,
  Fractions,           \* of a cell; speed and time step are one together
  MIN_STEPS_BETWEEN_TURNS

ASSUME TrafficAssumption ==
  /\ \A m \in Maps : Loads(m) /\ \A s \in m.npc_spawns \cup m.npc_spawns_park :
       <<s.row, s.col>> \in Cells /\ s.dir \in {"Right", "Up", "Left", "Down"}
  /\ MinDistance \in Nat /\ MaxMoving \in Nat /\ MaxParked \in Nat
  /\ Fractions \in Nat \ {0, 1} /\ MIN_STEPS_BETWEEN_TURNS \in Nat

VARIABLES
  map,   \* of the race
  npcs,  \* npc_cars, by their spawns
  hit    \* history: the cars that were hit

nvars == <<map, npcs, hit>>

-----------------------------------------------------------------------------
Dirs == {"Right", "Up", "Left", "Down"}
left_of(dir) ==
  CASE dir = "Up" -> "Left" [] dir = "Left" -> "Down" [] dir = "Down" -> "Right" [] OTHER -> "Up"
right_of(dir) == CHOOSE d \in Dirs : left_of(d) = dir
opposite_of(dir) == left_of(left_of(dir))

\* The angles of the loader and those of the traffic differ for Down.
spawn_angle(dir) ==
  CASE dir = "Right" -> 0 [] dir = "Up" -> 1 [] dir = "Left" -> 2 [] dir = "Down" -> 3
angle_for_npc_dir(dir) ==
  CASE dir = "Right" -> 0 [] dir = "Up" -> 1 [] dir = "Left" -> 2 [] dir = "Down" -> -1
dir_from_angle(angle) ==
  CASE angle \in {-1, 0} -> "Right" [] angle = 1 -> "Up" [] angle = -2 -> "Down" [] OTHER -> "Left"

Cos(angle) == CASE angle % 4 = 0 -> 1 [] angle % 4 = 2 -> -1 [] OTHER -> 0
Sin(angle) == CASE angle % 4 = 1 -> 1 [] angle % 4 = 3 -> -1 [] OTHER -> 0

-----------------------------------------------------------------------------
DriveableCodes == {1, 2, 3, 6, 7, 9, 10, 11, 12, 13, 14, 15}
is_driveable_cell(col, row) ==
  <<row, col>> \in Cells /\ map.grid[<<row, col>>] \in DriveableCodes

\* A conversion to int drops the fraction, towards zero.
ToInt(p) == IF p >= 0 THEN p \div Fractions ELSE -((-p) \div Fractions)

\* Mutant: the rows of the matrix are counted upwards.
is_driveable_world_pos_Upward(x, y) == is_driveable_cell(ToInt(x), ToInt(y))
is_driveable_world_pos(x, y) == is_driveable_cell(ToInt(x), Rows - 1 - ToInt(y))

Reach(from, dir) == IF dir = from THEN 2 ELSE 5

\* The way is free on three lanes.
can_go(npc, dir) ==
  LET angle == angle_for_npc_dir(dir)
      Probe(d, side) ==
        is_driveable_world_pos(npc.x + (Cos(angle) * d - Sin(angle) * side) * Fractions,
                               npc.y + (Sin(angle) * d + Cos(angle) * side) * Fractions)
  IN  \A d \in 1 .. Reach(npc.dir, dir), side \in -1 .. 1 : Probe(d, side)

-----------------------------------------------------------------------------
Options(npc) == {d \in {npc.dir, left_of(npc.dir), right_of(npc.dir)} : can_go(npc, d)}
Back(npc) == {d \in {opposite_of(npc.dir)} : can_go(npc, d)}

\* Mutants: it may turn at any time; at a dead end it does not turn back.
Ways_AtOnce(npc) ==
  LET options == Options(npc) IN IF options = {} THEN Back(npc) ELSE options
Ways_NoBack(npc) ==
  LET options == Options(npc)
  IN  IF npc.steps <= MIN_STEPS_BETWEEN_TURNS /\ npc.dir \in options THEN {npc.dir} ELSE options

\* Where the car may go on: before its next turn is due straight on if it can,
\* back only when nothing else is left.
Ways(npc) ==
  LET options == Options(npc)
  IN  CASE npc.steps <= MIN_STEPS_BETWEEN_TURNS /\ npc.dir \in options -> {npc.dir}
        [] options = {} -> Back(npc)
        [] OTHER -> options

\* steps_since_last_turn is only compared with the minimum.
CountStep(npc) ==
  [npc EXCEPT !.steps = IF @ > MIN_STEPS_BETWEEN_TURNS THEN @ ELSE @ + 1]
Turn(npc, dir) ==
  IF dir = npc.dir THEN npc
  ELSE [npc EXCEPT !.dir = dir, !.angle = angle_for_npc_dir(dir), !.steps = 0]

\* There is a wall on every closed cell, and all around the map.  Those of one
\* layer (codes 6 and 8) stop the players' cars only.
Walled(cell) ==
  \/ cell \notin (1 .. Rows - 2) \X (1 .. Cols - 2)
  \/ map.grid[cell] = NO_TRANSITABLE

CellOf(npc) == <<Rows - 1 - ToInt(npc.y), ToInt(npc.x)>>
Forward(npc) == [npc EXCEPT !.x = @ + Cos(npc.angle), !.y = @ + Sin(npc.angle)]
RunsIntoWall(npc) ==
  CellOf(Forward(npc)) # CellOf(npc) /\ Walled(CellOf(Forward(npc)))

\* A wall holds the car up; whether it destroys it, too, is ApplyDamage.
Drive(npc) == IF RunsIntoWall(npc) THEN npc ELSE Forward(npc)

\* What update_npcs and the step after it make of a car.
Updated(npc) ==
  LET counted == CountStep(npc)
      ways == Ways(counted)
  IN  IF npc.destroyed \/ npc.parked THEN {npc}
      ELSE IF ways = {} THEN {[counted EXCEPT !.destroyed = TRUE]}
      ELSE {Drive(Turn(counted, dir)) : dir \in ways}

update_npcs ==
  LET updated == [s \in DOMAIN npcs |-> Updated(npcs[s])]
  IN  /\ \E next \in [DOMAIN npcs -> UNION Range(updated)] :
           (\A s \in DOMAIN npcs : next[s] \in updated[s]) /\ npcs' = next
      /\ UNCHANGED <<map, hit>>

\* Any contact with a player's car or a wall destroys it, parked or not.
ApplyDamage(s) ==
  /\ s \in DOMAIN npcs /\ ~npcs[s].destroyed
  /\ npcs' = [npcs EXCEPT ![s].destroyed = TRUE]
  /\ hit' = hit \cup {s}
  /\ UNCHANGED map

-----------------------------------------------------------------------------
Distance2(s, cell) == (s.col - cell[2]) * (s.col - cell[2]) + (s.row - cell[1]) * (s.row - cell[1])

\* Mutant: only the tip of the start is looked at.
filter_spawns_by_distance_Tip(defs) ==
  {s \in defs : Distance2(s, Punta(PoleCells(map), map.direccion_salida)) >= MinDistance * MinDistance}
\* As far as the minimum from every cell of the start.
filter_spawns_by_distance(defs) ==
  {s \in defs : \A cell \in PoleCells(map) : Distance2(s, cell) >= MinDistance * MinDistance}

\* Of the shuffled spawns the first count.
Picked(defs, count) ==
  LET far == filter_spawns_by_distance(defs)
  IN  kSubset(IF Cardinality(far) < count THEN Cardinality(far) ELSE count, far)

spawn_npc(s, parked) ==
  [x |-> Fractions * s.col + Fractions \div 2,
   y |-> Fractions * (Rows - 1 - s.row) + Fractions \div 2,
   angle |-> spawn_angle(s.dir), dir |-> dir_from_angle(spawn_angle(s.dir)),
   steps |-> MIN_STEPS_BETWEEN_TURNS + 1, parked |-> parked, destroyed |-> FALSE]

init_npcs ==
  \E moving \in Picked(map.npc_spawns, MaxMoving),
     parking \in Picked(map.npc_spawns_park, MaxParked) :
       npcs = [s \in moving \cup parking |-> spawn_npc(s, s \in parking)]

Init == map \in Maps /\ init_npcs /\ hit = {}

Next == update_npcs \/ \E s \in DOMAIN npcs : ApplyDamage(s)

Spec == Init /\ [][Next]_nvars
FairSpec == Spec /\ WF_nvars(update_npcs)

-----------------------------------------------------------------------------
\* A car that starts as its spawn looks.  One that is to start downwards is
\* given an angle that is taken for Left: it drives where it does not look.
LooksAhead(s) == dir_from_angle(spawn_angle(s.dir)) = s.dir

\* The traffic keeps to the road: a car that drives is on a cell that it may
\* drive on, whatever turns it took, unless it did not look ahead at first.
KeepsToTheRoad(s) ==
  ~npcs[s].parked /\ ~npcs[s].destroyed =>
    is_driveable_cell(CellOf(npcs[s])[2], CellOf(npcs[s])[1])
TrafficKeepsToTheRoad == \A s \in DOMAIN npcs : LooksAhead(s) => KeepsToTheRoad(s)

\* A car that had room at first, and looked ahead, never gets where it has
\* none: only a contact destroys it.
NeverStuck(s) == npcs[s].destroyed => s \in hit
TrafficNeverStuck == \A s \in DOMAIN npcs : LooksAhead(s) => NeverStuck(s)

\* A car that drives comes to another cell, again and again: it does not spin
\* on one spot, whatever it chooses.
Driving(s) == s \in DOMAIN npcs /\ ~npcs[s].destroyed
TrafficDoesNotSpin ==
  \A s \in UNION {m.npc_spawns : m \in Maps} :
    []<>~Driving(s)
      \/ []<><<s \in DOMAIN npcs /\ CellOf(npcs[s])' # CellOf(npcs[s])>>_nvars

\* The places that Pole finds for the players' cars are on the start, and no
\* parked car stands near them: the filter keeps the traffic off all of it.
StartIsClear ==
  \A i \in 0 .. MaxPlayers - 1 :
    LET place == SpawnCell(PoleCells(map), map.direccion_salida, i)
    IN  /\ place \in PoleCells(map)
        /\ \A s \in DOMAIN npcs :
             npcs[s].parked => Distance2(s, place) >= MinDistance * MinDistance

-----------------------------------------------------------------------------
\* What is true of maps, and makes it so.  The cars that drive start on a road.
SpawnsOnRoad(m) ==
  \A s \in m.npc_spawns :
    <<s.row, s.col>> \in DOMAIN m.grid /\ m.grid[<<s.row, s.col>>] \in DriveableCodes

\* The cell d ahead of this one and one to a side of it, and three lanes of
\* cells.
Ahead(cell, dir, d, side) ==
  LET angle == angle_for_npc_dir(dir)
  IN  <<cell[1] - (Sin(angle) * d + Cos(angle) * side),
        cell[2] + (Cos(angle) * d - Sin(angle) * side)>>
Lanes(cell, dir, n) == {Ahead(cell, dir, d, side) : d \in 1 .. n, side \in -1 .. 1}

\* A car that looks one cell over the left or the lower edge may read the cell
\* at the edge instead.
OnMap(cell) ==
  <<IF cell[1] = Rows THEN Rows - 1 ELSE cell[1], IF cell[2] = -1 THEN 0 ELSE cell[2]>>
Road(m) == {cell \in Cells : m.grid[cell] \in DriveableCodes}

\* There is room to drive: from the spawns, looking as they do, the cars can
\* only come to cells, and look there in directions, where one way or another
\* is free.  A place is a cell and a direction.
HasRoom(m, place) ==
  \E dir \in Dirs : Lanes(place[1], dir, Reach(place[2], dir)) \subseteq Road(m)
MayGo(m, place, dir) ==
  \A cell \in Lanes(place[1], dir, Reach(place[2], dir)) : OnMap(cell) \in Road(m)
MayCome(m, place) ==
  UNION {({place[1], Ahead(place[1], dir, 1, 0)} \cap Road(m)) \X {dir} :
           dir \in {d \in Dirs : MayGo(m, place, d)}}
Places(m) == {<<<<s.row, s.col>>, s.dir>> : s \in {t \in m.npc_spawns : LooksAhead(t)}}
RoomOn(m, places) ==
  /\ Places(m) \subseteq places
  /\ \A place \in places : HasRoom(m, place) /\ MayCome(m, place) \subseteq places
RoomToDrive(m) == \E places \in SUBSET (Cells \X Dirs) : RoomOn(m, places)

\* The start is there in full and lies along its direction, and the rows of
\* cars fit in its length and its width.
WholeStart(m) ==
  \E cell \in Cells : PoleCells(m) = StartBox(cell, m.direccion_salida \in {"arriba", "abajo"})
SlotsFit ==
  /\ SlotForward \div 2 + ((MaxPlayers - 1) \div 2) * SlotForward < 8 * StartLong - 4
  /\ SlotSide \div 2 + SlotSide < 8 * StartShort
  /\ SlotSide \div 2 <= 8 * (StartShort - 2) /\ SlotSide - SlotSide \div 2 < 16

=============================================================================
