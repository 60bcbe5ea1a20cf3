------------------------------- MODULE MCNpc -------------------------------
EXTENDS Npc

\* Streets three cells wide: a square, a crossing, and dead ends.  A street
\* with a checkpoint looks closed; the square begins on a ramp.  Beside the
\* streets is ground closed to the traffic, but no wall.
Street(rows, cols) == rows \X cols
Streets ==
  Street(1 .. 3, 1 .. 13) \cup Street(9 .. 11, 1 .. 13) \cup Street(1 .. 11, 1 .. 3)
    \cup Street(1 .. 11, 11 .. 13) \cup Street(4 .. 16, 6 .. 8)
Town(start, direction) ==
  [grid |-> [x \in Cells |-> CASE x \in Street(2 .. 3, 10 .. 10) -> CHECKPOINT
                               [] x \in start -> SALIDA [] x = <<6, 2>> -> SENSOR_ALT1
                               [] x \in Streets -> TRANSITABLE [] OTHER -> SEMITRANSITABLE],
   direccion_salida |-> direction, checkpoints_order |-> <<>>,
   npc_spawns |-> {[row |-> 6, col |-> 12, dir |-> "Up"], [row |-> 14, col |-> 7, dir |-> "Right"],
                   [row |-> 10, col |-> 2, dir |-> "Left"]},
   npc_spawns_park |-> {[row |-> 3, col |-> 3, dir |-> "Down"], [row |-> 11, col |-> 1, dir |-> "Up"]}]

\* A race starts each way; in two of the towns nobody drives, in one a car may
\* be to start downwards.
AlsoDown(town) == [town EXCEPT !.npc_spawns = @ \cup {[row |-> 2, col |-> 9, dir |-> "Down"]}]
Quiet(town) == [town EXCEPT !.npc_spawns = {}]
Towns ==
  {AlsoDown(Town(Street(4 .. 9, 1 .. 3), "arriba")), Town(Street(1 .. 3, 4 .. 9), "izquierda"),
   Quiet(Town(Street(4 .. 9, 1 .. 3), "abajo")), Quiet(Town(Street(1 .. 3, 4 .. 9), "derecha"))}

\* The places the cars may come to.
RECURSIVE Driven(_, _)
Driven(m, places) ==
  LET more == places \cup UNION {MayCome(m, place) : place \in places}
  IN  IF more = places THEN places ELSE Driven(m, more)

\* The towns are as maps should be.
ASSUME TownsAssumption ==
  SlotsFit /\ \A m \in Towns :
    SpawnsOnRoad(m) /\ WholeStart(m) /\ RoomOn(m, Driven(m, Places(m)))
=============================================================================
