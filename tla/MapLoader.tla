------------------------------ MODULE MapLoader ------------------------------
(***************************************************************************)
(* What the server makes of a map file: MapLoader reads the checkpoints    *)
(* and adds the goal as the last of them, and Pole finds the places of the *)
(* cars on the start.  Lengths inside a cell are counted in eighths.       *)
(***************************************************************************)
EXTENDS MapCells

CONSTANTS
  MaxPlayers,
  SlotForward, SlotSide  \* Pole::SLOT_FORWARD and SLOT_SIDE, in eighths of a cell

ASSUME SlotsAssumption ==
  MaxPlayers \in Nat /\ SlotForward \in Nat \ {0} /\ SlotSide \in Nat \ {0}

PoleCells(file) == {x \in DOMAIN file.grid : isSalidaCell(file.grid[x])}
GoalCells(file) == {x \in DOMAIN file.grid : isMetaCell(file.grid[x])}

\* load_pole_direction throws on any other name, load_grid on an empty grid.
Loads(file) ==
  /\ DOMAIN file.grid # {}
  /\ file.direccion_salida \in {DirectionNames[d] : d \in 0 .. 3}

FileCheckpoints(file) ==
  {[order |-> file.checkpoints_order[i].order, cells |-> file.checkpoints_order[i].cells,
    goal |-> FALSE] : i \in DOMAIN file.checkpoints_order}

MaxOrder(checkpoints) ==
  IF checkpoints = {} THEN 0
  ELSE (CHOOSE cp \in checkpoints : \A other \in checkpoints : other.order <= cp.order).order

\* The goal comes after the last checkpoint, if the map has one.
Checkpoints(file) ==
  LET read == FileCheckpoints(file)
  IN  IF GoalCells(file) = {} THEN read
      ELSE read \cup {[order |-> MaxOrder(read) + 1, cells |-> GoalCells(file), goal |-> TRUE]}

-----------------------------------------------------------------------------
\* Pole.  The tip is the cell of the start that is foremost, and then
\* rightmost or uppermost as the direction has it.
Punta(pole, dir) ==
  CHOOSE p \in pole : \A q \in pole :
    CASE dir = "derecha" -> q[2] < p[2] \/ (q[2] = p[2] /\ q[1] >= p[1])
      [] dir = "izquierda" -> q[2] > p[2] \/ (q[2] = p[2] /\ q[1] >= p[1])
      [] dir = "abajo" -> q[2] > p[2] \/ (q[2] = p[2] /\ q[1] <= p[1])
      [] dir = "arriba" -> q[2] < p[2] \/ (q[2] = p[2] /\ q[1] >= p[1])

\* Two cars abreast, row behind row: distances from the tip in eighths, down
\* and to the right in the matrix.
SpawnPoint(pole, dir, index) ==
  LET tip == Punta(pole, dir)
      top == 8 * tip[1]
      left == 8 * tip[2]
      along == SlotForward \div 2 + (index \div 2) * SlotForward
      lane == index % 2
      across == SlotSide \div 2 + lane * SlotSide
  IN  CASE dir = "derecha" -> <<top + across, left + 4 - along>>
        [] dir = "izquierda" -> <<top + across, left + 4 + along>>
        [] dir = "abajo" -> <<top + 4 - along, left + across>>
        [] dir = "arriba" -> <<top + 4 + along, left - 8 - SlotSide \div 2 + lane * SlotSide>>

SpawnCell(pole, dir, index) ==
  LET at == SpawnPoint(pole, dir, index) IN <<at[1] \div 8, at[2] \div 8>>

=============================================================================
