------------------------------ MODULE MapCells ------------------------------
(***************************************************************************)
(* The matrix of a map: the codes of its cells, as the editor writes them  *)
(* and the server reads them, and the pieces the editor lays on it.  Cells *)
(* are <<row, col>>, counted from zero; a map file is a record.            *)
(***************************************************************************)
EXTENDS Integers, FiniteSets

CONSTANTS
  Rows, Cols,  \* the size of the matrix
  StartLong, StartShort, CheckpointLong, FinishRadius  \* of the pieces, in cells

ASSUME SizesAssumption ==
  /\ Rows \in Nat \ {0} /\ Cols \in Nat \ {0}
  /\ StartLong \in Nat \ {0} /\ StartShort \in Nat \ {0}
  /\ CheckpointLong \in Nat \ {0} /\ FinishRadius \in Nat

Cells == (0 .. Rows - 1) \X (0 .. Cols - 1)

-----------------------------------------------------------------------------
NO_TRANSITABLE == 0
TRANSITABLE == 1
SALIDA == 2
META == 3
CHECKPOINT == 4
SEMITRANSITABLE == 5
SENSOR_ALT1 == 7
SENSOR_ALT0 == 9
SALIDA_ALT0 == 10
SALIDA_ALT1 == 11
META_ALT0 == 12
META_ALT1 == 13
CHECK_ALT0 == 14
CHECK_ALT1 == 15
Codes == {0, 1, 2, 3, 4, 5, 6, 7, 8, 9, 10, 11, 12, 13, 14, 15}

isSalidaCell(v) == v \in {SALIDA, SALIDA_ALT0, SALIDA_ALT1}
isMetaCell(v) == v \in {META, META_ALT0, META_ALT1}
isCheckpointCell(v) == v \in {CHECKPOINT, CHECK_ALT0, CHECK_ALT1}

\* A piece may be laid on the road, on a ramp, and on a piece that lies on a
\* ramp, but not on a piece that lies on the road.
isTransitable(v) == v \in {TRANSITABLE, SENSOR_ALT1, SENSOR_ALT0} \cup 10 .. 15

OnRampDown(piece) == CASE piece = SALIDA -> SALIDA_ALT0 [] piece = META -> META_ALT0
                       [] piece = CHECKPOINT -> CHECK_ALT0
OnRampUp(piece) == CASE piece = SALIDA -> SALIDA_ALT1 [] piece = META -> META_ALT1
                     [] piece = CHECKPOINT -> CHECK_ALT1

\* The code of a piece on what was there: only a bare ramp shows through.
mapPlacementValue(base, piece) ==
  CASE base = SENSOR_ALT0 -> OnRampDown(piece)
    [] base = SENSOR_ALT1 -> OnRampUp(piece)
    [] OTHER -> piece

restoreOriginalValue(v) ==
  CASE v \in {SALIDA_ALT0, META_ALT0, CHECK_ALT0} -> SENSOR_ALT0
    [] v \in {SALIDA_ALT1, META_ALT1, CHECK_ALT1} -> SENSOR_ALT1
    [] OTHER -> TRANSITABLE

-----------------------------------------------------------------------------
\* The cells of a piece whose first cell is (row, col).
Box(row, col, height, width) == (row .. row + height - 1) \X (col .. col + width - 1)

StartBox(cell, vertical) ==
  IF vertical THEN Box(cell[1], cell[2], StartLong, StartShort)
              ELSE Box(cell[1], cell[2], StartShort, StartLong)
CheckpointBox(cell, vertical) ==
  IF vertical THEN Box(cell[1], cell[2], CheckpointLong, 1)
              ELSE Box(cell[1], cell[2], 1, CheckpointLong)
FinishBox(cell) ==
  Box(cell[1] - FinishRadius, cell[2] - FinishRadius, 2 * FinishRadius + 1, 2 * FinishRadius + 1)

\* Directions are numbers in the editor and names in a file.
DirectionNames == [d \in 0 .. 3 |-> CASE d = 0 -> "arriba" [] d = 1 -> "derecha"
                                      [] d = 2 -> "abajo" [] d = 3 -> "izquierda"]
direccionSalidaStr(d) == DirectionNames[d]
direccionSalidaFromString(name) ==
  IF \E d \in 0 .. 3 : DirectionNames[d] = name
  THEN CHOOSE d \in 0 .. 3 : DirectionNames[d] = name
  ELSE 0

=============================================================================
