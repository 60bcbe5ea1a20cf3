--------------------------- MODULE EditorMapProofs ---------------------------
(***************************************************************************)
(* What the editor guarantees for any city, any pieces, any depth of the   *)
(* undo stack and any number of clicks.                                    *)
(***************************************************************************)
EXTENDS EditorMap, SequenceTheorems, FiniteSetTheorems, WellFoundedInduction, TLAPS

-----------------------------------------------------------------------------
CheckpointRecord == [order : Nat, cells : (SUBSET OpenCells) \ {{}}]
Strokes == UNION {[cells -> Codes] : cells \in SUBSET Cells}
Entry ==
  [changes : Strokes \X Strokes, affectedCheckpoints : BOOLEAN,
   oldCheckpointOrder : Seq(CheckpointRecord), affectedDireccionSalida : BOOLEAN,
   oldDireccionSalida : 0 .. 3]
Documents == [Cells -> Codes] \X Seq(CheckpointRecord) \X (0 .. 3)

Typed ==
  /\ direccionSalida \in 0 .. 3 /\ hoverDireccionSalida \in 0 .. 3
  /\ salidaVertical \in BOOLEAN /\ checkpointVertical \in BOOLEAN
  /\ undoStack \in Seq(Entry) /\ past \in Seq(Documents)
  /\ Len(past) = Len(undoStack) /\ Len(undoStack) <= UndoLimit
  /\ currentMatrixFile \in DOMAIN disk \cup {NoFile}

\* The map in the window, and those the undo stack goes back to, are maps of
\* the city.
MapsOfTheCity ==
  /\ \/ grid = NoStroke /\ checkpointOrder = <<>> /\ undoStack = <<>>
     \/ CityMap(grid, checkpointOrder)
  /\ \A i \in 1 .. Len(past) : CityMap(past[i][1], past[i][2])

\* What undoing an entry makes of a document, and the document that stood
\* after the click of an entry.
Reverted(st, doc) ==
  << Paint(Paint(doc[1], st.changes[2]), st.changes[1]),
     IF st.affectedCheckpoints THEN st.oldCheckpointOrder ELSE doc[2],
     IF st.affectedDireccionSalida THEN st.oldDireccionSalida ELSE doc[3] >>
After(i) == IF i = Len(past) THEN document ELSE past[i + 1]
EntriesRevert == \A i \in 1 .. Len(past) : Reverted(undoStack[i], After(i)) = past[i]

\* A map that was saved as one to race on.
MapToRace(file) ==
  /\ CityMap(file.grid, file.checkpoints_order)
  /\ \E x \in DOMAIN file.grid : isSalidaCell(file.grid[x])
  /\ \E x \in DOMAIN file.grid : isMetaCell(file.grid[x])
  /\ \E x \in DOMAIN file.grid : isCheckpointCell(file.grid[x])
  /\ file.direccion_salida \in {DirectionNames[d] : d \in 0 .. 3}
FilesOfTheCity ==
  \A f \in DOMAIN disk :
    \/ f \in DOMAIN FirstDisk /\ disk[f] = FirstDisk[f]
    \/ MapToRace(disk[f])

EInv == Typed /\ MapsOfTheCity /\ EntriesRevert /\ FilesOfTheCity

-----------------------------------------------------------------------------
\* What the codes of the pieces allow: what is left of a piece is road or
\* ramp, and what is laid shows the piece.
LEMMA PieceCodes ==
  /\ \A v : restoreOriginalValue(v) \in {1, 7, 9}
  /\ \A v : mapPlacementValue(v, SALIDA) \in {2, 10, 11}
  /\ \A v : mapPlacementValue(v, META) \in {3, 12, 13}
  /\ \A v : mapPlacementValue(v, CHECKPOINT) \in {4, 14, 15}
BY DEF restoreOriginalValue, mapPlacementValue, OnRampDown, OnRampUp, SALIDA, META, CHECKPOINT,
       SALIDA_ALT0, SALIDA_ALT1, META_ALT0, META_ALT1, CHECK_ALT0, CHECK_ALT1, SENSOR_ALT0,
       SENSOR_ALT1, TRANSITABLE

LEMMA KindsOfCodes ==
  /\ \A v : isSalidaCell(v) <=> v \in {2, 10, 11}
  /\ \A v : isMetaCell(v) <=> v \in {3, 12, 13}
  /\ \A v : isCheckpointCell(v) <=> v \in {4, 14, 15}
  /\ \A v : isTransitable(v) <=> v \in {1, 7, 9, 10, 11, 12, 13, 14, 15}
  /\ Walls = {0, 5, 6, 8}
<1>1. 10 .. 15 = {10, 11, 12, 13, 14, 15}
  OBVIOUS
<1> QED
  BY <1>1 DEF isSalidaCell, isMetaCell, isCheckpointCell, isTransitable, Walls, SALIDA, META, CHECKPOINT,
     SALIDA_ALT0, SALIDA_ALT1, META_ALT0, META_ALT1, CHECK_ALT0, CHECK_ALT1, SENSOR_ALT0,
     SENSOR_ALT1, TRANSITABLE, NO_TRANSITABLE, SEMITRANSITABLE

\* The old codes of a stroke take it back.
LEMMA OldValuesRevert ==
  ASSUME NEW g, NEW stroke, g = [x \in DOMAIN g |-> g[x]]
  PROVE  /\ Paint(Paint(g, stroke), OldValues(g, stroke)) = g
         /\ OldValues(g, stroke) = NoStroke => Paint(g, stroke) = g
<1>1. DOMAIN OldValues(g, stroke) = {x \in DOMAIN stroke : stroke[x] # g[x]}
  BY DEF OldValues
<1>2. \A x \in DOMAIN OldValues(g, stroke) : OldValues(g, stroke)[x] = g[x]
  BY DEF OldValues
<1>3. Paint(Paint(g, stroke), OldValues(g, stroke)) = g
  BY <1>1, <1>2 DEF Paint
<1>4. ASSUME OldValues(g, stroke) = NoStroke PROVE Paint(g, stroke) = g
  <2>1. DOMAIN NoStroke = {}
    BY DEF NoStroke
  <2>2. \A x \in DOMAIN stroke : stroke[x] = g[x]
    BY <1>1, <1>4, <2>1
  <2> QED
    BY <2>2 DEF Paint
<1> QED
  BY <1>3, <1>4

\* Only the cells of a stroke change.
LEMMA Painted ==
  ASSUME NEW g, NEW stroke
  PROVE  /\ DOMAIN Paint(g, stroke) = DOMAIN g
         /\ Paint(g, stroke) = [x \in DOMAIN g |-> Paint(g, stroke)[x]]
         /\ \A x \in DOMAIN g :
              Paint(g, stroke)[x] = IF x \in DOMAIN stroke THEN stroke[x] ELSE g[x]
BY DEF Paint

\* A map stays one of the city when open cells get other codes, none of them
\* a wall's.
LEMMA WallsStay ==
  ASSUME NEW g \in [Cells -> Codes], KeepsWalls(g), NEW h, DOMAIN h = Cells,
         h = [x \in Cells |-> h[x]],
         \A x \in Cells : h[x] = g[x] \/ (g[x] \notin Walls /\ h[x] \in Codes \ Walls)
  PROVE  h \in [Cells -> Codes] /\ KeepsWalls(h)
BY DEF KeepsWalls

LEMMA StartStays ==
  ASSUME NEW g, NEW h, OneStart(g), DOMAIN h = DOMAIN g,
         \A x \in DOMAIN g : isSalidaCell(h[x]) => isSalidaCell(g[x])
  PROVE  OneStart(h)
BY DEF OneStart

LEMMA FinishStays ==
  ASSUME NEW g, NEW h, OneFinish(g), DOMAIN h = DOMAIN g,
         \A x \in DOMAIN g : isMetaCell(h[x]) => isMetaCell(g[x])
  PROVE  OneFinish(h)
BY DEF OneFinish

LEMMA OrderStays ==
  ASSUME NEW g, NEW h, NEW orders, OrderOf(g, orders), DOMAIN h = DOMAIN g,
         \A x \in DOMAIN g : isCheckpointCell(h[x]) => isCheckpointCell(g[x])
  PROVE  OrderOf(h, orders)
BY DEF OrderOf

-----------------------------------------------------------------------------
\* What the two strokes of a click write.
LEMMA StrokesWrite ==
  /\ DOMAIN NoStroke = {}
  /\ \A cells : /\ DOMAIN TakeAway(cells) = cells
               /\ \A x \in cells : TakeAway(cells)[x] = restoreOriginalValue(grid[x])
  /\ \A g, cells, piece :
       /\ DOMAIN Lay(g, cells, piece) = cells
       /\ \A x \in cells : Lay(g, cells, piece)[x] = mapPlacementValue(g[x], piece)
BY DEF NoStroke, TakeAway, Lay

Bare == {1, 7, 9}
Pieces == {2, 3, 4, 10, 11, 12, 13, 14, 15}

\* The cells of a city with a piece or a road are open.
LEMMA NoWalls ==
  /\ Bare \cup Pieces \subseteq Codes \ Walls
  /\ \A v : isSalidaCell(v) \/ isMetaCell(v) \/ isCheckpointCell(v) \/ isTransitable(v)
         => v \notin Walls
  /\ \A v \in Bare : ~isSalidaCell(v) /\ ~isMetaCell(v) /\ ~isCheckpointCell(v)
  /\ \A v \in {2, 10, 11} : isSalidaCell(v) /\ ~isMetaCell(v) /\ ~isCheckpointCell(v)
  /\ \A v \in {3, 12, 13} : ~isSalidaCell(v) /\ isMetaCell(v) /\ ~isCheckpointCell(v)
  /\ \A v \in {4, 14, 15} : ~isSalidaCell(v) /\ ~isMetaCell(v) /\ isCheckpointCell(v)
BY KindsOfCodes DEF Codes, Bare, Pieces

\* Strokes that take away pieces and lay pieces on open cells keep the walls;
\* each cell is as before, or bare, or shows what was laid.
LEMMA StrokesOnCity ==
  ASSUME NEW g, NEW orders, NEW take, NEW lay, NEW h,
         CityMap(g, orders), h = Paint(Paint(g, take), lay),
         \A x \in DOMAIN take : x \in Cells /\ g[x] \notin Walls /\ take[x] \in Bare,
         \A x \in DOMAIN lay : x \in Cells /\ g[x] \notin Walls /\ lay[x] \in Pieces
  PROVE  /\ DOMAIN g = Cells /\ DOMAIN h = Cells
         /\ h \in [Cells -> Codes] /\ KeepsWalls(h)
         /\ \A x \in Cells :
              h[x] = IF x \in DOMAIN lay THEN lay[x] ELSE IF x \in DOMAIN take THEN take[x] ELSE g[x]
<1>1. DOMAIN g = Cells /\ g \in [Cells -> Codes] /\ KeepsWalls(g)
  BY DEF CityMap
<1>2. /\ DOMAIN h = Cells /\ h = [x \in Cells |-> h[x]]
      /\ \A x \in Cells :
           h[x] = IF x \in DOMAIN lay THEN lay[x] ELSE IF x \in DOMAIN take THEN take[x] ELSE g[x]
  BY <1>1, Painted
<1>3. \A x \in Cells : h[x] = g[x] \/ (g[x] \notin Walls /\ h[x] \in Codes \ Walls)
  BY <1>2, NoWalls
<1>4. h \in [Cells -> Codes] /\ KeepsWalls(h)
  BY <1>1, <1>2, <1>3, WallsStay
<1> QED
  BY <1>1, <1>2, <1>4

\* A start laid or moved leaves a map of the city, with that start only.
LEMMA PlaceStartOnCity ==
  ASSUME CityMap(grid, checkpointOrder), Typed, NEW cell \in Cells, PlaceStart(cell)
  PROVE  CityMap(grid', checkpointOrder')
<1> DEFINE box == StartBox(cell, salidaVertical)
           old == {x \in DOMAIN grid : isSalidaCell(grid[x])}
           take == TakeAway(old)
           lay == Lay(Paint(grid, take), box, SALIDA)
<1>1. /\ grid' = Paint(Paint(grid, take), lay) /\ checkpointOrder' = checkpointOrder
      /\ \A x \in box : x \in DOMAIN grid /\ isTransitable(grid[x])
  BY DEF PlaceStart, UndoBlock
<1>2. DOMAIN take = old /\ \A x \in old : take[x] \in Bare
  BY StrokesWrite, PieceCodes DEF Bare
<1>3. DOMAIN lay = box /\ \A x \in box : lay[x] \in {2, 10, 11}
  BY StrokesWrite, PieceCodes
<1>4. DOMAIN grid = Cells /\ \A x \in Cells : x \in old <=> isSalidaCell(grid[x])
  BY DEF CityMap
<1>5. \A x \in old \cup box : x \in Cells /\ grid[x] \notin Walls
  BY <1>1, <1>4, NoWalls
<1>6. {2, 10, 11} \subseteq Pieces
  BY DEF Pieces
<1> HIDE DEF box, lay, old, take
<1>7. /\ DOMAIN grid' = Cells /\ grid' \in [Cells -> Codes] /\ KeepsWalls(grid')
      /\ \A x \in Cells :
           grid'[x] = IF x \in box THEN lay[x] ELSE IF x \in old THEN take[x] ELSE grid[x]
  BY <1>1, <1>2, <1>3, <1>5, <1>6, StrokesOnCity
<1>8. OneStart(grid')
  <2>1. \A x \in Cells : isSalidaCell(grid'[x]) => x \in box
    BY <1>2, <1>4, <1>7, NoWalls
  <2>2. salidaVertical \in BOOLEAN
    BY DEF Typed
  <2> QED
    BY <1>7, <2>1, <2>2 DEF OneStart, box
<1>9. /\ \A x \in Cells : isMetaCell(grid'[x]) => isMetaCell(grid[x])
     /\ \A x \in Cells : isCheckpointCell(grid'[x]) => isCheckpointCell(grid[x])
  BY <1>2, <1>3, <1>7, NoWalls
<1>10. OneFinish(grid') /\ OrderOf(grid', checkpointOrder')
  <2>1. OneFinish(grid) /\ OrderOf(grid, checkpointOrder)
    BY DEF CityMap
  <2>5. DOMAIN grid = Cells /\ DOMAIN grid' = DOMAIN grid
    BY <1>4, <1>7
  <2>2. /\ \A x \in DOMAIN grid : isMetaCell(grid'[x]) => isMetaCell(grid[x])
        /\ \A x \in DOMAIN grid : isCheckpointCell(grid'[x]) => isCheckpointCell(grid[x])
    BY <2>5, <1>9
  <2>3. OneFinish(grid')
    BY <2>1, <2>2, <2>5, FinishStays
  <2>4. OrderOf(grid', checkpointOrder)
    BY <2>1, <2>2, <2>5, OrderStays
  <2> QED
    BY <1>1, <2>3, <2>4
<1> QED
  BY <1>7, <1>8, <1>10 DEF CityMap

\* A finish laid, moved or only taken away leaves a map of the city.
LEMMA PlaceFinishOnCity ==
  ASSUME CityMap(grid, checkpointOrder), NEW cell \in Cells, PlaceFinish(cell)
  PROVE  CityMap(grid', checkpointOrder')
<1> DEFINE old == {x \in DOMAIN grid : isMetaCell(grid[x])}
           take == TakeAway(old)
           between == Paint(grid, take)
           free == {x \in FinishBox(cell) \cap DOMAIN grid : isTransitable(between[x])}
           lay == Lay(between, free, META)
<1>1. grid' = Paint(between, lay) /\ checkpointOrder' = checkpointOrder
  BY DEF PlaceFinish, UndoBlock
<1>2. DOMAIN take = old /\ \A x \in old : take[x] \in Bare
  BY StrokesWrite, PieceCodes DEF Bare
<1>3. DOMAIN lay = free /\ \A x \in free : lay[x] \in {3, 12, 13}
  BY StrokesWrite, PieceCodes
<1>4. DOMAIN grid = Cells /\ \A x \in Cells : x \in old <=> isMetaCell(grid[x])
  BY DEF CityMap
<1>5. \A x \in free : x \in Cells /\ grid[x] \notin Walls
  <2> SUFFICES ASSUME NEW x \in free PROVE x \in Cells /\ grid[x] \notin Walls
    OBVIOUS
  <2>1. x \in Cells /\ isTransitable(between[x])
    BY <1>4
  <2>2. x \in old \/ between[x] = grid[x]
    BY <1>2, <1>4, <2>1, Painted
  <2> QED
    BY <1>4, <2>1, <2>2, NoWalls
<1>6. \A x \in old : x \in Cells /\ grid[x] \notin Walls
  BY <1>4, NoWalls
<1>7. free \subseteq FinishBox(cell) /\ {3, 12, 13} \subseteq Pieces
  BY DEF Pieces
<1>8. grid' = Paint(Paint(grid, take), lay)
  BY <1>1
<1> HIDE DEF between, free, lay, old, take
<1>9. /\ DOMAIN grid' = Cells /\ grid' \in [Cells -> Codes] /\ KeepsWalls(grid')
      /\ \A x \in Cells :
           grid'[x] = IF x \in free THEN lay[x] ELSE IF x \in old THEN take[x] ELSE grid[x]
  BY <1>2, <1>3, <1>5, <1>6, <1>7, <1>8, StrokesOnCity
<1>10. OneFinish(grid')
  <2>1. \A x \in Cells : isMetaCell(grid'[x]) => x \in FinishBox(cell)
    BY <1>2, <1>4, <1>7, <1>9, NoWalls
  <2> QED
    BY <1>9, <2>1 DEF OneFinish
<1>11. /\ \A x \in Cells : isSalidaCell(grid'[x]) => isSalidaCell(grid[x])
      /\ \A x \in Cells : isCheckpointCell(grid'[x]) => isCheckpointCell(grid[x])
  BY <1>2, <1>3, <1>9, NoWalls
<1>12. OneStart(grid') /\ OrderOf(grid', checkpointOrder')
  <2>1. OneStart(grid) /\ OrderOf(grid, checkpointOrder)
    BY DEF CityMap
  <2>5. DOMAIN grid = Cells /\ DOMAIN grid' = DOMAIN grid
    BY <1>4, <1>9
  <2>2. /\ \A x \in DOMAIN grid : isSalidaCell(grid'[x]) => isSalidaCell(grid[x])
        /\ \A x \in DOMAIN grid : isCheckpointCell(grid'[x]) => isCheckpointCell(grid[x])
    BY <2>5, <1>11
  <2>3. OneStart(grid')
    BY <2>1, <2>2, <2>5, StartStays
  <2>4. OrderOf(grid', checkpointOrder)
    BY <2>1, <2>2, <2>5, OrderStays
  <2> QED
    BY <1>1, <2>3, <2>4
<1> QED
  BY <1>9, <1>10, <1>12 DEF CityMap

\* A checkpoint added lists what it laid, so the list stays that of the map.
LEMMA AddCheckpointOnCity ==
  ASSUME CityMap(grid, checkpointOrder), NEW cell \in Cells, AddCheckpoint(cell)
  PROVE  CityMap(grid', checkpointOrder')
<1> DEFINE box == CheckpointBox(cell, checkpointVertical) \cap DOMAIN grid
           free == {x \in box : isTransitable(grid[x])}
           lay == Lay(grid, free, CHECKPOINT)
           listed == {x \in box : x \in free \/ isCheckpointCell(grid[x])}
           added == [order |-> Len(checkpointOrder) + 1, cells |-> listed]
<1>1. checkpointOrder' = IF free = {} THEN checkpointOrder ELSE Append(checkpointOrder, added)
  BY DEF AddCheckpoint, UndoBlock
<1>2. grid' = Paint(Paint(grid, NoStroke), lay)
  BY DEF AddCheckpoint, UndoBlock
<1>3. DOMAIN lay = free /\ \A x \in free : lay[x] \in {4, 14, 15}
  BY StrokesWrite, PieceCodes
<1>4. DOMAIN grid = Cells /\ grid \in [Cells -> Codes] /\ KeepsWalls(grid)
  BY DEF CityMap
<1>5. \A x \in free : x \in Cells /\ grid[x] \notin Walls
  BY <1>4, NoWalls
<1>6. {4, 14, 15} \subseteq Pieces /\ DOMAIN NoStroke = {}
  BY StrokesWrite DEF Pieces
<1>7. listed \subseteq OpenCells /\ free \subseteq listed
  <2>1. \A x \in listed : x \in Cells /\ grid[x] \notin Walls
    BY <1>4, <1>5, NoWalls
  <2>2. \A x \in Cells : grid[x] \notin Walls => CityCode(x) \notin Walls
    BY <1>4 DEF KeepsWalls
  <2> QED
    BY <2>1, <2>2 DEF OpenCells
<1> HIDE DEF box, free, lay, listed
<1>8. /\ DOMAIN grid' = Cells /\ grid' \in [Cells -> Codes] /\ KeepsWalls(grid')
      /\ \A x \in Cells : grid'[x] = IF x \in free THEN lay[x] ELSE grid[x]
  <2>1. \A x \in DOMAIN lay : x \in Cells /\ grid[x] \notin Walls /\ lay[x] \in Pieces
    BY <1>3, <1>5, <1>6
  <2>2. \A x \in DOMAIN NoStroke : x \in Cells /\ grid[x] \notin Walls /\ NoStroke[x] \in Bare
    BY <1>6
  <2>3. /\ DOMAIN grid' = Cells /\ grid' \in [Cells -> Codes] /\ KeepsWalls(grid')
        /\ \A x \in Cells : grid'[x] = IF x \in DOMAIN lay THEN lay[x]
                                        ELSE IF x \in DOMAIN NoStroke THEN NoStroke[x] ELSE grid[x]
    BY <1>2, <2>1, <2>2, StrokesOnCity
  <2> QED
    BY <1>3, <1>6, <2>3
<1>9. /\ \A x \in Cells : isSalidaCell(grid'[x]) => isSalidaCell(grid[x])
      /\ \A x \in Cells : isMetaCell(grid'[x]) => isMetaCell(grid[x])
      /\ \A x \in Cells : isCheckpointCell(grid'[x]) => isCheckpointCell(grid[x]) \/ x \in free
  BY <1>3, <1>8, NoWalls
<1>10. OneStart(grid') /\ OneFinish(grid')
  <2>1. OneStart(grid) /\ OneFinish(grid)
    BY DEF CityMap
  <2>2. DOMAIN grid = Cells /\ DOMAIN grid' = DOMAIN grid
    BY <1>4, <1>8
  <2>3. /\ \A x \in DOMAIN grid : isSalidaCell(grid'[x]) => isSalidaCell(grid[x])
        /\ \A x \in DOMAIN grid : isMetaCell(grid'[x]) => isMetaCell(grid[x])
    BY <1>9, <2>2
  <2>4. OneStart(grid')
    BY <2>1, <2>2, <2>3, StartStays
  <2>5. OneFinish(grid')
    BY <2>1, <2>2, <2>3, FinishStays
  <2> QED
    BY <2>4, <2>5
<1>11. OrderOf(grid', checkpointOrder')
  <2> DEFINE S == [order : Nat, cells : (SUBSET OpenCells) \ {{}}]
  <2>1. checkpointOrder \in Seq(S) /\ OrderOf(grid, checkpointOrder)
    BY DEF CityMap, OrderOf
  <2>2. DOMAIN grid = Cells /\ DOMAIN grid' = Cells
    BY <1>4, <1>8
  <2>3. CASE free = {}
    <3>1. checkpointOrder' = checkpointOrder
      BY <1>1, <2>3
    <3>2. \A x \in DOMAIN grid : isCheckpointCell(grid'[x]) => isCheckpointCell(grid[x])
      BY <1>9, <2>2, <2>3
    <3> QED
      BY <2>1, <2>2, <3>1, <3>2, OrderStays
  <2>4. CASE free # {}
    <3>1. checkpointOrder' = Append(checkpointOrder, added)
      BY <1>1, <2>4
    <3>2. Len(checkpointOrder) \in Nat /\ DOMAIN checkpointOrder = 1 .. Len(checkpointOrder)
      BY <2>1
    <3>3. added \in S
      BY <1>7, <2>4, <3>2
    <3>4. /\ checkpointOrder' \in Seq(S) /\ Len(checkpointOrder') = Len(checkpointOrder) + 1
          /\ \A i \in 1 .. Len(checkpointOrder) : checkpointOrder'[i] = checkpointOrder[i]
          /\ checkpointOrder'[Len(checkpointOrder) + 1] = added
      <4> HIDE DEF S, added
      <4> QED
        BY <2>1, <3>1, <3>3, AppendProperties
    <3>5. DOMAIN checkpointOrder' = 1 .. Len(checkpointOrder) + 1
      BY <3>4
    <3>6. \A i \in DOMAIN checkpointOrder' : checkpointOrder'[i].order = i
      <4>1. \A i \in 1 .. Len(checkpointOrder) : checkpointOrder[i].order = i
        BY <2>1, <3>2 DEF OrderOf
      <4> QED
        BY <3>2, <3>4, <3>5, <4>1
    <3>7. ASSUME NEW x \in DOMAIN grid', isCheckpointCell(grid'[x])
          PROVE  \E i \in DOMAIN checkpointOrder' : x \in checkpointOrder'[i].cells
      <4>1. CASE x \in free
        <5>1. x \in added.cells
          BY <1>7, <4>1
        <5> QED
          BY <3>2, <3>4, <3>5, <5>1
      <4>2. CASE isCheckpointCell(grid[x])
        <5>1. PICK i \in DOMAIN checkpointOrder : x \in checkpointOrder[i].cells
          BY <2>1, <2>2, <4>2 DEF OrderOf
        <5> QED
          BY <3>2, <3>4, <3>5, <5>1
      <4> QED
        BY <1>9, <2>2, <3>7, <4>1, <4>2
    <3> QED
      BY <3>4, <3>6, <3>7 DEF OrderOf
  <2> QED
    BY <2>3, <2>4
<1> QED
  BY <1>8, <1>10, <1>11 DEF CityMap

\* Taking away what lies on open cells brings no piece, and no checkpoint is
\* left there.
LEMMA TakeAwayOnCity ==
  ASSUME CityMap(grid, checkpointOrder), NEW cells, cells \subseteq OpenCells,
         grid' = Paint(Paint(grid, TakeAway(cells)), NoStroke)
  PROVE  /\ DOMAIN grid = Cells /\ DOMAIN grid' = Cells
         /\ grid' \in [Cells -> Codes] /\ KeepsWalls(grid')
         /\ OneStart(grid') /\ OneFinish(grid')
         /\ \A x \in Cells : isCheckpointCell(grid'[x]) => isCheckpointCell(grid[x]) /\ x \notin cells
<1>1. DOMAIN grid = Cells /\ grid \in [Cells -> Codes] /\ KeepsWalls(grid)
  BY DEF CityMap
<1>2. \A x \in cells : x \in Cells /\ grid[x] \notin Walls
  BY <1>1 DEF KeepsWalls, OpenCells
<1>3. DOMAIN TakeAway(cells) = cells /\ \A x \in cells : TakeAway(cells)[x] \in Bare
  BY StrokesWrite, PieceCodes DEF Bare
<1>4. DOMAIN NoStroke = {}
  BY StrokesWrite
<1> DEFINE take == TakeAway(cells)
<1> HIDE DEF take
<1>5. /\ DOMAIN grid' = Cells /\ grid' \in [Cells -> Codes] /\ KeepsWalls(grid')
      /\ \A x \in Cells : grid'[x] = IF x \in cells THEN take[x] ELSE grid[x]
  <2>1. \A x \in DOMAIN take : x \in Cells /\ grid[x] \notin Walls /\ take[x] \in Bare
    BY <1>2, <1>3 DEF take
  <2>2. \A x \in DOMAIN NoStroke : x \in Cells /\ grid[x] \notin Walls /\ NoStroke[x] \in Pieces
    BY <1>4
  <2>3. grid' = Paint(Paint(grid, take), NoStroke)
    BY DEF take
  <2>4. /\ DOMAIN grid' = Cells /\ grid' \in [Cells -> Codes] /\ KeepsWalls(grid')
        /\ \A x \in Cells : grid'[x] = IF x \in DOMAIN NoStroke THEN NoStroke[x]
                                        ELSE IF x \in DOMAIN take THEN take[x] ELSE grid[x]
    BY <2>1, <2>2, <2>3, StrokesOnCity
  <2>5. DOMAIN take = cells
    BY <1>3 DEF take
  <2> QED
    BY <1>4, <2>4, <2>5
<1>6. \A x \in cells : take[x] \in Bare
  BY <1>3 DEF take
<1>7. /\ \A x \in Cells : isSalidaCell(grid'[x]) => isSalidaCell(grid[x])
      /\ \A x \in Cells : isMetaCell(grid'[x]) => isMetaCell(grid[x])
      /\ \A x \in Cells : isCheckpointCell(grid'[x]) => isCheckpointCell(grid[x]) /\ x \notin cells
  BY <1>5, <1>6, NoWalls
<1>8. OneStart(grid') /\ OneFinish(grid')
  <2>1. OneStart(grid) /\ OneFinish(grid)
    BY DEF CityMap
  <2>2. DOMAIN grid = Cells /\ DOMAIN grid' = DOMAIN grid
    BY <1>1, <1>5
  <2>3. /\ \A x \in DOMAIN grid : isSalidaCell(grid'[x]) => isSalidaCell(grid[x])
        /\ \A x \in DOMAIN grid : isMetaCell(grid'[x]) => isMetaCell(grid[x])
    BY <1>7, <2>2
  <2>4. OneStart(grid')
    BY <2>1, <2>2, <2>3, StartStays
  <2>5. OneFinish(grid')
    BY <2>1, <2>2, <2>3, FinishStays
  <2> QED
    BY <2>4, <2>5
<1> QED
  BY <1>1, <1>5, <1>7, <1>8

\* The start or the finish erased leaves a map of the city.
LEMMA ErasePieceOnCity ==
  ASSUME CityMap(grid, checkpointOrder), NEW cell \in Cells, EraseStart(cell) \/ EraseFinish(cell)
  PROVE  CityMap(grid', checkpointOrder')
<1>1. PICK cells : /\ cells = {x \in DOMAIN grid : isSalidaCell(grid[x])}
                        \/ cells = {x \in DOMAIN grid : isMetaCell(grid[x])}
                   /\ grid' = Paint(Paint(grid, TakeAway(cells)), NoStroke)
                   /\ checkpointOrder' = checkpointOrder
  <2>1. CASE EraseStart(cell)
    <3>1. /\ grid' = Paint(Paint(grid, TakeAway({x \in DOMAIN grid : isSalidaCell(grid[x])})), NoStroke)
          /\ checkpointOrder' = checkpointOrder
      BY <2>1, Zenon DEF EraseStart, UndoBlock
    <3> QED
      BY <3>1, Zenon
  <2>2. CASE EraseFinish(cell)
    <3>1. /\ grid' = Paint(Paint(grid, TakeAway({x \in DOMAIN grid : isMetaCell(grid[x])})), NoStroke)
          /\ checkpointOrder' = checkpointOrder
      BY <2>2, Zenon DEF EraseFinish, UndoBlock
    <3> QED
      BY <3>1, Zenon
  <2> QED
    BY <2>1, <2>2
<1>2. DOMAIN grid = Cells /\ KeepsWalls(grid) /\ OrderOf(grid, checkpointOrder)
  BY DEF CityMap
<1>3. cells \subseteq OpenCells
  <2>1. \A x \in cells : x \in Cells /\ grid[x] \notin Walls
    BY <1>1, <1>2, NoWalls
  <2> QED
    BY <1>2, <2>1 DEF KeepsWalls, OpenCells
<1>4. /\ DOMAIN grid' = Cells /\ grid' \in [Cells -> Codes] /\ KeepsWalls(grid')
      /\ OneStart(grid') /\ OneFinish(grid')
      /\ \A x \in Cells : isCheckpointCell(grid'[x]) => isCheckpointCell(grid[x])
  BY <1>1, <1>3, TakeAwayOnCity
<1>5. OrderOf(grid', checkpointOrder')
  <2>1. DOMAIN grid' = DOMAIN grid /\ checkpointOrder' = checkpointOrder
    BY <1>1, <1>2, <1>4
  <2>2. \A x \in DOMAIN grid : isCheckpointCell(grid'[x]) => isCheckpointCell(grid[x])
    BY <1>2, <1>4
  <2> QED
    BY <1>2, <2>1, <2>2, OrderStays
<1> QED
  BY <1>4, <1>5 DEF CityMap

\* A function on the first numbers is a sequence.
LEMMA FunctionIsSequence ==
  ASSUME NEW S, NEW m \in Nat, NEW f \in [1 .. m -> S]
  PROVE  f \in Seq(S) /\ Len(f) = m
OBVIOUS

\* Without one of its entries, a list of checkpoints numbered anew is numbered
\* as it stands and has all the other entries.
LEMMA RenumberedList ==
  ASSUME NEW orders \in Seq(CheckpointRecord), NEW it \in 1 .. Len(orders)
  PROVE  LET rest == SubSeq(orders, 1, it - 1) \o SubSeq(orders, it + 1, Len(orders))
         IN  /\ Renumbered(rest) \in Seq(CheckpointRecord)
             /\ \A i \in DOMAIN Renumbered(rest) : Renumbered(rest)[i].order = i
             /\ \A j \in DOMAIN orders : j # it =>
                  \E i \in DOMAIN Renumbered(rest) : Renumbered(rest)[i].cells = orders[j].cells
<1>0. PICK n \in Nat : n = Len(orders)
  BY LenProperties
<1>13. it \in 1 .. n
  BY <1>0
<1> DEFINE head == SubSeq(orders, 1, it - 1)
           tail == SubSeq(orders, it + 1, n)
           rest == head \o tail
<1>1. DOMAIN orders = 1 .. n /\ \A i \in 1 .. n : orders[i] \in CheckpointRecord
  <2>1. DOMAIN orders = 1 .. Len(orders)
    BY LenProperties
  <2>2. \A i \in 1 .. Len(orders) : orders[i] \in CheckpointRecord
    BY ElementOfSeq
  <2> QED
    BY <1>0, <2>1, <2>2
<1>2. /\ head \in Seq(CheckpointRecord) /\ Len(head) = it - 1
      /\ \A i \in 1 .. it - 1 : head[i] = orders[i]
  <2>1. \A i \in 1 .. it - 1 : orders[i] \in CheckpointRecord
    BY <1>13, <1>1
  <2>2. 1 \in Int /\ it - 1 \in Int
    BY <1>13
  <2>3. /\ head \in Seq(CheckpointRecord) /\ Len(head) = IF 1 <= it - 1 THEN it - 1 - 1 + 1 ELSE 0
        /\ \A i \in 1 .. it - 1 - 1 + 1 : head[i] = orders[1 + i - 1]
    BY <2>1, <2>2, SubSeqProperties
  <2> HIDE DEF head
  <2>4. Len(head) = it - 1 /\ it - 1 - 1 + 1 = it - 1
    BY <1>13, <2>3
  <2>5. \A i \in 1 .. it - 1 : 1 + i - 1 = i
    OBVIOUS
  <2> QED
    BY <2>3, <2>4, <2>5
<1>3. /\ tail \in Seq(CheckpointRecord) /\ Len(tail) = n - it
      /\ \A i \in 1 .. n - it : tail[i] = orders[it + i]
  <2>1. \A i \in it + 1 .. n : orders[i] \in CheckpointRecord
    BY <1>13, <1>1
  <2>2. it + 1 \in Int /\ n \in Int
    BY <1>13
  <2>3. /\ tail \in Seq(CheckpointRecord) /\ Len(tail) = IF it + 1 <= n THEN n - (it + 1) + 1 ELSE 0
        /\ \A i \in 1 .. n - (it + 1) + 1 : tail[i] = orders[it + 1 + i - 1]
    BY <2>1, <2>2, SubSeqProperties
  <2> HIDE DEF tail
  <2>4. Len(tail) = n - it /\ n - (it + 1) + 1 = n - it
    BY <1>13, <2>3
  <2>5. \A i \in 1 .. n - it : it + 1 + i - 1 = it + i
    BY <1>13
  <2> QED
    BY <2>3, <2>4, <2>5
<1> HIDE DEF head, tail
<1>4. /\ rest \in Seq(CheckpointRecord) /\ Len(rest) = n - 1
      /\ \A i \in 1 .. n - 1 : rest[i] = IF i <= it - 1 THEN orders[i] ELSE orders[i + 1]
  <2>1. /\ rest \in Seq(CheckpointRecord) /\ Len(rest) = Len(head) + Len(tail)
        /\ \A i \in 1 .. Len(head) + Len(tail) :
             rest[i] = IF i <= Len(head) THEN head[i] ELSE tail[i - Len(head)]
    BY <1>2, <1>3, ConcatProperties
  <2> HIDE DEF rest
  <2>2. Len(head) + Len(tail) = n - 1
    BY <1>13, <1>2, <1>3
  <2>3. ASSUME NEW i \in 1 .. n - 1 PROVE rest[i] = IF i <= it - 1 THEN orders[i] ELSE orders[i + 1]
    <3>1. CASE i <= it - 1
      <4>1. i \in 1 .. it - 1
        BY <3>1
      <4> QED
        BY <1>2, <2>1, <2>2, <3>1, <4>1
    <3>2. CASE ~(i <= it - 1)
      <4>1. i - (it - 1) \in 1 .. n - it /\ it + (i - (it - 1)) = i + 1
        BY <1>13, <3>2
      <4> QED
        BY <1>2, <1>3, <2>1, <2>2, <3>2, <4>1
    <3> QED
      BY <3>1, <3>2
  <2> QED
    BY <2>1, <2>2, <2>3
<1>5. DOMAIN rest = 1 .. n - 1 /\ \A i \in 1 .. n - 1 : rest[i] \in CheckpointRecord
  <2> HIDE DEF rest
  <2>1. DOMAIN rest = 1 .. Len(rest) /\ \A i \in 1 .. Len(rest) : rest[i] \in CheckpointRecord
    BY <1>4, LenProperties, ElementOfSeq
  <2> QED
    BY <1>4, <2>1
<1> HIDE DEF rest
<1>6. /\ DOMAIN Renumbered(rest) = 1 .. n - 1
      /\ \A i \in 1 .. n - 1 : Renumbered(rest)[i] = [rest[i] EXCEPT !.order = i]
  BY <1>5 DEF Renumbered
<1>7. \A i \in 1 .. n - 1 : /\ Renumbered(rest)[i] \in CheckpointRecord
                             /\ Renumbered(rest)[i].order = i
                             /\ Renumbered(rest)[i].cells = rest[i].cells
  BY <1>5, <1>6 DEF CheckpointRecord
<1>8. Renumbered(rest) \in Seq(CheckpointRecord)
  <2>1. Renumbered(rest) = [i \in 1 .. n - 1 |-> Renumbered(rest)[i]]
    BY <1>5 DEF Renumbered
  <2>2. n - 1 \in Nat
    BY <1>13
  <2>3. Renumbered(rest) \in [1 .. n - 1 -> CheckpointRecord]
    BY <1>6, <1>7, <2>1
  <2> QED
    BY <2>2, <2>3, FunctionIsSequence
<1>9. ASSUME NEW j \in DOMAIN orders, j # it
      PROVE  \E i \in DOMAIN Renumbered(rest) : Renumbered(rest)[i].cells = orders[j].cells
  <2>1. j \in 1 .. n
    BY <1>1
  <2>2. CASE j < it
    <3>1. j \in 1 .. n - 1 /\ rest[j] = orders[j]
      BY <1>13, <1>4, <2>1, <2>2
    <3> QED
      BY <1>6, <1>7, <3>1
  <2>3. CASE j > it
    <3>1. j - 1 \in 1 .. n - 1 /\ ~(j - 1 <= it - 1) /\ (j - 1) + 1 = j
      BY <1>13, <2>1, <2>3
    <3>2. rest[j - 1] = orders[j]
      BY <1>4, <3>1
    <3> QED
      BY <1>6, <1>7, <3>1, <3>2
  <2> QED
    BY <1>13, <1>9, <2>1, <2>2, <2>3
<1> QED
  BY <1>0, <1>6, <1>7, <1>8, <1>9 DEF rest, head, tail

LEMMA LeastNumber ==
  ASSUME NEW numbers \in SUBSET Nat, numbers # {}
  PROVE  \E k \in numbers : \A j \in numbers : k <= j
<1> DEFINE less == OpToRel(<, Nat)
<1>1. IsWellFoundedOn(less, Nat)
  BY NatLessThanWellFounded, Zenon
<1>2. \A j, k \in Nat : j < k => <<j, k>> \in less
  BY DEF OpToRel
<1> HIDE DEF less
<1>3. PICK k \in numbers : \A j \in numbers : <<j, k>> \notin less
  BY <1>1, WFMin, Zenon
<1>4. ASSUME NEW j \in numbers PROVE k <= j
  <2>1. j \in Nat /\ k \in Nat /\ ~(j < k)
    BY <1>2, <1>3
  <2> QED
    BY <2>1
<1> QED
  BY <1>4

\* A checkpoint erased leaves no cell of it behind and the list of the others.
LEMMA EraseCheckpointOnCity ==
  ASSUME CityMap(grid, checkpointOrder), NEW cell \in Cells, EraseCheckpoint(cell)
  PROVE  CityMap(grid', checkpointOrder')
<1> DEFINE listed == {i \in DOMAIN checkpointOrder : cell \in checkpointOrder[i].cells}
           it == CHOOSE i \in listed : \A j \in listed : i <= j
           rest == SubSeq(checkpointOrder, 1, it - 1)
                     \o SubSeq(checkpointOrder, it + 1, Len(checkpointOrder))
<1>1. /\ DOMAIN grid = Cells /\ grid \in [Cells -> Codes]
      /\ OneStart(grid) /\ OneFinish(grid) /\ OrderOf(grid, checkpointOrder)
  BY DEF CityMap
<1>2. /\ checkpointOrder \in Seq(CheckpointRecord) /\ Len(checkpointOrder) \in Nat
      /\ DOMAIN checkpointOrder = 1 .. Len(checkpointOrder)
  BY <1>1 DEF OrderOf, CheckpointRecord
<1>3. /\ isCheckpointCell(grid[cell])
      /\ \/ /\ listed = {}
            /\ grid' = Paint(Paint(grid, NoStroke), NoStroke)
            /\ checkpointOrder' = checkpointOrder
         \/ /\ listed # {}
            /\ grid' = Paint(Paint(grid, TakeAway(checkpointOrder[it].cells)), NoStroke)
            /\ checkpointOrder' = Renumbered(rest)
  BY DEF EraseCheckpoint, UndoBlock
<1>4. PICK i \in DOMAIN checkpointOrder : cell \in checkpointOrder[i].cells
  BY <1>1, <1>3 DEF OrderOf
<1>5. it \in listed
  <2>1. listed \in SUBSET Nat /\ listed # {}
    BY <1>2, <1>4
  <2>2. \E k \in listed : \A j \in listed : k <= j
    <3> HIDE DEF listed
    <3> QED
      BY <2>1, LeastNumber
  <2> HIDE DEF listed
  <2> QED
    BY <2>2
<1>6. it \in 1 .. Len(checkpointOrder)
  BY <1>2, <1>5
<1>7. /\ grid' = Paint(Paint(grid, TakeAway(checkpointOrder[it].cells)), NoStroke)
      /\ checkpointOrder' = Renumbered(rest)
  BY <1>3, <1>5
<1> HIDE DEF listed, it
<1>8. checkpointOrder[it].cells \subseteq OpenCells
  <2>1. checkpointOrder[it] \in CheckpointRecord
    BY <1>2, <1>6, ElementOfSeq
  <2> QED
    BY <2>1 DEF CheckpointRecord
<1>9. /\ DOMAIN grid' = Cells /\ grid' \in [Cells -> Codes] /\ KeepsWalls(grid')
      /\ OneStart(grid') /\ OneFinish(grid')
      /\ \A x \in Cells : isCheckpointCell(grid'[x]) =>
                             isCheckpointCell(grid[x]) /\ x \notin checkpointOrder[it].cells
  BY <1>7, <1>8, TakeAwayOnCity
<1>10. /\ checkpointOrder' \in Seq(CheckpointRecord)
       /\ \A k \in DOMAIN checkpointOrder' : checkpointOrder'[k].order = k
       /\ \A j \in DOMAIN checkpointOrder : j # it =>
            \E k \in DOMAIN checkpointOrder' : checkpointOrder'[k].cells = checkpointOrder[j].cells
  BY <1>2, <1>6, <1>7, RenumberedList
<1>11. ASSUME NEW x \in DOMAIN grid', isCheckpointCell(grid'[x])
       PROVE  \E k \in DOMAIN checkpointOrder' : x \in checkpointOrder'[k].cells
  <2>1. x \in Cells /\ isCheckpointCell(grid[x]) /\ x \notin checkpointOrder[it].cells
    BY <1>9, <1>11
  <2>2. PICK j \in DOMAIN checkpointOrder : x \in checkpointOrder[j].cells
    BY <1>1, <2>1 DEF OrderOf
  <2>3. PICK k \in DOMAIN checkpointOrder' : checkpointOrder'[k].cells = checkpointOrder[j].cells
    BY <1>10, <2>1, <2>2
  <2> QED
    BY <2>2, <2>3
<1>12. OrderOf(grid', checkpointOrder')
  BY <1>10, <1>11 DEF OrderOf, CheckpointRecord
<1> QED
  BY <1>9, <1>12 DEF CityMap

\* Every click leaves a map of the city.
LEMMA ClicksOnCity ==
  ASSUME CityMap(grid, checkpointOrder), Typed, NEW cell \in Cells, MousePress(cell)
  PROVE  CityMap(grid', checkpointOrder')
BY PlaceStartOnCity, PlaceFinishOnCity, AddCheckpointOnCity, ErasePieceOnCity,
   EraseCheckpointOnCity DEF MousePress

-----------------------------------------------------------------------------
\* The undo stack.  What a block records, and how the stack and the documents
\* behind it grow by it.
UndoEntry(take, lay, asksOrder, asksDirection) ==
  [changes |-> <<OldValues(grid, take), OldValues(Paint(grid, take), lay)>>,
   affectedCheckpoints |-> asksOrder,
   oldCheckpointOrder |-> IF asksOrder THEN checkpointOrder ELSE <<>>,
   affectedDireccionSalida |-> asksDirection,
   oldDireccionSalida |-> IF asksDirection THEN direccionSalida ELSE 0]

LEMMA BlockOutcome ==
  ASSUME NEW take, NEW lay, NEW asksOrder, NEW asksDirection,
         UndoBlock(take, lay, asksOrder, asksDirection)
  PROVE  LET entry == UndoEntry(take, lay, asksOrder, asksDirection)
         IN  /\ grid' = Paint(Paint(grid, take), lay)
             /\ UNCHANGED <<brush, window>>
             /\ \/ /\ entry.changes = <<NoStroke, NoStroke>> /\ ~asksOrder
                   /\ UNCHANGED <<undoStack, past>>
                \/ /\ undoStack' = Latest(Append(undoStack, entry))
                   /\ past' = Latest(Append(past, document))
BY Zenon DEF UndoBlock, UndoEntry

\* The stack r is s, of n entries, with e on top and the oldest gone when there
\* were as many as may be.
GrownBy(r, s, n, e) ==
  /\ n < UndoLimit => /\ Len(r) = n + 1 /\ r[n + 1] = e
                      /\ \A i \in 1 .. n : r[i] = s[i]
  /\ ~(n < UndoLimit) => /\ Len(r) = n /\ r[n] = e
                         /\ \A i \in 1 .. n - 1 : r[i] = s[i + 1]

LEMMA LatestOfAppended ==
  ASSUME NEW S, NEW s \in Seq(S), NEW e \in S, NEW n \in Nat, NEW r,
         Len(s) = n, n <= UndoLimit, r = Latest(Append(s, e))
  PROVE  r \in Seq(S) /\ GrownBy(r, s, n, e)
<1> DEFINE a == Append(s, e)
<1>1. /\ a \in Seq(S) /\ a # <<>> /\ Len(a) = n + 1
      /\ \A i \in 1 .. n : a[i] = s[i]
      /\ a[n + 1] = e
  BY AppendProperties
<1>2. UndoLimit \in Nat \ {0}
  BY EditorAssumption
<1> HIDE DEF a
<1>3. CASE n < UndoLimit
  <2>1. Latest(a) = a
    BY <1>1, <1>2, <1>3 DEF Latest
  <2> QED
    BY <1>1, <1>3, <2>1 DEF a, GrownBy
<1>4. CASE ~(n < UndoLimit)
  <2>1. Latest(a) = Tail(a)
    BY <1>1, <1>2, <1>4 DEF Latest
  <2>2. /\ Tail(a) \in Seq(S) /\ Len(Tail(a)) = n
        /\ \A i \in 1 .. n : Tail(a)[i] = a[i + 1]
    <3>1. /\ Tail(a) \in Seq(S) /\ Len(Tail(a)) = Len(a) - 1
          /\ \A i \in 1 .. Len(Tail(a)) : Tail(a)[i] = a[i + 1]
      BY <1>1, HeadTailProperties
    <3>2. Len(Tail(a)) = n
      BY <1>1, <3>1
    <3> QED
      BY <3>1, <3>2
  <2>3. Tail(a)[n] = e
    BY <1>1, <1>2, <1>4, <2>2
  <2>4. \A i \in 1 .. n - 1 : Tail(a)[i] = s[i + 1]
    <3>1. \A i \in 1 .. n - 1 : i \in 1 .. n /\ i + 1 \in 1 .. n
      OBVIOUS
    <3> QED
      BY <1>1, <2>2, <3>1
  <2> QED
    BY <1>4, <2>1, <2>2, <2>3, <2>4 DEF a, GrownBy
<1> QED
  BY <1>3, <1>4

\* An entry that takes the document back may join the stack, and the oldest
\* may go.
LEMMA StackGrows ==
  ASSUME Typed, EntriesRevert, document \in Documents,
         \A i \in 1 .. Len(past) : CityMap(past[i][1], past[i][2]),
         CityMap(grid, checkpointOrder),
         NEW entry \in Entry, Reverted(entry, document') = document,
         undoStack' = Latest(Append(undoStack, entry)), past' = Latest(Append(past, document))
  PROVE  /\ undoStack' \in Seq(Entry) /\ past' \in Seq(Documents)
         /\ Len(past') = Len(undoStack') /\ Len(undoStack') <= UndoLimit
         /\ \A i \in 1 .. Len(past') : CityMap(past'[i][1], past'[i][2])
         /\ EntriesRevert'
<1>0. PICK n \in Nat : Len(past) = n /\ Len(undoStack) = n /\ n <= UndoLimit
  BY LenProperties DEF Typed
<1>1. undoStack \in Seq(Entry) /\ past \in Seq(Documents) /\ UndoLimit \in Nat
  BY EditorAssumption DEF Typed
<1>2. PICK d \in {0, 1} : n - d >= 0 /\ (d = 0 <=> n < UndoLimit)
  BY <1>0, EditorAssumption
<1>3. /\ undoStack' \in Seq(Entry) /\ Len(undoStack') = n + 1 - d
      /\ undoStack'[n + 1 - d] = entry
      /\ \A i \in 1 .. n - d : undoStack'[i] = undoStack[i + d]
  <2>1. undoStack \in Seq(Entry) /\ undoStack' = Latest(Append(undoStack, entry))
    BY <1>1
  <2>2. Len(undoStack) = n /\ n <= UndoLimit
    BY <1>0
  <2>3. undoStack' \in Seq(Entry) /\ GrownBy(undoStack', undoStack, n, entry)
    BY <2>1, <2>2, LatestOfAppended
  <2> QED
    BY <1>2, <2>3 DEF GrownBy
<1>4. document \in Documents /\ past' = Latest(Append(past, document))
  OBVIOUS
<1>5. /\ past' \in Seq(Documents) /\ Len(past') = n + 1 - d
      /\ past'[n + 1 - d] = document
      /\ \A i \in 1 .. n - d : past'[i] = past[i + d]
  <2>1. past \in Seq(Documents)
    BY <1>1
  <2>2. Len(past) = n /\ n <= UndoLimit
    BY <1>0
  <2>3. past' \in Seq(Documents) /\ GrownBy(past', past, n, document)
    BY <1>4, <2>1, <2>2, LatestOfAppended
  <2> QED
    BY <1>2, <2>3 DEF GrownBy
<1>6. ASSUME NEW i \in 1 .. n + 1 - d
      PROVE  \/ i = n + 1 - d
             \/ i \in 1 .. n - d /\ i + d \in 1 .. n /\ i + 1 \in 1 .. n + 1 - d
  BY <1>0, <1>2
<1>7. ASSUME NEW i \in 1 .. Len(past') PROVE CityMap(past'[i][1], past'[i][2])
  <2>1. CASE i = n + 1 - d
    <3>1. past'[i] = document /\ document[1] = grid /\ document[2] = checkpointOrder
      BY <1>5, <2>1 DEF document
    <3> QED
      BY <3>1
  <2>2. CASE i # n + 1 - d
    <3>1. past'[i] = past[i + d] /\ i + d \in 1 .. Len(past)
      BY <1>0, <1>5, <1>6, <2>2
    <3> QED
      BY <3>1
  <2> QED
    BY <2>1, <2>2
<1>8. ASSUME NEW i \in 1 .. Len(past') PROVE Reverted(undoStack'[i], After(i)') = past'[i]
  <2>1. CASE i = n + 1 - d
    <3>1. After(i)' = document'
      BY <1>5, <2>1 DEF After
    <3> QED
      BY <1>3, <1>5, <2>1, <3>1
  <2>2. CASE i # n + 1 - d
    <3>1. i \in 1 .. n - d /\ i + d \in 1 .. n /\ i + 1 \in 1 .. n + 1 - d
      BY <1>5, <1>6, <2>2
    <3>2. undoStack'[i] = undoStack[i + d] /\ past'[i] = past[i + d]
      BY <1>3, <1>5, <3>1
    <3>3. After(i)' = past'[i + 1]
      BY <1>5, <2>2 DEF After
    <3>4. past'[i + 1] = After(i + d)
      <4>1. CASE i = n - d
        <5>1. i + 1 = n + 1 - d /\ i + d = n
          BY <1>2, <4>1
        <5> QED
          BY <1>0, <1>5, <5>1 DEF After
      <4>2. CASE i # n - d
        <5>1. i + 1 \in 1 .. n - d /\ i + d # n /\ (i + 1) + d = (i + d) + 1
          BY <1>2, <3>1, <4>2
        <5>2. past'[i + 1] = past[(i + d) + 1]
          BY <1>5, <5>1
        <5> QED
          BY <1>0, <5>1, <5>2 DEF After
      <4> QED
        BY <4>1, <4>2
    <3>5. Reverted(undoStack[i + d], After(i + d)) = past[i + d]
      BY <1>0, <3>1 DEF EntriesRevert
    <3> QED
      BY <3>2, <3>3, <3>4, <3>5
  <2> QED
    BY <2>1, <2>2
<1>9. Len(past') = Len(undoStack') /\ Len(undoStack') <= UndoLimit
  BY <1>0, <1>1, <1>2, <1>3, <1>5
<1>10. EntriesRevert'
  BY <1>8 DEF EntriesRevert
<1> QED
  BY <1>3, <1>5, <1>7, <1>9, <1>10

LEMMA StrokesAreTyped ==
  /\ NoStroke \in Strokes
  /\ \A cells \in SUBSET Cells : TakeAway(cells) \in Strokes
  /\ \A g, cells, piece : cells \subseteq Cells /\ piece \in {SALIDA, META, CHECKPOINT}
        => Lay(g, cells, piece) \in Strokes
  /\ \A g \in [Cells -> Codes], s \in Strokes :
        OldValues(g, s) \in Strokes /\ Paint(g, s) \in [Cells -> Codes]
<1>1. NoStroke \in Strokes
  <2>1. NoStroke \in [{} -> Codes]
    BY DEF NoStroke
  <2> QED
    BY <2>1 DEF Strokes
<1>2. ASSUME NEW cells \in SUBSET Cells PROVE TakeAway(cells) \in Strokes
  <2>1. \A x \in cells : restoreOriginalValue(grid[x]) \in Codes
    BY PieceCodes DEF Codes
  <2>2. TakeAway(cells) \in [cells -> Codes]
    BY <2>1 DEF TakeAway
  <2> QED
    BY <2>2 DEF Strokes
<1>3. ASSUME NEW g, NEW cells \in SUBSET Cells, NEW piece \in {SALIDA, META, CHECKPOINT}
      PROVE  Lay(g, cells, piece) \in Strokes
  <2>1. \A x \in cells : mapPlacementValue(g[x], piece) \in Codes
    BY PieceCodes DEF Codes
  <2>2. Lay(g, cells, piece) \in [cells -> Codes]
    BY <2>1 DEF Lay
  <2> QED
    BY <2>2 DEF Strokes
<1>4. ASSUME NEW g \in [Cells -> Codes], NEW s \in Strokes
      PROVE  OldValues(g, s) \in Strokes /\ Paint(g, s) \in [Cells -> Codes]
  <2>1. PICK cells \in SUBSET Cells : s \in [cells -> Codes]
    BY DEF Strokes
  <2>2. OldValues(g, s) \in [{x \in cells : s[x] # g[x]} -> Codes]
    BY <2>1 DEF OldValues
  <2>3. {x \in cells : s[x] # g[x]} \in SUBSET Cells
    BY <2>1
  <2>4. OldValues(g, s) \in Strokes
    BY <2>2, <2>3 DEF Strokes
  <2>5. Paint(g, s) \in [Cells -> Codes]
    BY <2>1 DEF Paint
  <2> QED
    BY <2>4, <2>5
<1> QED
  BY <1>1, <1>2, <1>3, <1>4

\* A click leaves the document as it was and records nothing, or records an
\* entry that takes it back.
Recorded ==
  /\ UNCHANGED <<brush, window>>
  /\ \/ document' = document /\ UNCHANGED <<undoStack, past>>
     \/ \E entry \in Entry : /\ Reverted(entry, document') = document
                            /\ undoStack' = Latest(Append(undoStack, entry))
                            /\ past' = Latest(Append(past, document))

LEMMA BlockRecords ==
  ASSUME grid \in [Cells -> Codes], checkpointOrder \in Seq(CheckpointRecord), Typed,
         NEW take \in Strokes, NEW lay \in Strokes,
         NEW asksOrder \in BOOLEAN, NEW asksDirection \in BOOLEAN,
         UndoBlock(take, lay, asksOrder, asksDirection),
         ~asksOrder => checkpointOrder' = checkpointOrder,
         ~asksDirection \/ OldValues(Paint(grid, take), lay) = NoStroke
           => direccionSalida' = direccionSalida
  PROVE  Recorded
<1> DEFINE between == Paint(grid, take)
           c1 == OldValues(grid, take)
           c2 == OldValues(between, lay)
           entry == UndoEntry(take, lay, asksOrder, asksDirection)
<1>1. /\ grid' = Paint(between, lay) /\ UNCHANGED <<brush, window>>
      /\ \/ /\ entry.changes = <<NoStroke, NoStroke>> /\ ~asksOrder
            /\ UNCHANGED <<undoStack, past>>
         \/ /\ undoStack' = Latest(Append(undoStack, entry))
            /\ past' = Latest(Append(past, document))
  BY BlockOutcome, Zenon
<1>2. between \in [Cells -> Codes] /\ c1 \in Strokes /\ c2 \in Strokes
  <2>1. between \in [Cells -> Codes] /\ c1 \in Strokes
    BY StrokesAreTyped
  <2> HIDE DEF between
  <2> QED
    BY <2>1, StrokesAreTyped
<1>3. /\ entry.changes = <<c1, c2>> /\ entry.affectedCheckpoints = asksOrder
      /\ entry.affectedDireccionSalida = asksDirection
      /\ asksOrder => entry.oldCheckpointOrder = checkpointOrder
      /\ asksDirection => entry.oldDireccionSalida = direccionSalida
  BY DEF UndoEntry
<1>4. entry \in Entry
  <2>1. direccionSalida \in 0 .. 3 /\ 0 \in 0 .. 3 /\ <<>> \in Seq(CheckpointRecord)
    BY DEF Typed
  <2>2. (IF asksOrder THEN checkpointOrder ELSE <<>>) \in Seq(CheckpointRecord)
    BY <2>1
  <2>3. (IF asksDirection THEN direccionSalida ELSE 0) \in 0 .. 3
    BY <2>1
  <2>4. <<c1, c2>> \in Strokes \X Strokes
    BY <1>2
  <2> QED
    BY <2>2, <2>3, <2>4 DEF UndoEntry, Entry
<1> HIDE DEF entry
<1>5. /\ Paint(grid', c2) = between /\ Paint(between, c1) = grid
      /\ c1 = NoStroke => between = grid
      /\ c2 = NoStroke => grid' = between
  <2>1. between = [x \in DOMAIN between |-> between[x]] /\ grid = [x \in DOMAIN grid |-> grid[x]]
    BY <1>2
  <2>2. /\ Paint(between, c1) = grid
        /\ c1 = NoStroke => between = grid
    BY <2>1, OldValuesRevert
  <2> HIDE DEF between
  <2>3. /\ Paint(Paint(between, lay), c2) = between
        /\ c2 = NoStroke => Paint(between, lay) = between
    BY <2>1, OldValuesRevert
  <2> QED
    BY <1>1, <2>2, <2>3
<1>6. CASE entry.changes = <<NoStroke, NoStroke>> /\ ~asksOrder /\ UNCHANGED <<undoStack, past>>
  <2>1. c1 = NoStroke /\ c2 = NoStroke
    BY <1>3, <1>6
  <2>2. direccionSalida' = direccionSalida /\ checkpointOrder' = checkpointOrder
    BY <1>6, <2>1
  <2>3. document' = document
    BY <1>5, <2>1, <2>2 DEF document
  <2> QED
    BY <1>1, <1>6, <2>3 DEF Recorded
<1>7. CASE /\ undoStack' = Latest(Append(undoStack, entry))
           /\ past' = Latest(Append(past, document))
  <2>1. Reverted(entry, document') =
          << Paint(Paint(grid', c2), c1),
             IF asksOrder THEN entry.oldCheckpointOrder ELSE checkpointOrder',
             IF asksDirection THEN entry.oldDireccionSalida ELSE direccionSalida' >>
    <3>1. entry.changes[1] = c1 /\ entry.changes[2] = c2
      BY <1>3
    <3>2. document'[1] = grid' /\ document'[2] = checkpointOrder' /\ document'[3] = direccionSalida'
      BY DEF document
    <3> HIDE DEF c1, c2
    <3> QED
      BY <1>3, <3>1, <3>2 DEF Reverted
  <2>2. Reverted(entry, document') = document
    <3> HIDE DEF c1, c2, between
    <3> QED
      BY <1>3, <1>5, <2>1 DEF document
  <2> QED
    BY <1>1, <1>4, <1>7, <2>2 DEF Recorded
<1> QED
  BY <1>1, <1>6, <1>7

\* A start laid is seen in what it changes, also where it takes the place of
\* itself.
LEMMA PlaceStartChanges ==
  ASSUME grid \in [Cells -> Codes], NEW cell \in Cells, PlaceStart(cell)
  PROVE  LET box == StartBox(cell, salidaVertical)
             between == Paint(grid, TakeAway({x \in DOMAIN grid : isSalidaCell(grid[x])}))
         IN  OldValues(between, Lay(between, box, SALIDA)) # NoStroke
<1> DEFINE box == StartBox(cell, salidaVertical)
           old == {x \in DOMAIN grid : isSalidaCell(grid[x])}
           between == Paint(grid, TakeAway(old))
           lay == Lay(between, box, SALIDA)
<1>1. cell \in box
  <2>1. cell = <<cell[1], cell[2]>> /\ cell[1] \in Int /\ cell[2] \in Int
    BY SizesAssumption DEF Cells
  <2>2. \A h, w \in Nat \ {0} : <<cell[1], cell[2]>> \in Box(cell[1], cell[2], h, w)
    BY <2>1 DEF Box
  <2> QED
    BY <2>1, <2>2, SizesAssumption DEF StartBox
<1>2. \A x \in box : x \in Cells /\ isTransitable(grid[x])
  BY DEF PlaceStart
<1>3. lay[cell] \in {2, 10, 11} /\ DOMAIN lay = box
  BY <1>1, StrokesWrite, PieceCodes
<1>4. between[cell] \notin {2, 10, 11}
  <2>1. DOMAIN TakeAway(old) = old /\ \A x \in old : TakeAway(old)[x] \in {1, 7, 9}
    BY StrokesWrite, PieceCodes
  <2>2. cell \in old <=> isSalidaCell(grid[cell])
    OBVIOUS
  <2>3. between[cell] = IF cell \in old THEN TakeAway(old)[cell] ELSE grid[cell]
    BY <2>1, Painted
  <2> HIDE DEF old, between
  <2> QED
    BY <2>1, <2>2, <2>3, KindsOfCodes
<1> HIDE DEF box, old, between, lay
<1>5. cell \in DOMAIN OldValues(between, lay)
  BY <1>1, <1>3, <1>4 DEF OldValues
<1>6. OldValues(between, lay) # NoStroke
  BY <1>5 DEF NoStroke
<1> QED
  BY <1>6 DEF lay, between, old, box

LEMMA ClicksAreRecorded ==
  ASSUME grid \in [Cells -> Codes], Typed, checkpointOrder \in Seq(CheckpointRecord),
         \A i \in DOMAIN checkpointOrder : checkpointOrder[i].cells \subseteq Cells,
         NEW cell \in Cells, MousePress(cell)
  PROVE  Recorded /\ direccionSalida' \in 0 .. 3
<1>0. DOMAIN grid = Cells /\ direccionSalida \in 0 .. 3 /\ hoverDireccionSalida \in 0 .. 3
  BY DEF Typed
<1>1. ASSUME PlaceStart(cell) PROVE Recorded /\ direccionSalida' \in 0 .. 3
  <2> DEFINE old == {x \in DOMAIN grid : isSalidaCell(grid[x])}
             box == StartBox(cell, salidaVertical)
             take == TakeAway(old)
             lay == Lay(Paint(grid, take), box, SALIDA)
  <2>1. /\ UndoBlock(take, lay, FALSE, TRUE) /\ checkpointOrder' = checkpointOrder
        /\ direccionSalida' = hoverDireccionSalida /\ \A x \in box : x \in DOMAIN grid
    BY <1>1 DEF PlaceStart
  <2>2. take \in Strokes
    BY <1>0, StrokesAreTyped
  <2>3. lay \in Strokes
    BY <1>0, <2>1, StrokesAreTyped
  <2>4. OldValues(Paint(grid, take), lay) # NoStroke
    BY <1>1, PlaceStartChanges
  <2> HIDE DEF take, lay, old, box
  <2> QED
    BY <1>0, <2>1, <2>2, <2>3, <2>4, BlockRecords
<1>2. ASSUME PlaceFinish(cell) PROVE Recorded /\ direccionSalida' \in 0 .. 3
  <2> DEFINE old == {x \in DOMAIN grid : isMetaCell(grid[x])}
             take == TakeAway(old)
             free == {x \in FinishBox(cell) \cap DOMAIN grid : isTransitable(Paint(grid, take)[x])}
             lay == Lay(Paint(grid, take), free, META)
  <2>1. /\ UndoBlock(take, lay, FALSE, FALSE) /\ checkpointOrder' = checkpointOrder
        /\ direccionSalida' = direccionSalida
    BY <1>2 DEF PlaceFinish
  <2>2. take \in Strokes
    BY <1>0, StrokesAreTyped
  <2>3. free \subseteq Cells
    BY <1>0
  <2> HIDE DEF free
  <2>4. lay \in Strokes
    BY <2>3, StrokesAreTyped
  <2> HIDE DEF take, lay, old
  <2> QED
    BY <1>0, <2>1, <2>2, <2>4, BlockRecords
<1>3. ASSUME AddCheckpoint(cell) PROVE Recorded /\ direccionSalida' \in 0 .. 3
  <2> DEFINE free == {x \in CheckpointBox(cell, checkpointVertical) \cap DOMAIN grid :
                        isTransitable(grid[x])}
             lay == Lay(grid, free, CHECKPOINT)
  <2>1. UndoBlock(NoStroke, lay, TRUE, FALSE) /\ direccionSalida' = direccionSalida
    BY <1>3 DEF AddCheckpoint
  <2>2. free \subseteq Cells
    BY <1>0
  <2> HIDE DEF free
  <2>3. lay \in Strokes /\ NoStroke \in Strokes
    BY <2>2, StrokesAreTyped
  <2> HIDE DEF lay
  <2> QED
    BY <1>0, <2>1, <2>3, BlockRecords
<1>4. ASSUME EraseStart(cell) PROVE Recorded /\ direccionSalida' \in 0 .. 3
  <2> DEFINE old == {x \in DOMAIN grid : isSalidaCell(grid[x])}
             take == TakeAway(old)
  <2>1. /\ UndoBlock(take, NoStroke, FALSE, TRUE) /\ direccionSalida' = direccionSalida
        /\ checkpointOrder' = checkpointOrder
    BY <1>4 DEF EraseStart
  <2>2. take \in Strokes /\ NoStroke \in Strokes
    BY <1>0, StrokesAreTyped
  <2> HIDE DEF take
  <2> QED
    BY <1>0, <2>1, <2>2, BlockRecords
<1>5. ASSUME EraseFinish(cell) PROVE Recorded /\ direccionSalida' \in 0 .. 3
  <2> DEFINE old == {x \in DOMAIN grid : isMetaCell(grid[x])}
             take == TakeAway(old)
  <2>1. /\ UndoBlock(take, NoStroke, FALSE, FALSE) /\ direccionSalida' = direccionSalida
        /\ checkpointOrder' = checkpointOrder
    BY <1>5 DEF EraseFinish
  <2>2. take \in Strokes /\ NoStroke \in Strokes
    BY <1>0, StrokesAreTyped
  <2> HIDE DEF take
  <2> QED
    BY <1>0, <2>1, <2>2, BlockRecords
<1>6. ASSUME EraseCheckpoint(cell) PROVE Recorded /\ direccionSalida' \in 0 .. 3
  <2> DEFINE listed == {i \in DOMAIN checkpointOrder : cell \in checkpointOrder[i].cells}
             it == CHOOSE i \in listed : \A j \in listed : i <= j
             take == TakeAway(checkpointOrder[it].cells)
  <2>1. /\ direccionSalida' = direccionSalida
        /\ \/ UndoBlock(NoStroke, NoStroke, TRUE, FALSE)
           \/ listed # {} /\ UndoBlock(take, NoStroke, TRUE, FALSE)
    BY <1>6 DEF EraseCheckpoint
  <2>2. listed # {} => checkpointOrder[it].cells \subseteq Cells
    <3> SUFFICES ASSUME listed # {} PROVE it \in listed
      OBVIOUS
    <3>1. DOMAIN checkpointOrder \subseteq Nat
      OBVIOUS
    <3>2. listed \in SUBSET Nat
      BY <3>1
    <3>3. \E k \in listed : \A j \in listed : k <= j
      <4> HIDE DEF listed
      <4> QED
        BY <3>2, LeastNumber
    <3> HIDE DEF listed
    <3> QED
      BY <3>3
  <2> HIDE DEF it, listed
  <2>3. NoStroke \in Strokes /\ (listed # {} => take \in Strokes)
    BY <2>2, StrokesAreTyped
  <2> HIDE DEF take
  <2> QED
    BY <1>0, <2>1, <2>3, BlockRecords
<1> QED
  BY <1>1, <1>2, <1>3, <1>4, <1>5, <1>6 DEF MousePress

-----------------------------------------------------------------------------
\* Each handler keeps the invariant.
LEMMA FirstWindow == ASSUME Init PROVE EInv
<1>1. UndoLimit \in Nat
  BY EditorAssumption
<1>2. Typed
  BY <1>1 DEF Init, Typed
<1>3. MapsOfTheCity /\ EntriesRevert
  BY DEF Init, MapsOfTheCity, EntriesRevert
<1>4. FilesOfTheCity
  BY DEF Init, FilesOfTheCity
<1> QED
  BY <1>2, <1>3, <1>4 DEF EInv

LEMMA ClickKeepsInv ==
  ASSUME EInv, NEW cell \in Clicks \cap DOMAIN grid, MousePress(cell)
  PROVE  EInv'
<1>1. Typed /\ MapsOfTheCity /\ EntriesRevert /\ FilesOfTheCity
  BY DEF EInv
<1>2. cell \in Cells /\ CityMap(grid, checkpointOrder)
  BY <1>1, EditorAssumption DEF MapsOfTheCity, NoStroke
<1>3. CityMap(grid', checkpointOrder')
  BY <1>1, <1>2, ClicksOnCity
<1>4. /\ grid \in [Cells -> Codes] /\ checkpointOrder \in Seq(CheckpointRecord)
      /\ \A i \in DOMAIN checkpointOrder : checkpointOrder[i].cells \subseteq Cells
  <2>1. grid \in [Cells -> Codes] /\ checkpointOrder \in Seq(CheckpointRecord)
    BY <1>2 DEF CityMap, OrderOf, CheckpointRecord
  <2>2. \A i \in DOMAIN checkpointOrder : checkpointOrder[i] \in CheckpointRecord
    BY <2>1
  <2>3. \A r \in CheckpointRecord : r.cells \subseteq Cells
    BY DEF CheckpointRecord, OpenCells
  <2> QED
    BY <2>1, <2>2, <2>3
<1>5. Recorded /\ direccionSalida' \in 0 .. 3
  BY <1>1, <1>2, <1>4, ClicksAreRecorded
<1>6. /\ hoverDireccionSalida' \in 0 .. 3 /\ salidaVertical' \in BOOLEAN
      /\ checkpointVertical' \in BOOLEAN /\ currentMatrixFile' \in DOMAIN disk' \cup {NoFile}
      /\ disk' = disk
  BY <1>1, <1>5 DEF Recorded, Typed, brush, window
<1>7. FilesOfTheCity'
  BY <1>1, <1>6 DEF FilesOfTheCity
<1>8. CASE document' = document /\ UNCHANGED <<undoStack, past>>
  <2>1. Typed'
    BY <1>1, <1>5, <1>6, <1>8 DEF Typed
  <2>2. MapsOfTheCity'
    BY <1>1, <1>3, <1>8 DEF MapsOfTheCity
  <2>3. EntriesRevert'
    BY <1>1, <1>8 DEF EntriesRevert, After
  <2> QED
    BY <1>7, <2>1, <2>2, <2>3 DEF EInv
<1>9. ASSUME NEW entry \in Entry, Reverted(entry, document') = document,
             undoStack' = Latest(Append(undoStack, entry)),
             past' = Latest(Append(past, document))
      PROVE  EInv'
  <2>1. document \in Documents
    BY <1>1, <1>4 DEF document, Documents, Typed
  <2>2. \A i \in 1 .. Len(past) : CityMap(past[i][1], past[i][2])
    BY <1>1 DEF MapsOfTheCity
  <2>3. /\ undoStack' \in Seq(Entry) /\ past' \in Seq(Documents)
        /\ Len(past') = Len(undoStack') /\ Len(undoStack') <= UndoLimit
        /\ \A i \in 1 .. Len(past') : CityMap(past'[i][1], past'[i][2])
        /\ EntriesRevert'
    BY <1>1, <1>2, <1>9, <2>1, <2>2, StackGrows
  <2>4. Typed'
    BY <1>5, <1>6, <2>3 DEF Typed
  <2>5. MapsOfTheCity'
    BY <1>3, <2>3 DEF MapsOfTheCity
  <2> QED
    BY <1>7, <2>3, <2>4, <2>5 DEF EInv
<1> QED
  BY <1>5, <1>8, <1>9 DEF Recorded

\* An undo brings the latest document back.
LEMMA UndoBringsBack ==
  ASSUME EInv, Undo
  PROVE  past # <<>> /\ document' = past[Len(past)]
<1>1. PICK n \in Nat : Len(past) = n /\ Len(undoStack) = n
  BY LenProperties DEF EInv, Typed
<1>2. n \in 1 .. n /\ past # <<>>
  <2>1. undoStack # <<>> /\ undoStack \in Seq(Entry)
    BY DEF EInv, Typed, Undo
  <2>2. n # 0
    BY <1>1, <2>1, EmptySeq
  <2>3. past # <<>>
    BY <1>1, <2>2
  <2> QED
    BY <2>2, <2>3
<1>3. Reverted(undoStack[n], document) = past[n]
  BY <1>1, <1>2 DEF EInv, EntriesRevert, After
<1>4. document' = Reverted(undoStack[n], document)
  BY <1>1 DEF Undo, Reverted, document
<1> QED
  BY <1>1, <1>2, <1>3, <1>4

LEMMA UndoKeepsInv == ASSUME EInv, Undo PROVE EInv'
<1>1. Typed /\ MapsOfTheCity /\ EntriesRevert /\ FilesOfTheCity
  BY DEF EInv
<1>2. PICK n \in Nat : Len(past) = n /\ Len(undoStack) = n
  BY <1>1, LenProperties DEF Typed
<1>3. past # <<>> /\ document' = past[n] /\ n # 0 /\ n \in 1 .. n /\ n - 1 \in Nat
  <2>1. past # <<>> /\ document' = past[n]
    BY <1>2, UndoBringsBack
  <2>2. n # 0
    BY <1>1, <1>2, <2>1, EmptySeq DEF Typed
  <2> QED
    BY <2>1, <2>2
<1>4. past \in Seq(Documents) /\ undoStack \in Seq(Entry)
  BY <1>1 DEF Typed
<1>5. /\ past' \in Seq(Documents) /\ Len(past') = n - 1
      /\ \A i \in 1 .. n - 1 : past'[i] = past[i]
  BY <1>2, <1>3, <1>4 DEF Undo
<1>6. /\ undoStack' \in Seq(Entry) /\ Len(undoStack') = n - 1
      /\ \A i \in 1 .. n - 1 : undoStack'[i] = undoStack[i]
  BY <1>2, <1>3, <1>4 DEF Undo
<1>7. /\ past[n] \in Documents /\ CityMap(past[n][1], past[n][2])
      /\ grid' = past[n][1] /\ checkpointOrder' = past[n][2] /\ direccionSalida' = past[n][3]
  BY <1>1, <1>2, <1>3, <1>4 DEF MapsOfTheCity, document
<1>8. disk' = disk /\ currentMatrixFile' = currentMatrixFile
  BY DEF Undo, window
<1>9. Typed'
  <2>1. salidaVertical' \in BOOLEAN
    BY <1>1 DEF Undo, Typed
  <2>2. direccionSalida' \in 0 .. 3
    BY <1>7 DEF Documents
  <2>3. hoverDireccionSalida' \in 0 .. 3 /\ checkpointVertical' \in BOOLEAN
    BY <1>1 DEF Undo, Typed
  <2>4. n - 1 <= UndoLimit
    BY <1>1, <1>2, EditorAssumption DEF Typed
  <2> QED
    BY <1>1, <1>5, <1>6, <1>8, <2>1, <2>2, <2>3, <2>4 DEF Typed
<1>10. MapsOfTheCity'
  <2>1. \A i \in 1 .. n - 1 : CityMap(past'[i][1], past'[i][2])
    BY <1>1, <1>2, <1>5 DEF MapsOfTheCity
  <2> QED
    BY <1>5, <1>7, <2>1 DEF MapsOfTheCity
<1>11. EntriesRevert'
  <2>1. ASSUME NEW i \in 1 .. n - 1 PROVE Reverted(undoStack'[i], After(i)') = past'[i]
    <3>1. i \in 1 .. n /\ i # n /\ (i # n - 1 => i + 1 \in 1 .. n - 1)
      OBVIOUS
    <3>2. After(i)' = IF i = n - 1 THEN document' ELSE past'[i + 1]
      BY <1>5 DEF After
    <3>3. After(i) = past[i + 1]
      BY <1>2, <3>1 DEF After
    <3>4. After(i)' = After(i)
      BY <1>3, <1>5, <3>1, <3>2, <3>3
    <3>5. Reverted(undoStack[i], After(i)) = past[i]
      BY <1>1, <1>2, <3>1 DEF EntriesRevert
    <3> QED
      BY <1>5, <1>6, <3>4, <3>5
  <2> QED
    BY <1>5, <2>1 DEF EntriesRevert
<1> QED
  BY <1>1, <1>8, <1>9, <1>10, <1>11 DEF EInv, FilesOfTheCity

LEMMA LoadKeepsInv == ASSUME EInv, NEW file, Load(file) PROVE EInv'
<1>1. Typed /\ MapsOfTheCity /\ EntriesRevert /\ FilesOfTheCity
  BY DEF EInv
<1>2. /\ hoverDireccionSalida' \in 0 .. 3 /\ salidaVertical' \in BOOLEAN
      /\ checkpointVertical' \in BOOLEAN /\ disk' = disk /\ file \in DOMAIN disk
  BY <1>1 DEF Load, Typed, brush
<1>3. FilesOfTheCity'
  BY <1>1, <1>2 DEF FilesOfTheCity
<1>4. CASE UNCHANGED <<document, undoStack, past, currentMatrixFile>>
  <2>1. Typed'
    BY <1>1, <1>2, <1>4 DEF Typed, document
  <2>2. MapsOfTheCity'
    BY <1>1, <1>4 DEF MapsOfTheCity, document
  <2>3. EntriesRevert'
    BY <1>1, <1>4 DEF EntriesRevert, After
  <2> QED
    BY <1>3, <2>1, <2>2, <2>3 DEF EInv
<1>5. CASE /\ HasMatrix(file) /\ grid' = disk[file].grid
           /\ checkpointOrder' = disk[file].checkpoints_order
           /\ direccionSalida' = direccionSalidaFromString(disk[file].direccion_salida)
           /\ undoStack' = <<>> /\ past' = <<>> /\ currentMatrixFile' = file
  <2>1. CityMap(grid', checkpointOrder')
    <3>1. CASE file \in DOMAIN FirstDisk /\ disk[file] = FirstDisk[file]
      BY <1>5, <3>1, FilesAssumption DEF HasMatrix
    <3>2. CASE MapToRace(disk[file])
      BY <1>5, <3>2 DEF MapToRace
    <3> QED
      BY <1>1, <1>2, <3>1, <3>2 DEF FilesOfTheCity
  <2>2. direccionSalida' \in 0 .. 3
    BY <1>5 DEF direccionSalidaFromString
  <2>3. Typed'
    BY <1>2, <1>5, <2>2, EditorAssumption DEF Typed
  <2>4. MapsOfTheCity' /\ EntriesRevert'
    BY <1>5, <2>1 DEF MapsOfTheCity, EntriesRevert
  <2> QED
    BY <1>3, <2>3, <2>4 DEF EInv
<1> QED
  BY <1>4, <1>5 DEF Load

LEMMA SaveKeepsInv == ASSUME EInv, NEW file, SaveMatrix(file) PROVE EInv'
<1>1. Typed /\ MapsOfTheCity /\ EntriesRevert /\ FilesOfTheCity
  BY DEF EInv
<1>2. UNCHANGED <<document, brush, undoStack, past>>
  BY DEF SaveMatrix
<1>3. EntriesRevert' /\ MapsOfTheCity'
  BY <1>1, <1>2 DEF EntriesRevert, After, MapsOfTheCity, document
<1>4. /\ currentMatrixFile' \in DOMAIN disk' \cup {NoFile} => Typed'
  BY <1>1, <1>2 DEF Typed, document, brush
<1>5. CASE WriteFile(file) /\ currentMatrixFile' = file
  <2>1. CityMap(grid, checkpointOrder)
    BY <1>1 DEF MapsOfTheCity, SaveMatrix, isPlayable, hasSalida, NoStroke
  <2>2. MapToRace(Saved)
    <3>1. direccionSalidaStr(direccionSalida) \in {DirectionNames[d] : d \in 0 .. 3}
      BY <1>1 DEF Typed, direccionSalidaStr
    <3> QED
      BY <2>1, <3>1 DEF SaveMatrix, isPlayable, hasSalida, hasMeta, hasCheckpoint, Saved, MapToRace
  <2>3. DOMAIN disk' = DOMAIN disk \cup {file}
    BY <1>5 DEF WriteFile
  <2>4. \A f \in DOMAIN disk' : disk'[f] = IF f = file THEN Saved ELSE disk[f]
    BY <1>5 DEF WriteFile
  <2>5. FilesOfTheCity'
    <3> SUFFICES ASSUME NEW f \in DOMAIN disk'
                 PROVE  \/ f \in DOMAIN FirstDisk /\ disk'[f] = FirstDisk[f]
                        \/ MapToRace(disk'[f])
      BY DEF FilesOfTheCity
    <3>1. CASE f = file
      BY <2>2, <2>4, <3>1
    <3>2. CASE f # file
      BY <1>1, <2>3, <2>4, <3>2 DEF FilesOfTheCity
    <3> QED
      BY <3>1, <3>2
  <2> QED
    BY <1>3, <1>4, <1>5, <2>3, <2>5 DEF EInv
<1>6. CASE UNCHANGED <<disk, currentMatrixFile>>
  BY <1>1, <1>3, <1>4, <1>6 DEF EInv, FilesOfTheCity, Typed
<1> QED
  BY <1>5, <1>6 DEF SaveMatrix

LEMMA TurnsKeepInv == ASSUME EInv, TurnStart \/ TurnCheckpoint PROVE EInv'
<1>1. Typed /\ MapsOfTheCity /\ EntriesRevert /\ FilesOfTheCity
  BY DEF EInv
<1>2. UNCHANGED <<document, undoStack, window, past>>
  BY DEF TurnStart, TurnCheckpoint
<1>3. /\ hoverDireccionSalida' \in 0 .. 3 /\ salidaVertical' \in BOOLEAN
      /\ checkpointVertical' \in BOOLEAN
  <2>1. CASE TurnStart
    <3>1. hoverDireccionSalida \in 0 .. 3 /\ checkpointVertical \in BOOLEAN
      BY <1>1 DEF Typed
    <3>2. hoverDireccionSalida' = (hoverDireccionSalida + 1) % 4
      BY <2>1 DEF TurnStart
    <3>3. hoverDireccionSalida' \in 0 .. 3
      BY <3>1, <3>2
    <3> QED
      BY <2>1, <3>1, <3>3 DEF TurnStart
  <2>2. CASE TurnCheckpoint
    <3>1. checkpointVertical' \in BOOLEAN
      BY <2>2, Zenon DEF TurnCheckpoint
    <3>2. hoverDireccionSalida' \in 0 .. 3 /\ salidaVertical' \in BOOLEAN
      BY <1>1, <2>2 DEF TurnCheckpoint, Typed
    <3> QED
      BY <3>1, <3>2
  <2> QED
    BY <2>1, <2>2
<1>4. Typed'
  BY <1>1, <1>2, <1>3 DEF Typed, document, window
<1>5. MapsOfTheCity' /\ EntriesRevert' /\ FilesOfTheCity'
  BY <1>1, <1>2 DEF MapsOfTheCity, EntriesRevert, After, FilesOfTheCity, document, window
<1> QED
  BY <1>4, <1>5 DEF EInv

LEMMA StepsKeepInv == EInv /\ [Next]_evars => EInv'
<1> SUFFICES ASSUME EInv, [Next]_evars PROVE EInv'
  OBVIOUS
<1>1. ASSUME NEW cell \in Clicks \cap DOMAIN grid, MousePress(cell) PROVE EInv'
  BY <1>1, ClickKeepsInv
<1>2. CASE Undo
  BY <1>2, UndoKeepsInv
<1>3. CASE TurnStart \/ TurnCheckpoint
  BY <1>3, TurnsKeepInv
<1>4. CASE LoadBaseMap \/ \E file \in DOMAIN disk : AbrirMapaJugable(file)
  BY <1>4, LoadKeepsInv DEF LoadBaseMap, AbrirMapaJugable
<1>5. CASE Guardar \/ \E file \in Files : GuardarMapaJugable(file)
  BY <1>5, SaveKeepsInv DEF Guardar, GuardarMapaJugable
<1>6. CASE UNCHANGED evars
  BY <1>6 DEF EInv, Typed, MapsOfTheCity, EntriesRevert, After, FilesOfTheCity, evars, document,
              brush, window
<1> QED
  BY <1>1, <1>2, <1>3, <1>4, <1>5, <1>6 DEF Next

LEMMA EditorInv == Spec => []EInv
BY FirstWindow, StepsKeepInv, PTL DEF Spec

-----------------------------------------------------------------------------
\* Codes, cells and directions stay what they should be, and the undo stack
\* keeps its limit, however many clicks there are.
THEOREM EditorTypes == Spec => []EditorTypeOK
<1>1. EInv => EditorTypeOK
  <2> SUFFICES ASSUME EInv PROVE EditorTypeOK
    OBVIOUS
  <2>1. Typed /\ MapsOfTheCity
    BY DEF EInv
  <2>2. CASE grid = NoStroke /\ checkpointOrder = <<>>
    BY <2>1, <2>2 DEF Typed, EditorTypeOK
  <2>3. CASE CityMap(grid, checkpointOrder)
    <3>1. grid \in [Cells -> Codes] /\ checkpointOrder \in Seq(CheckpointRecord)
      BY <2>3 DEF CityMap, OrderOf, CheckpointRecord
    <3>2. \A i \in DOMAIN checkpointOrder : checkpointOrder[i].cells \subseteq Cells
      <4>1. \A i \in DOMAIN checkpointOrder : checkpointOrder[i] \in CheckpointRecord
        BY <3>1
      <4> QED
        BY <4>1 DEF CheckpointRecord, OpenCells
    <3> QED
      BY <2>1, <3>1, <3>2 DEF Typed, EditorTypeOK
  <2> QED
    BY <2>1, <2>2, <2>3 DEF MapsOfTheCity
<1> QED
  BY <1>1, EditorInv, PTL

\* No click, undo or file makes road of a wall of the city or a wall of its
\* road, also through pieces laid, moved and taken away in any order.
THEOREM EditorKeepsWalls == Spec => []WallsKept
<1>1. EInv => WallsKept
  BY DEF EInv, MapsOfTheCity, CityMap, WallsKept, KeepsWalls, NoStroke
<1> QED
  BY <1>1, EditorInv, PTL

\* What is left of the start fits in one box of its size, and of the finish as
\* well: no sequence of clicks, undos and files leaves two.
THEOREM EditorOneStartOneFinish == Spec => []OneStartOneFinish
<1>1. EInv => OneStartOneFinish
  <2> SUFFICES ASSUME EInv PROVE OneStartOneFinish
    OBVIOUS
  <2>1. CASE grid = NoStroke
    <3>1. DOMAIN grid = {} /\ <<0, 0>> \in Cells
      BY <2>1, SizesAssumption DEF NoStroke, Cells
    <3> QED
      BY <3>1 DEF OneStartOneFinish, OneStart, OneFinish
  <2>2. CASE CityMap(grid, checkpointOrder)
    BY <2>2 DEF CityMap, OneStartOneFinish
  <2> QED
    BY <2>1, <2>2 DEF EInv, MapsOfTheCity
<1> QED
  BY <1>1, EditorInv, PTL

\* The stack of differences is one of whole documents: a click either keeps
\* the document as it was or records it, and an undo brings it back.
THEOREM EditorImplementsDocument == Spec => ImplementsDocument
<1>1. Init => U!UInit
  BY DEF Init, U!UInit
<1>2. ASSUME EInv, [Next]_evars
      PROVE  [U!Edit \/ U!Undo \/ U!Open]_<<document, past>>
  <2>1. \A s : Latest(s) = U!Latest(s)
    BY DEF Latest, U!Latest
  <2>2. ASSUME NEW cell \in Clicks \cap DOMAIN grid, MousePress(cell)
        PROVE  U!Edit \/ UNCHANGED <<document, past>>
    <3>1. cell \in Cells /\ CityMap(grid, checkpointOrder) /\ Typed
      BY <1>2, EditorAssumption DEF EInv, MapsOfTheCity, NoStroke
    <3>2. grid \in [Cells -> Codes] /\ checkpointOrder \in Seq(CheckpointRecord)
      BY <3>1 DEF CityMap, OrderOf, CheckpointRecord
    <3>3. \A i \in DOMAIN checkpointOrder : checkpointOrder[i].cells \subseteq Cells
      <4>1. \A i \in DOMAIN checkpointOrder : checkpointOrder[i] \in CheckpointRecord
        BY <3>2
      <4> QED
        BY <4>1 DEF CheckpointRecord, OpenCells
    <3>4. Recorded
      BY <2>2, <3>1, <3>2, <3>3, ClicksAreRecorded
    <3> QED
      BY <2>1, <3>4 DEF Recorded, U!Edit
  <2>3. CASE Undo
    BY <1>2, <2>3, UndoBringsBack DEF Undo, U!Undo
  <2>4. CASE TurnStart \/ TurnCheckpoint
    BY <2>4 DEF TurnStart, TurnCheckpoint
  <2>5. CASE LoadBaseMap \/ \E file \in DOMAIN disk : AbrirMapaJugable(file)
    BY <2>5 DEF LoadBaseMap, AbrirMapaJugable, Load, U!Open
  <2>6. CASE Guardar \/ \E file \in Files : GuardarMapaJugable(file)
    BY <2>6 DEF Guardar, GuardarMapaJugable, SaveMatrix
  <2>7. CASE UNCHANGED evars
    BY <2>7 DEF evars
  <2> QED
    BY <1>2, <2>2, <2>3, <2>4, <2>5, <2>6, <2>7 DEF Next
<1> QED
  BY <1>1, <1>2, EditorInv, PTL DEF Spec, ImplementsDocument, U!USpec

-----------------------------------------------------------------------------
\* What the server makes of the checkpoints of a map to race on: as many as
\* were listed, with their numbers, and the goal after them.
LEMMA CheckpointsAndGoal ==
  ASSUME NEW file, MapToRace(file)
  PROVE  \E m \in Nat \ {0} :
           /\ \A cp \in Checkpoints(file) :
                cp.order \in 1 .. m + 1 /\ cp.cells # {} /\ (cp.goal <=> cp.order = m + 1)
           /\ {cp.order : cp \in Checkpoints(file)} = 1 .. m + 1
           /\ Cardinality(Checkpoints(file)) = m + 1
<1> DEFINE orders == file.checkpoints_order
           Read(i) == [order |-> orders[i].order, cells |-> orders[i].cells, goal |-> FALSE]
           read == FileCheckpoints(file)
<1>1. orders \in Seq(CheckpointRecord) /\ \A i \in DOMAIN orders : orders[i].order = i
  BY DEF MapToRace, CityMap, OrderOf, CheckpointRecord
<1>2. PICK m \in Nat : Len(orders) = m /\ DOMAIN orders = 1 .. m
  BY <1>1, LenProperties
<1>3. m # 0
  <2>1. \E i \in DOMAIN orders : TRUE
    BY DEF MapToRace, CityMap, OrderOf
  <2> QED
    BY <1>2, <2>1
<1>4. \A i \in 1 .. m : orders[i] \in CheckpointRecord /\ orders[i].order = i
  BY <1>1, <1>2
<1>5. \A i \in 1 .. m : Read(i).order = i /\ Read(i).cells # {} /\ Read(i).goal = FALSE
  BY <1>4 DEF CheckpointRecord
<1>6. read = {Read(i) : i \in 1 .. m}
  BY <1>2 DEF FileCheckpoints
<1> HIDE DEF read, Read, orders
<1>7. MaxOrder(read) = m
  <2>1. Read(m) \in read /\ \A other \in read : other.order <= Read(m).order
    BY <1>3, <1>5, <1>6
  <2>2. \E cp \in read : \A other \in read : other.order <= cp.order
    BY <2>1
  <2>3. PICK cp \in read : /\ \A other \in read : other.order <= cp.order
                           /\ MaxOrder(read) = cp.order
    BY <2>1, <2>2 DEF MaxOrder
  <2>4. cp.order \in 1 .. m /\ m <= cp.order
    BY <1>3, <1>5, <1>6, <2>1, <2>3
  <2> QED
    BY <2>3, <2>4
<1> DEFINE goal == [order |-> m + 1, cells |-> GoalCells(file), goal |-> TRUE]
           cps == Checkpoints(file)
           nth == [i \in 1 .. m + 1 |-> IF i = m + 1 THEN goal ELSE Read(i)]
<1>8. GoalCells(file) # {}
  BY DEF MapToRace, GoalCells
<1>9. cps = read \cup {goal}
  BY <1>7, <1>8 DEF Checkpoints, read
<1>10. goal.order = m + 1 /\ goal.cells # {} /\ goal.goal = TRUE
  BY <1>8
<1> HIDE DEF cps, goal
<1>11. \A i \in 1 .. m + 1 : nth[i] = IF i = m + 1 THEN goal ELSE Read(i)
  OBVIOUS
<1>12. \A i \in 1 .. m + 1 : nth[i] \in cps /\ nth[i].order = i
  <2> SUFFICES ASSUME NEW i \in 1 .. m + 1 PROVE nth[i] \in cps /\ nth[i].order = i
    OBVIOUS
  <2>1. CASE i = m + 1
    BY <1>9, <1>10, <1>11, <2>1
  <2>2. CASE i # m + 1
    <3>1. i \in 1 .. m
      BY <2>2
    <3> QED
      BY <1>5, <1>6, <1>9, <1>11, <2>2, <3>1
  <2> QED
    BY <2>1, <2>2
<1>13. \A cp \in cps : \E i \in 1 .. m + 1 : cp = nth[i]
  <2> SUFFICES ASSUME NEW cp \in cps PROVE \E i \in 1 .. m + 1 : cp = nth[i]
    OBVIOUS
  <2>1. CASE cp = goal
    BY <1>11, <2>1
  <2>2. CASE cp \in read
    <3>1. PICK i \in 1 .. m : cp = Read(i)
      BY <1>6, <2>2
    <3>2. i \in 1 .. m + 1 /\ i # m + 1
      OBVIOUS
    <3> QED
      BY <1>11, <3>1, <3>2
  <2> QED
    BY <1>9, <2>1, <2>2
<1>14. Cardinality(cps) = m + 1
  <2>1. nth \in [1 .. m + 1 -> cps]
    BY <1>12
  <2> HIDE DEF nth
  <2>2. \A i, j \in 1 .. m + 1 : nth[i] = nth[j] => i = j
    BY <1>12
  <2>3. nth \in Bijection(1 .. m + 1, cps)
    BY <1>13, <2>1, <2>2 DEF Bijection, Injection, Surjection, IsInjective
  <2>4. ExistsBijection(1 .. m + 1, cps)
    BY <2>3 DEF ExistsBijection
  <2> QED
    BY <2>4, FS_CountingElements
<1>15. \A cp \in cps : cp.order \in 1 .. m + 1 /\ cp.cells # {} /\ (cp.goal <=> cp.order = m + 1)
  <2> SUFFICES ASSUME NEW cp \in cps
               PROVE  cp.order \in 1 .. m + 1 /\ cp.cells # {} /\ (cp.goal <=> cp.order = m + 1)
    OBVIOUS
  <2>1. CASE cp = goal
    BY <1>10, <2>1
  <2>2. CASE cp \in read
    <3>1. PICK i \in 1 .. m : cp = Read(i)
      BY <1>6, <2>2
    <3> QED
      BY <1>5, <3>1
  <2> QED
    BY <1>9, <2>1, <2>2
<1>16. {cp.order : cp \in cps} = 1 .. m + 1
  <2> HIDE DEF nth
  <2> QED
    BY <1>12, <1>15
<1> QED
  BY <1>3, <1>14, <1>15, <1>16 DEF cps

\* Whatever was drawn, undone and forgotten before, a file that the editor
\* saved is one that the server loads and that a race can be run on.
THEOREM EditorSavesRaces == Spec => []SavedMapsRace
<1>1. ASSUME EInv PROVE SavedMapsRace
  <2> SUFFICES ASSUME NEW f \in SavedFiles PROVE RaceReady(disk[f])
    BY DEF SavedMapsRace
  <2>1. MapToRace(disk[f])
    BY <1>1 DEF EInv, FilesOfTheCity, SavedFiles
  <2>2. Loads(disk[f]) /\ PoleCells(disk[f]) # {}
    BY <2>1 DEF MapToRace, Loads, PoleCells
  <2>3. PICK m \in Nat \ {0} :
          /\ \A cp \in Checkpoints(disk[f]) :
               cp.order \in 1 .. m + 1 /\ cp.cells # {} /\ (cp.goal <=> cp.order = m + 1)
          /\ {cp.order : cp \in Checkpoints(disk[f])} = 1 .. m + 1
          /\ Cardinality(Checkpoints(disk[f])) = m + 1
    BY <2>1, CheckpointsAndGoal
  <2> QED
    BY <2>2, <2>3 DEF RaceReady
<1> QED
  BY <1>1, EditorInv, PTL

=============================================================================
