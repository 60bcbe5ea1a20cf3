------------------------------ MODULE EditorMap ------------------------------
(***************************************************************************)
(* The map editor: the matrix with its start, finish and checkpoints, the  *)
(* undo stack of differences, and the files it opens and saves.  One       *)
(* thread runs the handlers, each to its end.                              *)
(*                                                                         *)
(* A click is taken with the tool it is made with; the window's zoom,      *)
(* scroll and previews are left out.                                       *)
(***************************************************************************)
EXTENDS MapCells, MapLoader, Sequences

CONSTANTS
  BaseMap,         \* the file of the city, which is protected
  Files,           \* the names the user may save under
  FirstDisk,       \* the files there are at first
  NoFile,
  UndoLimit,
  MaxEdits,        \* bounds for TLC: on the clicks that may change the map,
  Clicks,          \* and on the cells clicked
  DiskErrors       \* whether a file may fail to open for writing

ASSUME EditorAssumption ==
  /\ NoFile \notin Files \cup {BaseMap}
  /\ BaseMap \in DOMAIN FirstDisk
  /\ UndoLimit \in Nat \ {0} /\ DiskErrors \in BOOLEAN
  /\ MaxEdits \in Nat /\ Clicks \subseteq Cells

\* A stroke maps the cells it writes to their new codes; the empty one is also
\* the matrix of no map.
NoStroke == [x \in {} |-> 0]

\* The codes that no piece may be laid on and no piece leaves behind.
Walls == {NO_TRANSITABLE, SEMITRANSITABLE, 6, 8}
CityCode(x) == FirstDisk[BaseMap].grid[x]
OpenCells == {x \in Cells : CityCode(x) \notin Walls}
KeepsWalls(g) ==
  \A x \in DOMAIN g : IF CityCode(x) \in Walls THEN g[x] = CityCode(x) ELSE g[x] \notin Walls

OneStart(g) ==
  \E x \in Cells, v \in BOOLEAN : {y \in DOMAIN g : isSalidaCell(g[y])} \subseteq StartBox(x, v)
OneFinish(g) ==
  \E x \in Cells : {y \in DOMAIN g : isMetaCell(g[y])} \subseteq FinishBox(x)

\* The checkpoints are numbered as they are listed, and list the cells that
\* show one.
OrderOf(g, orders) ==
  /\ orders \in Seq([order : Nat, cells : (SUBSET OpenCells) \ {{}}])
  /\ \A i \in DOMAIN orders : orders[i].order = i
  /\ \A x \in DOMAIN g : isCheckpointCell(g[x]) => \E i \in DOMAIN orders : x \in orders[i].cells
CityMap(g, orders) ==
  /\ g \in [Cells -> Codes] /\ KeepsWalls(g)
  /\ OneStart(g) /\ OneFinish(g) /\ OrderOf(g, orders)

\* The files there are at first are the city's own and maps drawn on it; those
\* of the repository are.  What is no map has no matrix.
ASSUME FilesAssumption ==
  \A file \in DOMAIN FirstDisk :
    \/ FirstDisk[file].grid = NoStroke
    \/ CityMap(FirstDisk[file].grid, FirstDisk[file].checkpoints_order)

VARIABLES
  grid,                  \* MapView::grid, empty until a map is open
  checkpointOrder,
  direccionSalida,
  hoverDireccionSalida,  \* the direction of the next start
  salidaVertical,        \* the orientation of the next start
  checkpointVertical,    \* and of the next checkpoint
  undoStack,
  mapModified,
  extraJsonFields,       \* the other fields of the file read last
  currentMatrixFile,     \* MainWindow::currentMatrixFile
  disk,                  \* the file system, file name to contents
  past,                  \* history: the documents the undo stack goes back to
  edits                  \* history: clicks so far

document == <<grid, checkpointOrder, direccionSalida>>
brush == <<hoverDireccionSalida, salidaVertical, checkpointVertical>>
window == <<extraJsonFields, currentMatrixFile, disk>>
evars == <<document, brush, undoStack, mapModified, window, past, edits>>

-----------------------------------------------------------------------------
hasSalida == \E x \in DOMAIN grid : isSalidaCell(grid[x])
hasMeta == \E x \in DOMAIN grid : isMetaCell(grid[x])
hasCheckpoint == \E x \in DOMAIN grid : isCheckpointCell(grid[x])
isPlayable == hasSalida /\ hasMeta /\ hasCheckpoint

\* A handler writes in two strokes: it takes away a piece, then lays one.
Paint(g, stroke) == [x \in DOMAIN g |-> IF x \in DOMAIN stroke THEN stroke[x] ELSE g[x]]
TakeAway(cells) == [x \in cells |-> restoreOriginalValue(grid[x])]
Lay(g, cells, piece) == [x \in cells |-> mapPlacementValue(g[x], piece)]

\* recordCellChange: the old codes of the cells a stroke changes.
OldValues(g, stroke) == [x \in {y \in DOMAIN stroke : stroke[y] # g[y]} |-> g[x]]

Latest_Untrimmed(stack) == stack
Latest(stack) == IF Len(stack) > UndoLimit THEN Tail(stack) ELSE stack

\* From beginUndoBlock to endUndoBlock.  asksOrder and asksDirection say
\* whether the handler recorded the checkpoints and the direction.
UndoBlock(take, lay, asksOrder, asksDirection) ==
  LET between == Paint(grid, take)
      entry == [changes |-> <<OldValues(grid, take), OldValues(between, lay)>>,
                affectedCheckpoints |-> asksOrder,
                oldCheckpointOrder |-> IF asksOrder THEN checkpointOrder ELSE <<>>,
                affectedDireccionSalida |-> asksDirection,
                oldDireccionSalida |-> IF asksDirection THEN direccionSalida ELSE 0]
  IN  /\ grid' = Paint(between, lay)
      /\ \/ /\ entry.changes = <<NoStroke, NoStroke>> /\ ~asksOrder
            /\ UNCHANGED <<undoStack, past, mapModified>>
         \/ /\ entry.changes # <<NoStroke, NoStroke>> \/ asksOrder
            /\ undoStack' = Latest(Append(undoStack, entry))
            /\ past' = Latest(Append(past, document))
            /\ mapModified' = TRUE
      /\ edits < MaxEdits /\ edits' = edits + 1
      /\ UNCHANGED <<brush, window>>

-----------------------------------------------------------------------------
PlaceStart_KeepsOld(cell) ==
  LET box == StartBox(cell, salidaVertical)
  IN  /\ \A x \in box : x \in DOMAIN grid /\ isTransitable(grid[x])
      /\ UndoBlock(NoStroke, Lay(grid, box, SALIDA), FALSE, TRUE)
      /\ direccionSalida' = hoverDireccionSalida
      /\ UNCHANGED checkpointOrder
\* The whole start must fit, tested before the start that was there is taken
\* away.
PlaceStart(cell) ==
  LET box == StartBox(cell, salidaVertical)
      take == TakeAway({x \in DOMAIN grid : isSalidaCell(grid[x])})
  IN  /\ \A x \in box : x \in DOMAIN grid /\ isTransitable(grid[x])
      /\ UndoBlock(take, Lay(Paint(grid, take), box, SALIDA), FALSE, TRUE)
      /\ direccionSalida' = hoverDireccionSalida
      /\ UNCHANGED checkpointOrder

PlaceFinish_Anywhere(cell) ==
  LET take == TakeAway({x \in DOMAIN grid : isMetaCell(grid[x])})
      g == Paint(grid, take)
  IN  /\ UndoBlock(take, Lay(g, FinishBox(cell) \cap DOMAIN grid, META), FALSE, FALSE)
      /\ UNCHANGED <<checkpointOrder, direccionSalida>>
\* The old finish goes even if nothing of the new one can be laid.
PlaceFinish(cell) ==
  LET take == TakeAway({x \in DOMAIN grid : isMetaCell(grid[x])})
      g == Paint(grid, take)
      free == {x \in FinishBox(cell) \cap DOMAIN grid : isTransitable(g[x])}
  IN  /\ UndoBlock(take, Lay(g, free, META), FALSE, FALSE)
      /\ UNCHANGED <<checkpointOrder, direccionSalida>>

\* With no free cell there is nothing to lay, and an undo entry all the same.
\* A new checkpoint counts the cells of others in its area as its own.
AddCheckpoint(cell) ==
  LET box == CheckpointBox(cell, checkpointVertical) \cap DOMAIN grid
      free == {x \in box : isTransitable(grid[x])}
  IN  /\ UndoBlock(NoStroke, Lay(grid, free, CHECKPOINT), TRUE, FALSE)
      /\ checkpointOrder' =
           IF free = {} THEN checkpointOrder
           ELSE Append(checkpointOrder,
                       [order |-> Len(checkpointOrder) + 1,
                        cells |-> {x \in box : x \in free \/ isCheckpointCell(grid[x])}])
      /\ UNCHANGED direccionSalida

EraseStart(cell) ==
  /\ isSalidaCell(grid[cell])
  /\ UndoBlock(TakeAway({x \in DOMAIN grid : isSalidaCell(grid[x])}), NoStroke, FALSE, TRUE)
  /\ UNCHANGED <<checkpointOrder, direccionSalida>>

EraseFinish(cell) ==
  /\ isMetaCell(grid[cell])
  /\ UndoBlock(TakeAway({x \in DOMAIN grid : isMetaCell(grid[x])}), NoStroke, FALSE, FALSE)
  /\ UNCHANGED <<checkpointOrder, direccionSalida>>

Renumbered_Not(orders) == orders
Renumbered(orders) == [i \in DOMAIN orders |-> [orders[i] EXCEPT !.order = i]]

\* The first checkpoint that lists the cell goes, with whatever lies on the
\* cells it lists now.
EraseCheckpoint(cell) ==
  LET listed == {i \in DOMAIN checkpointOrder : cell \in checkpointOrder[i].cells}
      it == CHOOSE i \in listed : \A j \in listed : i <= j
  IN  /\ isCheckpointCell(grid[cell])
      /\ \/ /\ listed = {}
            /\ UndoBlock(NoStroke, NoStroke, TRUE, FALSE)
            /\ UNCHANGED checkpointOrder
         \/ /\ listed # {}
            /\ UndoBlock(TakeAway(checkpointOrder[it].cells), NoStroke, TRUE, FALSE)
            /\ checkpointOrder' = Renumbered(SubSeq(checkpointOrder, 1, it - 1)
                                    \o SubSeq(checkpointOrder, it + 1, Len(checkpointOrder)))
      /\ UNCHANGED direccionSalida

Undo_ForwardOrder ==
  /\ undoStack # <<>>
  /\ LET st == undoStack[Len(undoStack)]
     IN  /\ grid' = Paint(Paint(grid, st.changes[1]), st.changes[2])
         /\ checkpointOrder' =
              IF st.affectedCheckpoints THEN st.oldCheckpointOrder ELSE checkpointOrder
         /\ direccionSalida' =
              IF st.affectedDireccionSalida THEN st.oldDireccionSalida ELSE direccionSalida
         /\ salidaVertical' =
              IF st.affectedDireccionSalida THEN direccionSalida' % 2 = 0 ELSE salidaVertical
  /\ undoStack' = SubSeq(undoStack, 1, Len(undoStack) - 1)
  /\ past' = SubSeq(past, 1, Len(past) - 1)
  /\ UNCHANGED <<hoverDireccionSalida, checkpointVertical, mapModified, window, edits>>
\* The last block is undone backwards.  The direction of the next start is not
\* touched, its orientation is.
Undo ==
  /\ undoStack # <<>>
  /\ LET st == undoStack[Len(undoStack)]
     IN  /\ grid' = Paint(Paint(grid, st.changes[2]), st.changes[1])
         /\ checkpointOrder' =
              IF st.affectedCheckpoints THEN st.oldCheckpointOrder ELSE checkpointOrder
         /\ direccionSalida' =
              IF st.affectedDireccionSalida THEN st.oldDireccionSalida ELSE direccionSalida
         /\ salidaVertical' =
              IF st.affectedDireccionSalida THEN direccionSalida' % 2 = 0 ELSE salidaVertical
  /\ undoStack' = SubSeq(undoStack, 1, Len(undoStack) - 1)
  /\ past' = SubSeq(past, 1, Len(past) - 1)
  /\ UNCHANGED <<hoverDireccionSalida, checkpointVertical, mapModified, window, edits>>

\* The key R turns the piece of the tool in use.
TurnStart ==
  /\ hoverDireccionSalida' = (hoverDireccionSalida + 1) % 4
  /\ salidaVertical' = (hoverDireccionSalida' % 2 = 0)
  /\ UNCHANGED <<document, checkpointVertical, undoStack, mapModified, window, past, edits>>
TurnCheckpoint ==
  /\ checkpointVertical' = ~checkpointVertical
  /\ UNCHANGED <<document, hoverDireccionSalida, salidaVertical, undoStack, mapModified,
                 window, past, edits>>

-----------------------------------------------------------------------------
\* Files.  One that is not a map has no matrix.
HasMatrix(file) == disk[file].grid # NoStroke

\* FileManagement takes the other fields before it looks at the matrix, and
\* keeps them if there is none.
Load(file) ==
  /\ file \in DOMAIN disk
  /\ extraJsonFields' = disk[file].extra
  /\ \/ /\ ~HasMatrix(file)
        /\ UNCHANGED <<document, undoStack, past, currentMatrixFile>>
     \/ /\ HasMatrix(file)
        /\ grid' = disk[file].grid
        /\ checkpointOrder' = disk[file].checkpoints_order
        /\ direccionSalida' = direccionSalidaFromString(disk[file].direccion_salida)
        /\ undoStack' = <<>> /\ past' = <<>>
        /\ currentMatrixFile' = file
  /\ UNCHANGED <<brush, mapModified, disk, edits>>

\* Before it drops changes loadBaseMap asks the user, who may say yes;
\* onAbrirMapaJugable does not ask.
LoadBaseMap == Load(BaseMap)
AbrirMapaJugable(file) == Load(file)

Saved ==
  [grid |-> grid, checkpoints_order |-> checkpointOrder,
   direccion_salida |-> IF hasSalida THEN direccionSalidaStr(direccionSalida) ELSE "",
   extra |-> extraJsonFields]
WriteFile(file) ==
  disk' = [f \in DOMAIN disk \cup {file} |-> IF f = file THEN Saved ELSE disk[f]]

\* The flag goes down before the file is known to open.
SaveMatrix(file) ==
  /\ isPlayable
  /\ mapModified' = FALSE
  /\ \/ WriteFile(file) /\ currentMatrixFile' = file
     \/ DiskErrors /\ UNCHANGED <<disk, currentMatrixFile>>
  /\ UNCHANGED <<document, brush, undoStack, past, edits, extraJsonFields>>

Guardar == currentMatrixFile \notin {NoFile, BaseMap} /\ SaveMatrix(currentMatrixFile)
GuardarMapaJugable(file) == SaveMatrix(file)

-----------------------------------------------------------------------------
Init ==
  /\ grid = NoStroke /\ checkpointOrder = <<>> /\ direccionSalida = 0
  /\ hoverDireccionSalida = 0 /\ salidaVertical = TRUE /\ checkpointVertical = TRUE
  /\ undoStack = <<>> /\ mapModified = FALSE /\ past = <<>> /\ edits = 0
  /\ extraJsonFields = "none" /\ currentMatrixFile = NoFile /\ disk = FirstDisk

MousePress(cell) ==
  \/ PlaceStart(cell) \/ PlaceFinish(cell) \/ AddCheckpoint(cell)
  \/ EraseStart(cell) \/ EraseFinish(cell) \/ EraseCheckpoint(cell)

Next ==
  \/ \E cell \in Clicks \cap DOMAIN grid : MousePress(cell)
  \/ Undo \/ TurnStart \/ TurnCheckpoint
  \/ LoadBaseMap \/ \E file \in DOMAIN disk : AbrirMapaJugable(file)
  \/ Guardar \/ \E file \in Files : GuardarMapaJugable(file)

Spec == Init /\ [][Next]_evars

-----------------------------------------------------------------------------
\* Types: codes, directions and cells are what they should be, and the undo
\* stack keeps its limit.
EditorTypeOK ==
  /\ grid = NoStroke \/ (DOMAIN grid = Cells /\ \A x \in Cells : grid[x] \in Codes)
  /\ \A i \in DOMAIN checkpointOrder : checkpointOrder[i].cells \subseteq Cells
  /\ {direccionSalida, hoverDireccionSalida} \subseteq 0 .. 3
  /\ Len(undoStack) <= UndoLimit /\ Len(past) = Len(undoStack)
  /\ currentMatrixFile \in DOMAIN disk \cup {NoFile}

\* The stack of differences does what a stack of whole documents would: an
\* undo brings back the matrix, the checkpoints and the direction as they were
\* before the click, also where a start was moved onto itself.
U == INSTANCE UndoableDocument WITH doc <- document, Limit <- UndoLimit
ImplementsDocument == U!USpec

\* No click, undo, file or forgotten piece turns a wall or a slow cell of the
\* city into road, or road into a wall: all maps of a city have its walls.
WallsKept == KeepsWalls(grid)

\* There is one start and one finish at most, or what other pieces left of
\* them, after any clicks, undos and files.
OneStartOneFinish == OneStart(grid) /\ OneFinish(grid)

\* The server loads every map the editor saved, and its race can be run: the
\* checkpoints are numbered from 1 without gaps, each has cells, the goal is
\* the last and there is a start.
RaceReady(file) ==
  LET cps == Checkpoints(file)
      n == Cardinality(cps)
  IN  /\ Loads(file) /\ PoleCells(file) # {}
      /\ n > 1 /\ {cp.order : cp \in cps} = 1 .. n
      /\ \A cp \in cps : cp.cells # {} /\ (cp.goal <=> cp.order = n)
SavedFiles == {f \in DOMAIN disk : f \in DOMAIN FirstDisk => disk[f] # FirstDisk[f]}
SavedMapsRace == \A f \in SavedFiles : RaceReady(disk[f])

=============================================================================
