SPECIFICATION Spec
CONSTANTS
  Rows = 2
  Cols = 3
  StartLong = 2
  StartShort = 1
  CheckpointLong = 2
  FinishRadius = 0
  MaxPlayers = 8
  SlotForward = 4
  SlotSide = 4
  BaseMap = "city"
  Files = {"mine"}
  FirstDisk <- SmallDisk
  NoFile = "none"
  UndoLimit = 2
  MaxEdits = 3
  DiskErrors = TRUE
  Clicks <- SmallClicks
INVARIANTS EditorTypeOK WallsKept OneStartOneFinish SavedMapsRace
PROPERTIES ImplementsDocument
