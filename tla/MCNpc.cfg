SPECIFICATION FairSpec
CONSTANTS
  Rows = 18
  Cols = 15
  StartLong = 6
  StartShort = 3
  CheckpointLong = 1
  FinishRadius = 0
  MaxPlayers = 8
  SlotForward = 12
  SlotSide = 8
  Maps <- Towns
  MinDistance = 3
  MaxMoving = 1
  MaxParked = 1
  Fractions = 3
  MIN_STEPS_BETWEEN_TURNS = 3
INVARIANTS TrafficKeepsToTheRoad TrafficNeverStuck StartIsClear
PROPERTIES TrafficDoesNotSpin
