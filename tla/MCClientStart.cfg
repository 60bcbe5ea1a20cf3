SPECIFICATION Spec
CONSTANTS
  NameLength <- Lengths
  Garbled = Garbled
  Races = 2
  Tables = 2
  Me = 1
  Name = "ana"
  Folder <- MapsListed
  Code = 1001
  ManyRows <- Many
  FewRows <- Few
  SampleCars <- Cars
  SampleNpcs <- Npcs
  Upgrades = {4}
  Keys = {"w"}
  MaxUnread = 2
  MaxKeys = 1
  MaxGames = 2
  MaxSnapshots = 1
CHECK_DEADLOCK FALSE
PROPERTY RaceOnlyAfterStart
