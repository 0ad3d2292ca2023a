\* One evaluation check, one exchange, one note, one death; caps that a commitment just reaches.
CONSTANTS
  Checks = 1
  Notes = {1}
  ByteCap = 23
  EntryCap = 12
  ResponseCap = 2
  RecordCap = 1
  LogCap = 2
  ArtifactCap = 3
  Fillers <- MCFillers
  Growth = 1
  MaxFaults = 1
SPECIFICATION StorageSpec
CHECK_DEADLOCK FALSE
INVARIANTS TreeIsScannable ReservedRoomStays
