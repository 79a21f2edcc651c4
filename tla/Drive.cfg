SPECIFICATION DriveSpec
CONSTANTS
  c1 = c1
  c2 = c2
  Clients = {c1, c2}
  Cwd = "lation"
  Names = {"lation", "a", "b", "f"}
  Commands <- MCCommands
  MaxItems = 6
  MaxCommands = 3
SYMMETRY ClientSymmetry
INVARIANTS
  DriveInv
PROPERTIES
  DoubledOnlyByRace
  DownloadIsComplete
CHECK_DEADLOCK FALSE
