SPECIFICATION Spec
CONSTANTS
  Runs = {"rts", "other"}
  Programs <- MCPrograms
  ShortKey <- MCShortKey
  TargetChoices <- MCTargets
  KeepChoices = {TRUE, FALSE}
  None = None
  PipeSize = 1
  Chunks = {0, 2}
  Timeout = 1
INVARIANTS
  OwnListing
  TargetsAccounted
  DirectoriesKept
PROPERTIES
  Terminates
CHECK_DEADLOCK FALSE
