SPECIFICATION SecSpec
CONSTANTS
  SectorIds = {1, 2}
  MaxSectorEdits = 2
  MaxSectorFaults = 0
  SectorVersionMax = 2
  SectorExitMax = 1
PROPERTY ListedNotMarked
CHECK_DEADLOCK FALSE
