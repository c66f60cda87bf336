SPECIFICATION Spec
CONSTANTS
  Keys <- SomeKeys
  Absent <- SomeAbsent
  Edited <- SomeEdited
  UnitOf <- SomeUnit
  MaxVersion = 2
  MaxEdits = 2
  MaxRecFaults = 1
  MaxRestarts = 1
  RecExitMax = 1
  FileIds = {1, 2, 3}
  NoUuid = {3}
  FileDrift = 2
  MaxFileEdits = 2
  MaxFileFaults = 2
  FileExitMax = 1
  SectorIds = {1, 2}
  MaxSectorEdits = 2
  MaxSectorFaults = 2
  SectorVersionMax = 2
  SectorExitMax = 1
  FileValues <- SomeFile
  AdminRows <- SomeRows
  IntMax = 2
  MaxAdmin = 1
  MaxSettingFaults = 1
  MaxSettingRestarts = 1
  CacheIds = {0, 1, 2}
  Sums = {1, 2}
  VersionMax = 4
  Chunk = 2
  Drift = 2
  DefaultSleep = 6
  Remaining = {0, 1, 6}
  Reset = {0, 6}
  MaxCount = 8
INVARIANT RoundVisitsAll CachedComplete RecInv
INVARIANT BlobsWhole CacheIsTable FileInv SecInv SetInv
PROPERTY RecordsFollow PositionsFollow
PROPERTY FilesDo SectorsDo PruneSparesShown MarkedAfterStored
PROPERTY RestartResumes ArrayIsMap RateGoesUp
CHECK_DEADLOCK FALSE
