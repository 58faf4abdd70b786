CONSTANTS
  PathOf <- MCPathOf
  Notes <- MCNotes
  Contents <- MCContents
  none = none
  NoNote = none
  Scans = {0, 1}
  ReadRoots <- MCReadRoots
  ScanDirs <- MCScanDirs
  SearchDirs <- MCReadRoots
  ArchiveDir <- MCArchive
  MaxEntries = 1
  MaxHits = 1
  RecallLimit = 1
  Scenarios <- MCScenarios
  MaxViolations = 2
  SchedulerCap = 4
  WallClock = 1
SPECIFICATION FairSpec
INVARIANT RunInv
PROPERTIES RunEnds VocabularyOnlyGrows ChangesArrive
CHECK_DEADLOCK FALSE
