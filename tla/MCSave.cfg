SPECIFICATION FairSpec
CONSTANTS
  Modes = {"async", "sync"}
  Callers = {c1}
  MaxActivity = 1
  DiskMayFail = TRUE
  SilentSweeps = TRUE
  LateModes = {"sync"}
  MaxVersion = 3
INVARIANTS SavedMeansOnDisk FlushDurable ArchiveFirst
PROPERTIES DiskNeverGoesBack EventuallySaved CallersReturn
