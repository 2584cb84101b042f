SPECIFICATION FairSpec
CONSTANTS
  Tasks = {t1, t2}
  NoTask = none
  Buffer = 1
  Wire = 1
  MaxVersion = 3
  MaxFaults = 2
  MaxClicks = 2
INVARIANTS NeverSilentlyStale
PROPERTIES EventuallyFresh DetailSettles
