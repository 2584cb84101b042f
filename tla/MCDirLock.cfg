SPECIFICATION Spec
CONSTANTS
  Procs = {"p1", "p2", "p3"}
  Host <- TwoHosts
  Forcing = {}
  MaxCrashes = 2
INVARIANTS MutualExclusion FileNamesHolder
CHECK_DEADLOCK FALSE
