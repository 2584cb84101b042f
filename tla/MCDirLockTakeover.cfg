SPECIFICATION Spec
CONSTANTS
  Procs = {"p1", "p2", "p3"}
  Host <- OneHost
  Forcing = {}
  MaxCrashes = 1
INVARIANTS MutualExclusion
CHECK_DEADLOCK FALSE
