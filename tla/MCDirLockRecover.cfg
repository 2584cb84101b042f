SPECIFICATION Spec
CONSTANTS
  Procs = {"p1", "p2", "p3"}
  Host <- OneHost
  Forcing = {"p2", "p3"}
  MaxCrashes = 2
INVARIANTS RefusedForAReason
CHECK_DEADLOCK FALSE
