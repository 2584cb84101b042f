SPECIFICATION Spec
CONSTANTS
  Keys = {"AB", "CD"}
  Names = {"ann"}
  Leases = {}
  Patches <- MCPatches
  TicksPerSecond = 1
  DefaultLease = 1
  MaxLease = 1
  AgentTTL = 1
  MaxTasks = 3
  MaxTime = 0
INVARIANTS ValidState NoParentCycle
