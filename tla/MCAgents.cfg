SPECIFICATION Spec
CONSTANTS
  Workers = {ann, bob}
  Nobody = nobody
  Work = {"AB-1"}
  Lease = 1
  Modes = {"sync", "async"}
  MaxTime = 2
  MaxFaults = 2
INVARIANTS WorkersExclusive DoneStaysDone ToldIsSaved
SYMMETRY WorkerSymmetry
CHECK_DEADLOCK FALSE
