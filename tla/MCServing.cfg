SPECIFICATION FairSpec
CONSTANTS
  Requests = {r1}
  Buffer = 1
  MaxSweeps = 2
  MaxFaults = 1
INVARIANTS AckedIsSaved
PROPERTIES LockCoversSaves HookCallsAgain StopsInTheEnd
