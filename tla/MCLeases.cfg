SPECIFICATION FairSpec
CONSTANTS
  Keys = {"AB"}
  Names = {"ann", "bob"}
  Leases = {0, 3}
  Patches <- MCPatches
  TicksPerSecond = 2
  DefaultLease = 2
  MaxLease = 3
  AgentTTL = 1
  MaxTasks = 1
  MaxTime = 3
INVARIANTS ValidState LeaseDiscipline TimelineMatchesTask
PROPERTIES LeaseEndsForAReason RenewalKeepsSeconds AbandonedLeaseEnds ImplementsLeaseService
