SPECIFICATION Spec
CONSTANTS
  MaxActivity = 1
  Months = 2
  MaxEvents = 3
  MaxFaults = 2
  MaxImports = 2
  MaxInputs = 4
INVARIANTS MainLoads HistoryKept ReplacedKept DuplicatesHideNothing
CHECK_DEADLOCK FALSE
