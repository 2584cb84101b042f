SPECIFICATION Spec
CONSTANTS
  Clients = {c1, c2}
  Emails = {e1}
  Admitted = {e1}
  Passwords = {p1, p2}
  TTL = 2
  Window = 2
  MaxFailures = 2
  MaxTime = 4
  MaxSessions = 2
  MaxRestarts = 1
INVARIANTS SessionNeedsPassword FailuresBounded
PROPERTIES EndedStaysEnded SessionEndsForAReason
SYMMETRY BrowserSymmetry
CHECK_DEADLOCK FALSE
