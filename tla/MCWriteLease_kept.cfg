\* A tick that has ended still owns the lease file.
CONSTANTS
  NoProc = NoProc
  Proc = {p1, p2}
  TTL = 2
  MaxClock = 5
  MaxAppends = 2
SPECIFICATION Spec
INVARIANTS FinishedDropsLease
CHECK_DEADLOCK FALSE
