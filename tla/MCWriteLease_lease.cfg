\* Three processes, ticks of any length.
CONSTANTS
  NoProc = NoProc
  Proc = {p1, p2, p3}
  TTL = 2
  MaxClock = 5
  MaxAppends = 2
SPECIFICATION Spec
SYMMETRY ProcSymmetry
INVARIANTS TypeOK LeaseExclusive CacheCurrent
CHECK_DEADLOCK FALSE
