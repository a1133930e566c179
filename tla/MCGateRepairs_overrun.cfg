\* A pending obligation before an unattested one: the repair is counted
\* under the wrong obligation.
CONSTANTS
  Obl = {1, 2}
  RepairsMax = 2
  Inputs <- OpenBeforeUnattested
  MaxRounds = 0
SPECIFICATION Spec
INVARIANT RepairsWithinCap
CHECK_DEADLOCK FALSE
