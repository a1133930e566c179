\* Two sessions of at most two ticks on two nodes, one of them killed.
CONSTANTS
  MaxTicksSoft = 2
  Leaves = 2
  Events = {1}
  MaxSessions = 2
  MaxCuts = 1
  Swarm <- Policies
SPECIFICATION Spec
INVARIANTS TypeOK KeptTicksUnique ManifestTruthful
PROPERTIES EndedStaysReported SessionEnds
CHECK_DEADLOCK FALSE
