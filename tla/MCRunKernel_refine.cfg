\* One root obligation, refined by a split; two files that obligations
\* share, and a budget that may run out; no crash, no failing stage.
CONSTANTS
  Obl = {1, 2, 3}
  RepairsMax = 2
  Roots = 1
  File = {1, 2}
  Watch <- WatchOwn
  Claims <- SharedClaims
  EpisodeWrites <- NoEpisodeWrites
  Outcomes = {"unsatisfied", "satisfied"}
  Preserved = {}
  SplitStreak = 1
  MaxTicks = 6
  MaxCrashes = 0
  MaxFaults = 0
  Spending = TRUE
  GoalEdits = FALSE
SPECIFICATION Spec
INVARIANTS TypeOK AttestedContentCurrent EvidenceCommitted AdmittedClosed
CHECK_DEADLOCK FALSE
