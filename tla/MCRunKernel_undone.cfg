\* A stage fails after the claim was applied.
CONSTANTS
  Obl = {1, 2, 3}
  RepairsMax = 2
  Roots = 1
  File = {1}
  Watch <- WatchAll
  Claims <- PlainClaims
  EpisodeWrites <- NoEpisodeWrites
  Outcomes = {"unsatisfied", "satisfied"}
  Preserved = {}
  SplitStreak = 1
  MaxTicks = 2
  MaxCrashes = 0
  MaxFaults = 1
  Spending = FALSE
  GoalEdits = FALSE
SPECIFICATION Spec
INVARIANTS RolledBackIsUndone
CHECK_DEADLOCK FALSE
