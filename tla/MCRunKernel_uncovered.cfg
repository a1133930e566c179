\* Closure through derived obligations.
CONSTANTS
  Obl = {1, 2, 3}
  RepairsMax = 2
  Roots = 1
  File = {1}
  Watch <- WatchAll
  Claims <- PlainClaims
  EpisodeWrites <- NoEpisodeWrites
  Outcomes = {"unsatisfied", "satisfied"}
  Preserved = {}
  SplitStreak = 1
  MaxTicks = 5
  MaxCrashes = 0
  MaxFaults = 0
  Spending = FALSE
  GoalEdits = FALSE
SPECIFICATION Spec
INVARIANTS CoveredCloses
CHECK_DEADLOCK FALSE
