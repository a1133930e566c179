\* The process dies between the Gate and the commit.
CONSTANTS
  Obl = {1, 2, 3}
  RepairsMax = 2
  Roots = 1
  File = {1}
  Watch <- WatchAll
  Claims <- PlainClaims
  EpisodeWrites <- NoEpisodeWrites
  Outcomes = {"unsatisfied", "satisfied"}
  Preserved = {}
  SplitStreak = 1
  MaxTicks = 2
  MaxCrashes = 1
  MaxFaults = 0
  Spending = FALSE
  GoalEdits = FALSE
SPECIFICATION Spec
INVARIANTS AttestedNotRolledBack
CHECK_DEADLOCK FALSE
