\* Every kind of claim, keys included; a crash and a failing stage.
CONSTANTS
  Obl = {1, 2, 3}
  RepairsMax = 2
  Roots = 1
  File = {1}
  Watch <- WatchAll
  Claims <- EveryClaim
  EpisodeWrites <- AnyEpisodeWrites
  Outcomes = {"unsatisfied", "satisfied"}
  Preserved = {}
  SplitStreak = 1
  MaxTicks = 3
  MaxCrashes = 1
  MaxFaults = 1
  Spending = FALSE
  GoalEdits = FALSE
SPECIFICATION FairSpec
PROPERTIES TickEnds OutcomeSpec
CHECK_DEADLOCK FALSE
