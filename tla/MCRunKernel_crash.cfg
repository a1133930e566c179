\* Two root obligations, partitioned by a split; crashes, failing stages,
\* claims of three side-effect classes, goal edits.
CONSTANTS
  Obl = {1, 2}
  RepairsMax = 1
  Roots = 2
  File = {1}
  Watch <- WatchAll
  Claims <- FinalizedClaims
  EpisodeWrites <- NoEpisodeWrites
  Outcomes = {"unsatisfied", "satisfied"}
  Preserved = {}
  SplitStreak = 1
  MaxTicks = 4
  MaxCrashes = 1
  MaxFaults = 1
  Spending = FALSE
  GoalEdits = TRUE
SPECIFICATION Spec
INVARIANTS RevisionsReached SuccessIsClosed OneActiveContract CoveredCloses
PROPERTIES EndedStaysEnded
CHECK_DEADLOCK FALSE
