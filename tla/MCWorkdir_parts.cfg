\* Each part on its own small instance.
CONSTANTS
  StagingCap = 1
  StagingTicks = 3
  StagingCrashes = 1
  Goals = {"g1", "g2"}
  NumRecords = 1
  MaxBatches = 4
  MaxMemoryCrashes = 1
  JsonPaths = {"j"}
  HarPaths = {"h"}
  OtherPaths = {"s"}
  Captures = {"s"}
  Contracts <- SomeContracts
  MakerClaims <- SomeClaims
  Leavings <- SomeLeavings
  GoalSizes = {1, 2, 3}
  SplitRepairStreak = 1
  MaxSplitDepth = 2
  TreeTicks = 7
  Community <- CommunityPlugins
  PluginAgents = {"codex", "claude"}
  Terminals = {"t1", "t2"}
  MaxCommands = 3
  LogContexts = {"c1", "c2"}
  MaxEvents = 3
  MaxPowerLoss = 1
  JsonFiles = {"j"}
  TextFiles = {}
  Versions = {"v"}
  Owner <- TwoNodes
  AgentActors = {"maker", "verifier"}
  GroupIds = {"p1", "p2"}
SPECIFICATION Spec
INVARIANTS
  TypeOK
  LessonsKept StagingBounded
  ActiveEarned RejectedOut
  AcceptedHolds IntentByChecker
  RootsCarried SomethingToDo
  AllowedHavePackages
  ChainIntact FaultedByRace ExportedWhole
  ClosureFromAdmitted ClosureNeverStuck
  AgentsDieWithHarness
PROPERTIES VerifiedKept
CHECK_DEADLOCK FALSE
