SPECIFICATION PartsSpec
CONSTANTS
  Replicas = {"r1", "r2"}
  Lanes = {"w1", "w2", "reader"}
  Repos = {"repo"}
  RepoOf <- Writes
  NoRepo = "none"
  NoLane = "none"
  NoReplica = "none"
  Cap = 1
  Items = {k1, k2}
  Runs = {ann, ben}
  None = None
  OwnerOf <- SelfOwned
  RepoOfRun <- OnOneRepo
  Askers = {"lane"}
  MaxBlocks = 1
  Sources = {"n1", "n2", "n3"}
  Corpus = 2
  MaxCandidates = 2
  MaxNights = 2
  MaxEnds = 1
  Proposals = {"proposal"}
  Ideas = {"idea"}
  Calls = {"c1", "c2", "c3"}
  NoCall = "none"
  MaxRuns = 3
  MaxSlips = 1
  Tools = {"edit", "push", "ask_user", "compact"}
  Mutating = {"edit"}
  Journaled = {"edit"}
  Flaky = {"edit"}
  Rule <- Ruling
  Goal = TRUE
  ForceStop = 2
  Limit = 14
  Floor = 4
  Window = 2
  MaxLength = 7
  MaxCalls = 2
  MaxPacked = 2
  MaxMessages = 4
  MaxNudges = 1
  MaxTurnFaults = 1
  MaxEvents = 2
  Poison = {}
  MaxTries = 2
  Drains = {"drain"}
  MaxDirect = 1
  MaxMoves = 1
  MaxFaults = 0
  MaxCrashes = 0
SYMMETRY Interchangeable
INVARIANTS OneWriter CapBound OnlyDecidedRun RunsOnce BlockFresh OneRunPerThing InOrder
PROPERTIES PairsMended MarkedWasTold
CHECK_DEADLOCK FALSE
