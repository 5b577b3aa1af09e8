SPECIFICATION FleetSpec
CONSTANTS
  Threads = {1, 2}
  Words = {"failed"}
  Slots = {"a", "b"}
  NoThread = 0
  Default = 2
  MaxRoots = 1
  MaxMoves = 1
  Replicas = {"r1"}
  Lanes = {"s1", "s2"}
  NoLane = "none"
  NoReplica = "none"
  MaxSlices = 2
  MaxFaults = 1
  MaxCrashes = 1
INVARIANTS NoPhantom  SpendBounded
PROPERTIES SlotFreed KeysReleased
CHECK_DEADLOCK FALSE
