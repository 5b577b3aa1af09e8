SPECIFICATION FairSpec
CONSTANTS
  MaxEvents = 2
  Poison = {2}
  MaxTries = 2
  Drains = {d1}
  MaxMoves = 1
  MaxDirect = 1
  MaxFaults = 2
  MaxCrashes = 1
INVARIANTS AckedIsRecorded FramesTrue
PROPERTIES LogSpec LandedIsRecorded
CHECK_DEADLOCK FALSE
