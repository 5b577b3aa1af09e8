SPECIFICATION WorkerSpec
CONSTANTS
  MaxControl = 2
  MaxCards = 1
  MaxBlips = 1
INVARIANTS TrackedTurnStops
PROPERTIES WorkingEnds NamedLanesEnd NudgesRun JobsEnd OnboardingSettles
CHECK_DEADLOCK FALSE
