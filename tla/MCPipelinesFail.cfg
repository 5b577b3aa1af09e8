SPECIFICATION Spec
CONSTANTS
  Goals = {"goal"}
  Swarms = {"swarm"}
  Slices = {"east", "west"}
  Cap = 2
  CritiqueRounds = 1
  MaxFixRounds = 1
  MaxUpsets = 1
INVARIANTS FailureShows
CHECK_DEADLOCK FALSE
