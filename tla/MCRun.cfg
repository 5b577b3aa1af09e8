SPECIFICATION RunSpec
CONSTANTS
  Blueprints <- AskAndPlan
  MaxThreads = 2
  MaxOps = 2
  Slots = {s1, s2}
  MaxCrashes = 1
  StubbornDocker = TRUE
  Lanes = {"l1", "l2"}
  Classes = {"terminal_exec"}
  Script <- TwoLanes
  MaxDowns = 1
  MaxFaults = 1
  MaxOutages = 1
  MaxTroubles = 1
SYMMETRY SlotSymmetry
INVARIANTS UnnamedBoxHasCause Consent ChannelAgrees
PROPERTIES InterruptedQuiet ClosedStaysClosed
CHECK_DEADLOCK FALSE
