SPECIFICATION ConsoleSpec
CONSTANTS
  Runs = {"r1"}
  Threads = {1, 2}
  RunOf <- MCOneRun
  NoRun = "none"
  QueueSize = 1
  Page = 2
  Events <- MCEvents
  MaxOpens = 1
  MaxSpent = 1
  Lanes = {"l1"}
  Classes = {"terminal_exec"}
  Script <- OneLane
  MaxDowns = 1
  MaxFaults = 0
  MaxOutages = 1
INVARIANT OneWordOneCall
PROPERTIES SeesWhatItMissed ThreadNeverTruncated RequestGetsCard DecisionReaches
CHECK_DEADLOCK FALSE
