SPECIFICATION CardsSpec
CONSTANTS
  Lanes = {"l1", "l2"}
  Classes = {"file_edit", "terminal_exec"}
  Script <- Edits
  MaxDowns = 0
  MaxFaults = 0
  MaxOutages = 0
INVARIANT Verbatim
CHECK_DEADLOCK FALSE
