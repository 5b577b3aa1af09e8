SPECIFICATION StartsSpec
CONSTANTS
  Events = {"rev1", "rev2"}
  ItemOf <- MCItemOf
  Changes <- MCChanges
  Triggers = {"plan", "review"}
  SystemOwned = {"review"}
  RateCap = 1
  Grace = 1
  Flap = 1
  Hour = 1
  Sweep = Sweep
  NoOwner = NoOwner
  NoEvent = NoEvent
  NoTrigger = NoTrigger
  MaxFaults = 1
  Steps = {1}
  MaxPlans = 2
  MaxTasks = 3
  MaxRequests = 1
  MaxWorkFaults = 1
INVARIANTS OneRunEach OnlyApprovedWork ShipsApproved
PROPERTIES EventsSettle
CHECK_DEADLOCK FALSE
