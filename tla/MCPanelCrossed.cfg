CONSTANTS
  Debounce = 1
  RepeatDelay = 1
  RepeatInterval = 1
  PendingCapacity = 1
  MaxDrainPerPump = 2
  WatchdogTimeout = 2
  DriverWaits = TRUE
  PartialsBeforeFull = 2
  Caps = {"none", "ascii", "putAway", "sync"}
  MaxNature = 3
  MaxStrokes = 2
SPECIFICATION Spec
PROPERTY NeverAborted
CHECK_DEADLOCK FALSE
