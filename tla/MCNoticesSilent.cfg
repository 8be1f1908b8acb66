SPECIFICATION Spec
CONSTANTS
  MaxChanges = 2
  MaxFaults = 1
  MaxCrashes = 0
  Ages = FALSE
  LostReplies = FALSE
INVARIANT NoSilentChange
