SPECIFICATION Spec
CONSTANTS
  MaxChanges = 2
  MaxFaults = 3
  MaxCrashes = 3
  Ages = TRUE
  LostReplies = FALSE
INVARIANT NoticeOnce
