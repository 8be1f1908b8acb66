SPECIFICATION Spec
CONSTANTS
  Ids = {1}
  Addrs = {1}
  MaxContacts = 1
  From <- OneSender
  Unreadable = {}
  Window = 2
  FetchBatch = 2
  ArrivalBatch = 2
  Keep = 2
  SeenCap = 2
  MaxChanges = 1
  MaxFaults = 0
  MaxWipes = 0
  MaxResets = 0
  StarReturnsLast = TRUE
INVARIANTS
  HistoryNeverHeld
