SPECIFICATION Spec
VIEW View
CONSTANTS
  Ids = {1}
  Addrs = {1}
  MaxContacts = 1
  From <- OneSender
  Unreadable = {}
  Window = 2
  FetchBatch = 2
  ArrivalBatch = 1
  Keep = 1
  SeenCap = 2
  MaxChanges = 1
  MaxFaults = 1
  MaxWipes = 1
  MaxResets = 1
  StarReturnsLast = TRUE
INVARIANTS
  CursorCovers
PROPERTIES
  EvictedStaysGone
  CursorRises
  HistoryStays
