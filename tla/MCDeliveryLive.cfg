SPECIFICATION FairSpec
CONSTANTS
  Ids = {1}
  Addrs = {1}
  MaxContacts = 1
  From <- OneSender
  Unreadable = {}
  Window = 1
  FetchBatch = 2
  ArrivalBatch = 2
  Keep = 1
  SeenCap = 2
  MaxChanges = 1
  MaxFaults = 1
  MaxWipes = 0
  MaxResets = 0
  StarReturnsLast = TRUE
INVARIANTS
  RemovedStaysOut
PROPERTIES
  ActiveMailDelivered
