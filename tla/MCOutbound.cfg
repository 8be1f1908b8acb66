SPECIFICATION Spec
CONSTANTS
  c1 = c1
  h1 = h1
  h2 = h2
  Contacts <- OneContact
  NoContact = NoContact
  Kinds <- AllKinds
  Handlers <- OneHandler
  OutboxCap = 2
  RingSize = 4
  MaxLetters = 2
  MaxIds = 2
  MaxExcuses = 1
  FlashFails = TRUE
INVARIANTS TypeOK NothingLost RepeatsAreExcused OneTerminalAck SentMeansTaken NothingLostInv
PROPERTY KeepsThePromise
