SPECIFICATION Spec
CONSTANTS
  c1 = c1
  h1 = h1
  h2 = h2
  Contacts <- OneContact
  NoContact = NoContact
  Kinds <- GoodOnly
  Handlers <- TwoHandlers
  OutboxCap = 2
  RingSize = 4
  MaxLetters = 1
  MaxIds = 1
  MaxExcuses = 0
  FlashFails = TRUE
INVARIANT OneTerminalAck
