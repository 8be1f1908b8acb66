SPECIFICATION FormatSpec
CONSTANTS
  c1 = c1
  h1 = h1
  h2 = h2
  Contacts <- OneContact
  NoContact = NoContact
  Kinds <- GoodOnly
  Handlers <- OneHandler
  OutboxCap = 1
  RingSize = 1
  MaxLetters = 3
  MaxIds = 3
  MaxExcuses = 1
  FlashFails = FALSE
INVARIANT RepeatsAreExcused
