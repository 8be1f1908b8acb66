CONSTANTS
  l1 = l1
  l2 = l2
  None = None
  Letters <- MCLetters
  SubScreens = {"read", "log"}
  Faults = {"roadBusy", "chargeMe"}
  OutboxCap = 1
  MaxVersion = 2
  e1 = e1
  e2 = e2
  Ids <- MCIds
  MaxWrong = 1
SPECIFICATION Spec
SYMMETRY Sym
VIEW View
INVARIANTS WordsKept OneCopy GuardedScreens
CHECK_DEADLOCK FALSE
