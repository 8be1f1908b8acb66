CONSTANTS
  CommandCells = 1
  ResponseCells = 3
  Commands = {"state", "sync", "syncUser", "provision", "factory_reset", "reboot"}
  Answers <- MCAnswers
  MaxDrainRounds = 2
  MaxCommands = 3
  ReadCells = 2
  MaxLate = 1
SPECIFICATION Spec
INVARIANTS StaleExcused WholeOrNothing
PROPERTIES HaltHolds CommandAnswered
CHECK_DEADLOCK FALSE
