CONSTANTS
  CommandCells = 1
  ResponseCells = 3
  Commands = {"state", "sync", "syncUser", "provision", "reboot"}
  Answers <- MCAnswers
  MaxDrainRounds = 2
  MaxCommands = 3
  ReadCells = 2
  MaxLate = 1
SPECIFICATION Spec
PROPERTY EveryCommandAnswered
CHECK_DEADLOCK FALSE
