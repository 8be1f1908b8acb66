CONSTANTS
  Restarts = {TRUE}
  TimerWake = 2
  MinWakeInterval = 3
  VerifierWired = FALSE
  BootQuiet = 1
  MinSyncInterval = 3
  Intervals = {1}
  Floors = {FALSE}
  DrainRounds = 2
  MaxNow = 5
  MaxCounter = 2
  MaxSms = 1
SPECIFICATION Spec
INVARIANT FlagRaised
