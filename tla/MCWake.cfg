CONSTANTS
  Restarts = {TRUE, FALSE}
  TimerWake = 2
  MinWakeInterval = 3
  VerifierWired = FALSE
  BootQuiet = 1
  MinSyncInterval = 3
  Intervals = {1}
  Floors = {TRUE, FALSE}
  DrainRounds = 2
  MaxNow = 4
  MaxCounter = 2
  MaxSms = 1
SPECIFICATION Spec
INVARIANTS ScheduleKept TokenOnce CoverFollowsStore
PROPERTY DoorbellSpacing
