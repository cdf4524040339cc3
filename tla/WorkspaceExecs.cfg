SPECIFICATION Spec
CHECK_DEADLOCK FALSE
CONSTANTS
  None = None
  Uids <- MCUids
  Ids <- MCUids
  IdOf <- MCIdOf
  ResultWindow = 1
  StartTimeout = 3
  TempStartTimeout = 2
  TempCleanupDelay = 1
  Loads <- MCLoads
INVARIANTS StatusTrue ExpiryFenced IdleClockKept SecretUntilStarted
PROPERTIES ResultKept StopSettles
