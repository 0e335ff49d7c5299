SPECIFICATION LibSpec
CONSTANTS
  BtnCount = 2
  Cbks = {c1, c2}
  NULL = NULL
  Threads = {t1, t2}
  MaxRegs = 3
  CreateFails = TRUE
  DaemonExits = TRUE
INVARIANT LibTypeOK
INVARIANT ThreadFollowsRegistration
INVARIANT NullOnlyUnregistering
PROPERTY EventsAlternate
PROPERTY ChangeTold
PROPERTY RegisterReturns
CHECK_DEADLOCK FALSE
