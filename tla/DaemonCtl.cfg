SPECIFICATION CtlSpec
CONSTANTS
  Conns = {c1, c2, c3}
  NoConn = NoConn
  Fds = {4, 5}
  ListenFd = 3
  Backlog = 2
  MaxEvents = 10
  TxCap = 1
  MaxSent = 1
  CmdSet = {"print"}
  NonReaders = {}
  Impatient = {}
  Cuts = {}
  HalFails = FALSE
  CtlFails = FALSE
  Args = {0}
  BtnCount = 1
INVARIANT NoRequestLost
PROPERTY EventFdStable
PROPERTY SequentialOrder
PROPERTY CommandExecuted
CHECK_DEADLOCK FALSE
