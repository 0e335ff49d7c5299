SPECIFICATION Spec
CONSTANTS
  Conns = {c1, c2}
  NoConn = NoConn
  Fds = {4, 5}
  ListenFd = 3
  Backlog = 2
  MaxEvents = 1
  TxCap = 1
  MaxSent = 1
  CmdSet = {"backlight", "invalid"}
  NonReaders = {}
  Impatient = {}
  Cuts = {"mid_head", "no_params", "mid_params"}
  HalFails = TRUE
  CtlFails = TRUE
  Args = {0, 1}
  BtnCount = 1
INVARIANT DoneAsWritten
PROPERTY FdsReclaimed
CHECK_DEADLOCK FALSE
