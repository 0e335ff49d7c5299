SPECIFICATION Spec
CONSTANTS
  Conns = {c1}
  NoConn = NoConn
  Fds = {4, 5}
  ListenFd = 3
  Backlog = 2
  MaxEvents = 10
  TxCap = 1
  MaxSent = 1
  CmdSet = {"get_btn_state"}
  NonReaders = {}
  Impatient = {c1}
  Cuts = {}
  HalFails = FALSE
  CtlFails = FALSE
  Args = {0, 1}
  BtnCount = 1
INVARIANT SurvivesClients
CHECK_DEADLOCK FALSE
