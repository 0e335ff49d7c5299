SPECIFICATION Spec
CONSTANTS
  Conns = {c1, c2}
  NoConn = NoConn
  Fds = {4, 5}
  ListenFd = 3
  Backlog = 1
  MaxEvents = 10
  TxCap = 1
  MaxSent = 2
  CmdSet = {"clear", "get_btn_state"}
  NonReaders = {c2}
  Impatient = {c1}
  Cuts = {}
  HalFails = FALSE
  CtlFails = FALSE
  Args = {0, 1}
  BtnCount = 1
INVARIANT TypeOK
INVARIANT DoneAsWritten
INVARIANT ReplyMatches
PROPERTY ImplementsService
PROPERTY OpenClientServed
CHECK_DEADLOCK FALSE
