SPECIFICATION UsbSpec
CONSTANTS
  Devs = {d1}
  Files = {f1}
  BtnCount = 1
  Minors = 1
  MaxProbes = 2
  Fails = {}
  Unpluggable = {d1}
  Unload = FALSE
  HalFile = f1
  Addr = 0
  MaxCmds = 2
  DaemonExits = TRUE
  CreateFails = TRUE
  MaxMishaps = 1
  StartFails = {"connect", "cmd_thread"}
INVARIANT UsbTypeOK
INVARIANT NoFileLeaked
INVARIANT AckedForwarded
PROPERTY HalReturns
PROPERTY HostCatchesUp
CHECK_DEADLOCK FALSE
