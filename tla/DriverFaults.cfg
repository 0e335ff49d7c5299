SPECIFICATION Spec
CONSTANTS
  Devs = {d1, d2}
  Files = {f1}
  BtnCount = 2
  Minors = 2
  MaxProbes = 2
  Fails = {"submit", "proc"}
  Unpluggable = {d1, d2}
  Unload = FALSE
SYMMETRY DriverSymmetry
INVARIANT UnboundHoldsNothing
PROPERTY ReadsOwnDevice
PROPERTY WriteReachesOpened
CHECK_DEADLOCK FALSE
