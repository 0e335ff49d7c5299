SPECIFICATION Spec
CONSTANTS
  Devs = {d1}
  Files = {f1}
  BtnCount = 1
  Minors = 1
  MaxProbes = 1
  Fails = {}
  Unpluggable = {d1}
  Unload = FALSE
SYMMETRY DriverSymmetry
INVARIANT NoStaleWrite
CHECK_DEADLOCK FALSE
