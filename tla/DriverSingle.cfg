SPECIFICATION Spec
CONSTANTS
  Devs = {d1, d2}
  Files = {f1}
  BtnCount = 1
  Minors = 1
  MaxProbes = 3
  Fails = {"ctx", "submit", "resubmit", "transfer"}
  Unpluggable = {d1, d2}
  Unload = TRUE
SYMMETRY DriverSymmetry
INVARIANT TypeOK
INVARIANT ContextsOutliveUse
INVARIANT ProcEntriesOwned
PROPERTY OpenedLive
CHECK_DEADLOCK FALSE
