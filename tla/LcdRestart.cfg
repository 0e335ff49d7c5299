SPECIFICATION Spec
CONSTANTS
  StrSize = 4
  LowLines = 15
  MaxCalls = 3
  MaxLost = 1
  Words <- MCWords
  Texts <- MCTexts
  Switches = {"off", "1", "dim"}
  Numbers = {0, 2, 3}
INVARIANT LcdTypeOK
INVARIANT InStep
INVARIANT ShowsWanted
INVARIANT DarkOnlyIfAsked
CHECK_DEADLOCK FALSE
