SPECIFICATION Spec
CONSTANTS
  Hals = {"rpi", "x86"}
  MaxStarts = 3
  MaxSignals = 2
  MaxErrors = 2
  Fails = {"signal", "lcd_init", "hal_btn_init", "socket", "bind", "chmod", "listen", "epoll"}
INVARIANT TypeOK
INVARIANT Reachable
INVARIANT NoFileLeft
INVARIANT LightsOutOnce
PROPERTY StartServes
PROPERTY SignalEnds
CHECK_DEADLOCK FALSE
