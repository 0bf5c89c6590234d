CONSTANTS
  Conn = {k1}
  Beat = 1
  Check = 1
  Timeout = 2
  MaxDelay = 1
  MaxLine = 0
SPECIFICATION Spec
PROPERTY TimedOutAreReleased
