CONSTANTS
  Conn = {k1, k2}
  Beat = 1
  Check = 1
  Timeout = 2
  MaxDelay = 1
  MaxLine = 1
SPECIFICATION Spec
INVARIANT TypeOK
INVARIANT OnlyTheSilentAreShut
INVARIANT SilenceIsNoticed
PROPERTY EndsAreForgotten
