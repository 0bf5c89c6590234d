CONSTANTS
  m1 = m1
  m2 = m2
  m3 = m3
  Msg <- MCMsg
  IdOf <- MCIdOf
  NoId <- MCNoId
  NoMsg = NoMsg
SPECIFICATION MSpec
INVARIANT MTypeOK
INVARIANT OnlyLateOffsetsStray
INVARIANT CompactedButTheUndead
PROPERTY StaysFifo
