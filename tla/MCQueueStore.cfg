CONSTANTS
  m1 = m1
  m2 = m2
  m3 = m3
  Msg <- MCMsg
  IdOf <- MCIdOf
  NoId <- MCNoId
  NoMsg = NoMsg
SPECIFICATION Spec
INVARIANT TypeOK
INVARIANT OwnsItsRecord
INVARIANT CompactedIsCrashSafe
PROPERTY ImplementsFifo
