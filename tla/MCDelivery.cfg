CONSTANTS
  c1 = c1
  c2 = c2
  w1 = w1
  w2 = w2
  a = a
  b = b
  m1 = m1
  m2 = m2
  Worker <- MCWorker
  Channel <- MCChannel
  Tag <- MCTag
  Subscriptions <- MCSubscriptions
  Msg <- MCMsg
  IdOf <- MCIdOf
  NoId = NoId
  NoTag = NoTag
  NoMsg = NoMsg
  NoConsumer = NoConsumer
  MaxTasks = 2
SYMMETRY MCSymmetry
SPECIFICATION Spec
INVARIANT TypeOK
INVARIANT NoneVanishes
INVARIANT FairShare
INVARIANT Registered
INVARIANT TasksSuffice
CHECK_DEADLOCK FALSE
