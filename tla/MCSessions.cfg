CONSTANTS
  k1 = k1
  k2 = k2
  c1 = c1
  c2 = c2
  q1 = q1
  q2 = q2
  t1 = t1
  t2 = t2
  Conn = {k1, k2}
  Cid = {c1, c2}
  Queue = {q1, q2}
  Tag = {t1, t2}
  Name <- MCName
  Nobody = Nobody
SYMMETRY MCSymmetry
SPECIFICATION Spec
INVARIANT TypeOK
INVARIANT NamesAreUnique
INVARIANT ChannelsTakeTheirs
PROPERTY OthersKeepTheirs
CHECK_DEADLOCK FALSE
