--------------------------- MODULE MCMaintenance ---------------------------
(* TLC instance of Maintenance: three publications with ids of their own.  *)
EXTENDS Maintenance
CONSTANTS m1, m2, m3
MCMsg == {m1, m2, m3}
MCNoId == "none"
MCIdOf(m) == CASE m = m1 -> "a" [] m = m2 -> "b" [] m = m3 -> "c"
===========================================================================
