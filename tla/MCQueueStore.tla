--------------------------- MODULE MCQueueStore ---------------------------
(* TLC instance of QueueStore: three publications; the last two carry the  *)
(* same id unless noted, and one carries none.                             *)
EXTENDS QueueStore
CONSTANTS m1, m2, m3
MCMsg == {m1, m2, m3}
MCNoId == "none"
MCIdOf(m) == IF m = m1 THEN "none" ELSE "a"
===========================================================================
