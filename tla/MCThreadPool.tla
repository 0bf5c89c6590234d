--------------------------- MODULE MCThreadPool ---------------------------
(* TLC instance of ThreadPool: two workers, two threads that push, three   *)
(* tasks.  The tasks and the threads are symmetric but are kept apart,     *)
(* because liveness is checked.                                            *)
EXTENDS ThreadPool
===========================================================================
