---------------------------- MODULE MCRouteLoop ----------------------------
(* TLC instance of RouteLoop: every key of up to three segments over two   *)
(* words, every pattern of up to three segments over the words and the two *)
(* wildcards.                                                              *)
EXTENDS RouteLoop

UpTo(n, S) == UNION {[1..m -> S] : m \in 0..n}
MCKeys     == UpTo(3, {"a", "b"})
MCPatterns == UpTo(3, {"a", "b", "*", "#"})
=============================================================================
