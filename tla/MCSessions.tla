---------------------------- MODULE MCSessions ----------------------------
(* TLC instance of Sessions: two connections with two channels each, a     *)
(* queue with two tags that all of them want, and one with the same tag.   *)
EXTENDS Sessions, TLC
CONSTANTS k1, k2, c1, c2, q1, q2, t1, t2
MCName == {<<q1, t1>>, <<q1, t2>>, <<q2, t1>>}
MCSymmetry == {p @@ q : p \in Permutations({k1, k2}), q \in Permutations({c1, c2})}
===========================================================================
