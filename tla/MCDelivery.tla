----------------------------- MODULE MCDelivery -----------------------------
(* TLC instance of Delivery: two workers, two channels, two tags, and two   *)
(* messages with ids of their own, as generate_id gives them.               *)
EXTENDS Delivery
CONSTANTS c1, c2, w1, w2, a, b, m1, m2
MCWorker == {w1, w2}
MCChannel == {c1, c2}
MCTag == {a, b}
MCSubscriptions == {<<a, TRUE>>, <<b, FALSE>>}
MCMsg == {m1, m2}
MCIdOf == [m \in MCMsg |-> m]
MCSymmetry ==
  {p @@ q @@ r : p \in Permutations(MCWorker), q \in Permutations(MCChannel),
                 r \in Permutations(MCMsg)}
===========================================================================
