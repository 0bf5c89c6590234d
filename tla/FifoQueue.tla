----------------------------- MODULE FifoQueue -----------------------------
(***************************************************************************)
(* What a queue name of the broker promises its users at the least,        *)
(* whatever becomes of the file behind it.  While the queue is up a        *)
(* message stays until it is taken, in any order; the queue never invents  *)
(* one, never holds one twice and never lets one overtake another.  Only   *)
(* when it goes down (deleted, or the broker ends or dies) and comes up    *)
(* again may messages be lost and taken ones be back, still in their order.*)
(***************************************************************************)
EXTENDS Integers, SequencesExt

CONSTANT Msg

VARIABLES up,      \* the queue is declared and its broker runs
          queue,   \* the messages waiting, oldest first
          sent     \* every message offered so far, in order

\* t is s with some of its elements left out.
IsSubSequence(t, s) ==
  \E f \in [DOMAIN t -> DOMAIN s] :
    /\ \A i, j \in DOMAIN t : i < j => f[i] < f[j]
    /\ \A i \in DOMAIN t : t[i] = s[f[i]]

Init == up = FALSE /\ queue = <<>> /\ sent = <<>>

Open ==
  /\ ~up /\ up' = TRUE
  /\ queue' = <<>> \/ IsSubSequence(queue', sent)
  /\ UNCHANGED sent

Offer(m) ==
  /\ up /\ m \notin ToSet(sent)
  /\ sent' = Append(sent, m)
  /\ queue' = Append(queue, m)
  /\ UNCHANGED up

\* Offered while the broker goes down: the message may or may not survive.
OfferAndCrash(m) ==
  /\ up /\ m \notin ToSet(sent)
  /\ sent' = Append(sent, m)
  /\ up' = FALSE /\ queue' = <<>>

Take(k) ==
  /\ up /\ k \in DOMAIN queue
  /\ queue' = RemoveAt(queue, k)
  /\ UNCHANGED <<up, sent>>

Close ==
  /\ up /\ up' = FALSE
  /\ queue' = <<>>
  /\ UNCHANGED sent

Next ==
  \/ Open \/ Close
  \/ \E m \in Msg : Offer(m) \/ OfferAndCrash(m)
  \/ \E k \in DOMAIN queue : Take(k)

Spec == Init /\ [][Next]_<<up, queue, sent>>

============================================================================
