----------------------------- MODULE RouteLoop -----------------------------
(***************************************************************************)
(* The two loops of matchSegments (src/src/server/route.hpp), one          *)
(* iteration a step.  ki and pi count the segments already consumed; the   *)
(* code keeps the offsets of their first characters.                       *)
(***************************************************************************)
EXTENDS Route

CONSTANTS Keys, Patterns   \* routing keys and binding keys to match

ASSUME KeysAssumption == /\ \A k \in Keys : k \in Seq(STRING)
                         /\ \A p \in Patterns : p \in Seq(STRING)

VARIABLES key, pattern, ki, pi,
          pc,      \* "walk": first loop, "tail": second loop, "done"
          result   \* what the function returned

vars == <<key, pattern, ki, pi, pc, result>>

Init ==
  /\ key \in Keys /\ pattern \in Patterns
  /\ ki = 0 /\ pi = 0
  /\ pc = "walk" /\ result = FALSE

Return(b) == pc' = "done" /\ result' = b /\ UNCHANGED <<key, pattern, ki, pi>>

Walking == pc = "walk" /\ ki < Len(key) /\ pi < Len(pattern)
Agree   == pattern[pi + 1] \in {"#", "*", key[ki + 1]}
LastHash == pi + 1 = Len(pattern) /\ pattern[pi + 1] = "#"

\* First loop: a segment that does not match, a final '#', or one segment
\* of each side consumed.
Mismatch == Walking /\ ~Agree /\ Return(FALSE)
FinalHash == Walking /\ Agree /\ LastHash /\ Return(TRUE)

\* Seeded fault: '#' is looked for in the walk but not as the last segment.
AdvanceKeepingHash ==
  /\ Walking /\ Agree /\ ~LastHash
  /\ ki' = ki + 1
  /\ pi' = IF pattern[pi + 1] = "#" THEN pi ELSE pi + 1
  /\ UNCHANGED <<key, pattern, pc, result>>

Advance ==
  /\ Walking /\ Agree /\ ~LastHash
  /\ ki' = ki + 1 /\ pi' = pi + 1
  /\ UNCHANGED <<key, pattern, pc, result>>

LeaveWalk ==
  /\ pc = "walk" /\ ~Walking
  /\ pc' = "tail"
  /\ UNCHANGED <<key, pattern, ki, pi, result>>

\* Second loop: what is left of the pattern may only be '#'.
TailFails == pc = "tail" /\ pi < Len(pattern) /\ pattern[pi + 1] # "#" /\ Return(FALSE)

\* Seeded fault: the cursor of the second loop stays where it is.
TailStuck ==
  /\ pc = "tail" /\ pi < Len(pattern) /\ pattern[pi + 1] = "#"
  /\ UNCHANGED vars

TailAdvance ==
  /\ pc = "tail" /\ pi < Len(pattern) /\ pattern[pi + 1] = "#"
  /\ pi' = pi + 1
  /\ UNCHANGED <<key, pattern, ki, pc, result>>

\* Seeded fault: an exhausted pattern matches whatever is left of the key.
FinishIgnoringKey == pc = "tail" /\ pi >= Len(pattern) /\ Return(TRUE)

Finish == pc = "tail" /\ pi >= Len(pattern) /\ Return(ki >= Len(key))

Next ==
  \/ Mismatch \/ FinalHash \/ Advance \/ LeaveWalk
  \/ TailFails \/ TailAdvance \/ Finish

\* The function runs to its end in one thread of control.
Spec == Init /\ [][Next]_vars /\ WF_vars(Next)

---------------------------------------------------------------------------
(* Where the loops stand: everything consumed so far agreed, the tail is
   entered only when one side is exhausted, and a pattern consumed to its
   end did not end in '#', which the walk would have returned on. *)
LoopInvariant ==
  /\ key \in Keys /\ pattern \in Patterns /\ result \in BOOLEAN
  /\ ki \in 0..Len(key) /\ pi \in 0..Len(pattern)
  /\ pc \in {"walk", "tail", "done"}
  /\ \A i \in 1..ki : i <= Len(pattern) /\ pattern[i] \in {"#", "*", key[i]}
  /\ pc = "walk" => pi = ki
  /\ pc = "tail" =>
       /\ ki <= pi /\ (ki = Len(key) \/ pi = Len(pattern))
       /\ \A i \in (ki + 1)..pi : pattern[i] = "#"
       /\ pi > ki => ki = Len(key)
  /\ pc # "done" /\ ki = Len(pattern) /\ ki > 0 => pattern[ki] # "#"

(* The loops return what MatchSegments says: early return, fall through of
   the first loop and the second loop together, for every key and pattern. *)
ReturnsMatchSegments == pc = "done" => result = MatchSegments(key, pattern)

(* On patterns whose only '#' is the last segment the loops implement the
   topic rule of the documentation, zero segments under '#' included. *)
ObeysTopicRule == pc = "done" /\ HashOnlyLast(pattern) => result = TopicRule(key, pattern)

(* No key makes the matcher loop for ever. *)
Terminates == <>(pc = "done")

=============================================================================
