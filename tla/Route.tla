------------------------------- MODULE Route -------------------------------
(***************************************************************************)
(* router::match_route (src/src/server/route.hpp): does a message with a   *)
(* routing key go to a queue bound with a binding key?  A key is the       *)
(* sequence of segments the walk over the string finds between the dots;   *)
(* the empty string has none.  Keys that end with a dot are left out.      *)
(* RouteLoop steps through the loops and relates them to MatchSegments.    *)
(***************************************************************************)
EXTENDS Naturals, Sequences

Smaller(m, n) == IF m < n THEN m ELSE n

\* The lambda matchSegments, as the result its two loops compute: the
\* segments both sides have agree, and what remains is covered by a final
\* '#' of the pattern or is nothing but '#' in the pattern.
MatchSegments(key, pattern) ==
  /\ \A i \in 1..Smaller(Len(key), Len(pattern)) : pattern[i] \in {"#", "*", key[i]}
  /\ \/ /\ 1 <= Len(pattern) /\ Len(pattern) <= Len(key)
        /\ pattern[Len(pattern)] = "#"
     \/ /\ Len(key) <= Len(pattern)
        /\ \A i \in (Len(key) + 1)..Len(pattern) : pattern[i] = "#"

MatchRoute(type, routing_key, binding_key) ==
  \/ type = "DIRECT" /\ routing_key = binding_key
  \/ type = "FANOUT"
  \/ type = "TOPIC" /\ MatchSegments(routing_key, binding_key)

\* The topic rule of the documentation: '*' stands for one segment and '#'
\* for any number of them, wherever it is.  f[j] is how much of the key the
\* first j segments of the pattern cover.
TopicRule(key, pattern) ==
  \E f \in [0..Len(pattern) -> 0..Len(key)] :
    /\ f[0] = 0 /\ f[Len(pattern)] = Len(key)
    /\ \A j \in 1..Len(pattern) :
         \/ pattern[j] = "#" /\ f[j - 1] <= f[j]
         \/ f[j] = f[j - 1] + 1 /\ pattern[j] \in {"*", key[f[j]]}

\* '#' occurs nowhere but at the end of the pattern.
HashOnlyLast(pattern) == \A j \in DOMAIN pattern : pattern[j] = "#" => j = Len(pattern)

=============================================================================
