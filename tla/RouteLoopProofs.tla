-------------------------- MODULE RouteLoopProofs --------------------------
(***************************************************************************)
(* The topic matcher of src/src/server/route.hpp returns MatchSegments for *)
(* every key and every pattern, of any length: LoopInvariant is inductive  *)
(* and, with it, each of the four returns gives the right answer.          *)
(***************************************************************************)
EXTENDS RouteLoop, SequenceLemmas

\* What the invariant says of the data, without the sets they come from.
LEMMA Lengths ==
  ASSUME LoopInvariant
  PROVE  /\ Len(key) \in Nat /\ Len(pattern) \in Nat
         /\ ki \in Nat /\ ki <= Len(key)
         /\ pi \in Nat /\ pi <= Len(pattern)
<1>1. key \in Seq(STRING) /\ pattern \in Seq(STRING)
  BY KeysAssumption DEF LoopInvariant
<1>2. Len(key) \in Nat /\ Len(pattern) \in Nat
  BY <1>1
<1> QED
  BY <1>2 DEF LoopInvariant

LEMMA LoopInit == Init => LoopInvariant
<1> SUFFICES ASSUME Init PROVE LoopInvariant
  OBVIOUS
<1>1. key \in Seq(STRING) /\ pattern \in Seq(STRING)
  BY KeysAssumption DEF Init
<1>2. Len(key) \in Nat /\ Len(pattern) \in Nat
  BY <1>1
<1>3. ki = 0 /\ pi = 0 /\ pc = "walk" /\ result = FALSE
  BY DEF Init
<1>4. ki \in 0..Len(key) /\ pi \in 0..Len(pattern)
  BY <1>2, <1>3
<1>5. 1..ki = {} /\ ~(ki > 0)
  BY <1>3
<1>6. key \in Keys /\ pattern \in Patterns
  BY DEF Init
<1> QED
  BY <1>3, <1>4, <1>5, <1>6, Zenon DEF LoopInvariant

LEMMA LoopStep == LoopInvariant /\ [Next]_vars => LoopInvariant'
<1> SUFFICES ASSUME LoopInvariant, [Next]_vars
             PROVE  LoopInvariant'
  OBVIOUS
<1>0. /\ Len(key) \in Nat /\ Len(pattern) \in Nat
      /\ ki \in Nat /\ ki <= Len(key)
      /\ pi \in Nat /\ pi <= Len(pattern)
  BY Lengths
<1>1. ASSUME NEW b \in BOOLEAN, Return(b)
      PROVE  LoopInvariant'
  BY <1>1 DEF Return, LoopInvariant
<1>2. CASE Mismatch
  BY <1>1, <1>2 DEF Mismatch
<1>3. CASE FinalHash
  BY <1>1, <1>3 DEF FinalHash
<1>4. CASE Advance
  BY <1>0, <1>4 DEF Advance, Walking, Agree, LastHash, LoopInvariant
<1>5. CASE LeaveWalk
  BY <1>0, <1>5 DEF LeaveWalk, Walking, LoopInvariant
<1>6. CASE TailFails
  BY <1>1, <1>6 DEF TailFails
<1>7. CASE TailAdvance
  BY <1>0, <1>7 DEF TailAdvance, LoopInvariant
<1>8. CASE Finish
  <2>1. (ki >= Len(key)) \in BOOLEAN
    BY <1>0
  <2> QED
    BY <1>1, <1>8, <2>1 DEF Finish
<1>9. CASE UNCHANGED vars
  BY <1>9 DEF vars, LoopInvariant
<1> QED
  BY <1>2, <1>3, <1>4, <1>5, <1>6, <1>7, <1>8, <1>9 DEF Next

\* Two truth values that imply each other are equal.
LEMMA EqualBooleans ==
  ASSUME NEW a \in BOOLEAN, NEW b \in BOOLEAN, a => b, b => a
  PROVE  a = b
OBVIOUS

\* Each return statement gives the value of MatchSegments.
LEMMA ReturnStep ==
  LoopInvariant /\ ReturnsMatchSegments /\ [Next]_vars => ReturnsMatchSegments'
<1> SUFFICES ASSUME LoopInvariant, ReturnsMatchSegments, [Next]_vars
             PROVE  ReturnsMatchSegments'
  OBVIOUS
<1>0. /\ Len(key) \in Nat /\ Len(pattern) \in Nat
      /\ ki \in Nat /\ ki <= Len(key)
      /\ pi \in Nat /\ pi <= Len(pattern)
  BY Lengths
<1>1. ASSUME NEW b, Return(b), b = MatchSegments(key, pattern)
      PROVE  ReturnsMatchSegments'
  BY <1>1 DEF Return, ReturnsMatchSegments, MatchSegments, Smaller
<1>2. CASE Mismatch
  <2>1. ~MatchSegments(key, pattern)
    BY <1>0, <1>2 DEF Mismatch, Walking, Agree, LoopInvariant, MatchSegments, Smaller
  <2>2. FALSE = MatchSegments(key, pattern)
    BY <2>1 DEF MatchSegments
  <2> QED
    BY <1>1, <1>2, <2>2 DEF Mismatch
<1>3. CASE FinalHash
  <2>1. MatchSegments(key, pattern)
    BY <1>0, <1>3 DEF FinalHash, Walking, Agree, LastHash, LoopInvariant, MatchSegments, Smaller
  <2>2. TRUE = MatchSegments(key, pattern)
    BY <2>1 DEF MatchSegments
  <2> QED
    BY <1>1, <1>3, <2>2 DEF FinalHash
<1>4. CASE TailFails
  <2>1. ~MatchSegments(key, pattern)
    BY <1>0, <1>4 DEF TailFails, LoopInvariant, MatchSegments, Smaller
  <2>2. FALSE = MatchSegments(key, pattern)
    BY <2>1 DEF MatchSegments
  <2> QED
    BY <1>1, <1>4, <2>2 DEF TailFails
<1>5. CASE Finish
  <2>1. ki >= Len(key) => MatchSegments(key, pattern)
    BY <1>0, <1>5 DEF Finish, LoopInvariant, MatchSegments, Smaller
  <2>2. MatchSegments(key, pattern) => ki >= Len(key)
    BY <1>0, <1>5 DEF Finish, LoopInvariant, MatchSegments, Smaller
  <2>3. (ki >= Len(key)) \in BOOLEAN /\ MatchSegments(key, pattern) \in BOOLEAN
    BY <1>0 DEF MatchSegments
  <2>4. (ki >= Len(key)) = MatchSegments(key, pattern)
    BY <2>1, <2>2, <2>3, EqualBooleans
  <2> QED
    BY <1>1, <1>5, <2>4 DEF Finish
<1>6. CASE Advance \/ LeaveWalk \/ TailAdvance
  BY <1>6 DEF Advance, LeaveWalk, TailAdvance, Walking, ReturnsMatchSegments
<1>7. CASE UNCHANGED vars
  BY <1>7 DEF vars, ReturnsMatchSegments
<1> QED
  BY <1>2, <1>3, <1>4, <1>5, <1>6, <1>7 DEF Next

---------------------------------------------------------------------------
(* The loop invariant holds for every set of keys and patterns. *)
THEOREM LoopCorrect == Spec => []LoopInvariant
<1> QED
  BY LoopInit, LoopStep, PTL DEF Spec

(* matchSegments returns what MatchSegments says, for every key and pattern:
   the operator VirtualHost routes with is what the loops compute. *)
THEOREM MatcherCorrect == Spec => []ReturnsMatchSegments
<1>1. Init => ReturnsMatchSegments
  BY DEF Init, ReturnsMatchSegments
<1> QED
  BY <1>1, LoopCorrect, ReturnStep, PTL DEF Spec

---------------------------------------------------------------------------
(* On a pattern whose only '#' is the last segment every other segment of   *)
(* the pattern covers one of the key: the pattern is laid over the key in   *)
(* one way, the one the loops try.                                          *)
LEMMA MatchesByTheRule ==
  ASSUME NEW k \in Seq(STRING), NEW p \in Seq(STRING), HashOnlyLast(p), MatchSegments(k, p)
  PROVE  TopicRule(k, p)
<1>0. PICK K \in Nat, P \in Nat : K = Len(k) /\ P = Len(p)
  BY LenProperties
<1>1. \A j \in 1..P : p[j] = "#" => j = P
  BY <1>0, LenProperties DEF HashOnlyLast
<1>2. \A i \in 1..P : i <= K => p[i] \in {"#", "*", k[i]}
  BY <1>0 DEF MatchSegments, Smaller
<1>3. \/ 1 <= P /\ P <= K /\ p[P] = "#"
      \/ K <= P /\ \A i \in (K + 1)..P : p[i] = "#"
  BY <1>0 DEF MatchSegments
<1>4. P <= K + 1
  <2>1. CASE P > K + 1
    <3>1. K + 1 \in 1..P /\ K + 1 \in (K + 1)..P /\ K + 1 # P
      BY <2>1
    <3> QED
      BY <1>1, <1>3, <2>1, <3>1
  <2> QED
    BY <2>1
<1>5. PICK f : f = [j \in 0..P |-> IF j = P THEN K ELSE j]
  OBVIOUS
<1>6. f \in [0..P -> 0..K]
  <2>1. \A j \in 0..P : (IF j = P THEN K ELSE j) \in 0..K
    BY <1>4
  <2> QED
    BY <1>5, <2>1
<1>7. \A j \in 0..P : f[j] = IF j = P THEN K ELSE j
  BY <1>5
<1>8. f[0] = 0 /\ f[P] = K
  <2>1. P = 0 => K = 0
    BY <1>3
  <2> QED
    BY <1>7, <2>1
<1>9. ASSUME NEW j \in 1..P
      PROVE  \/ p[j] = "#" /\ f[j - 1] <= f[j]
             \/ f[j] = f[j - 1] + 1 /\ p[j] \in {"*", k[f[j]]}
  <2>0. j - 1 \in 0..P /\ j \in 0..P /\ j - 1 # P
    OBVIOUS
  <2>1. f[j - 1] = j - 1
    BY <1>7, <2>0
  <2>2. CASE j < P
    <3>1. f[j] = j /\ j <= K
      BY <1>4, <1>7, <2>0, <2>2
    <3>2. p[j] # "#"
      BY <1>1, <2>2
    <3>3. p[j] \in {"*", k[j]}
      BY <1>2, <3>1, <3>2
    <3>4. f[j] = f[j - 1] + 1
      BY <2>1, <3>1
    <3> QED
      BY <3>1, <3>3, <3>4
  <2>3. CASE j = P /\ p[j] = "#"
    <3>1. f[j] = K /\ j - 1 <= K
      BY <1>4, <1>8, <2>3
    <3> QED
      BY <2>1, <2>3, <3>1
  <2>4. CASE j = P /\ p[j] # "#"
    <3>1. ~(K + 1 <= P)
      <4>1. ASSUME K + 1 <= P PROVE FALSE
        <5>1. P \in (K + 1)..P
          BY <4>1
        <5> QED
          BY <1>3, <2>4, <4>1, <5>1
      <4> QED
        BY <4>1
    <3>2. K = P
      BY <1>3, <2>4, <3>1
    <3>3. f[j] = j /\ p[j] \in {"*", k[j]}
      BY <1>2, <1>8, <2>4, <3>2
    <3>4. f[j] = f[j - 1] + 1
      BY <2>1, <3>3
    <3> QED
      BY <3>3, <3>4
  <2> QED
    BY <2>2, <2>3, <2>4
<1> QED
  BY <1>0, <1>6, <1>8, <1>9 DEF TopicRule

LEMMA RuleMatches ==
  ASSUME NEW k \in Seq(STRING), NEW p \in Seq(STRING), HashOnlyLast(p), TopicRule(k, p)
  PROVE  MatchSegments(k, p)
<1>0. PICK K \in Nat, P \in Nat : K = Len(k) /\ P = Len(p)
  BY LenProperties
<1>1. \A j \in 1..P : p[j] = "#" => j = P
  BY <1>0, LenProperties DEF HashOnlyLast
<1>2. PICK f \in [0..P -> 0..K] :
        /\ f[0] = 0 /\ f[P] = K
        /\ \A j \in 1..P : \/ p[j] = "#" /\ f[j - 1] <= f[j]
                           \/ f[j] = f[j - 1] + 1 /\ p[j] \in {"*", k[f[j]]}
  BY <1>0 DEF TopicRule
<1>3. \A j \in 0..P : j < P => f[j] = j
  <2>1. PICK T : T = {j \in 0..P : j < P /\ f[j] # j}
    OBVIOUS
  <2>2. ASSUME T # {} PROVE FALSE
    <3>1. T \in SUBSET Nat
      BY <2>1
    <3>2. PICK i \in T : \A l \in T : i <= l
      BY <2>2, <3>1, LeastNumber
    <3>3. i \in 0..P /\ i < P /\ f[i] # i
      BY <2>1
    <3>4. i # 0
      BY <1>2, <3>3
    <3>5. i \in 1..P /\ i - 1 \in 0..P /\ i - 1 < P /\ ~(i <= i - 1)
      BY <3>3, <3>4
    <3>6. f[i - 1] = i - 1
      BY <2>1, <3>2, <3>5
    <3>7. p[i] # "#"
      BY <1>1, <3>3, <3>5
    <3>8. f[i] = f[i - 1] + 1
      BY <1>2, <3>5, <3>7
    <3> QED
      BY <3>3, <3>6, <3>8
  <2> QED
    BY <2>1, <2>2
<1>4. ASSUME NEW i \in 1..P, i < P PROVE i <= K /\ p[i] \in {"*", k[i]}
  <2>1. i \in 0..P /\ i - 1 \in 0..P
    OBVIOUS
  <2>2. p[i] # "#" /\ f[i] = i
    BY <1>1, <1>3, <1>4, <2>1
  <2>3. f[i] \in 0..K
    BY <2>1
  <2> QED
    BY <1>2, <2>2, <2>3
<1>5. CASE P = 0
  <2>1. K = 0
    BY <1>2, <1>5
  <2> QED
    BY <1>0, <1>5, <2>1 DEF MatchSegments, Smaller
<1>6. CASE P # 0
  <2>1. P \in 1..P /\ P - 1 \in 0..P /\ P - 1 < P
    BY <1>6
  <2>2. f[P - 1] = P - 1 /\ f[P - 1] \in 0..K
    BY <1>3, <2>1
  <2>3. P - 1 <= K
    BY <2>2
  <2>4. CASE p[P] = "#"
    <3>1. \A i \in 1..P : i <= K => p[i] \in {"#", "*", k[i]}
      <4> SUFFICES ASSUME NEW i \in 1..P PROVE p[i] \in {"#", "*", k[i]}
        OBVIOUS
      <4>1. CASE i < P
        BY <1>4, <4>1
      <4>2. CASE i = P
        BY <2>4, <4>2
      <4> QED
        BY <4>1, <4>2
    <3>2. \A i \in 1..Smaller(K, P) : p[i] \in {"#", "*", k[i]}
      BY <3>1 DEF Smaller
    <3>3. CASE P <= K
      BY <1>0, <1>6, <2>4, <3>2, <3>3 DEF MatchSegments
    <3>4. CASE P = K + 1
      <4>1. \A i \in (K + 1)..P : p[i] = "#"
        BY <2>4, <3>4
      <4> QED
        BY <1>0, <3>2, <3>4, <4>1 DEF MatchSegments
    <3> QED
      BY <2>3, <3>3, <3>4
  <2>5. CASE p[P] # "#"
    <3>1. f[P] = P /\ p[P] \in {"*", k[P]} /\ K = P
      <4>1. f[P] = f[P - 1] + 1 /\ p[P] \in {"*", k[f[P]]}
        BY <1>2, <2>1, <2>5
      <4>2. f[P] = P
        BY <2>2, <4>1
      <4> QED
        BY <1>2, <4>1, <4>2
    <3>2. \A i \in 1..P : p[i] \in {"#", "*", k[i]}
      <4> SUFFICES ASSUME NEW i \in 1..P PROVE p[i] \in {"#", "*", k[i]}
        OBVIOUS
      <4>1. CASE i < P
        BY <1>4, <4>1
      <4>2. CASE i = P
        BY <3>1, <4>2
      <4> QED
        BY <4>1, <4>2
    <3>3. Smaller(K, P) = P /\ (K + 1)..P = {} /\ K <= P
      BY <3>1 DEF Smaller
    <3> QED
      BY <1>0, <3>2, <3>3 DEF MatchSegments
  <2> QED
    BY <2>4, <2>5
<1> QED
  BY <1>5, <1>6

(* On patterns whose only '#' is the last segment the matcher implements the
   topic rule, for every key and pattern of any length. *)
THEOREM TopicRuleObeyed == Spec => []ObeysTopicRule
<1>1. LoopInvariant /\ ReturnsMatchSegments => ObeysTopicRule
  <2> SUFFICES ASSUME LoopInvariant, ReturnsMatchSegments, pc = "done", HashOnlyLast(pattern)
               PROVE  result = TopicRule(key, pattern)
    BY DEF ObeysTopicRule
  <2>1. key \in Seq(STRING) /\ pattern \in Seq(STRING)
    BY KeysAssumption DEF LoopInvariant
  <2>2. MatchSegments(key, pattern) => TopicRule(key, pattern)
    BY <2>1, MatchesByTheRule
  <2>3. TopicRule(key, pattern) => MatchSegments(key, pattern)
    BY <2>1, RuleMatches
  <2>4. TopicRule(key, pattern) \in BOOLEAN /\ MatchSegments(key, pattern) \in BOOLEAN
    BY DEF TopicRule, MatchSegments
  <2>5. MatchSegments(key, pattern) = TopicRule(key, pattern)
    BY <2>2, <2>3, <2>4, EqualBooleans
  <2> QED
    BY <2>5 DEF ReturnsMatchSegments
<1> QED
  BY <1>1, LoopCorrect, MatcherCorrect, PTL

=============================================================================
