--------------------------- MODULE SequenceLemmas ---------------------------
(***************************************************************************)
(* What the calls on a deque of the broker do to a sequence: erase, and     *)
(* what a sequence holds before and after a call.  And the least number of  *)
(* a set, which stands in for induction: the smallest counterexample.       *)
(***************************************************************************)
EXTENDS Integers, SequencesExt, SequenceTheorems, FunctionTheorems, FiniteSetTheorems,
        TLAPS

(* What deque::erase does to a sequence. *)
LEMMA RemoveAtProperties ==
  ASSUME NEW S, NEW s \in Seq(S), NEW k \in 1..Len(s)
  PROVE  /\ RemoveAt(s, k) \in Seq(S)
         /\ Len(RemoveAt(s, k)) = Len(s) - 1
         /\ \A i \in 1..(Len(s) - 1) :
              RemoveAt(s, k)[i] = IF i < k THEN s[i] ELSE s[i + 1]
<1> DEFINE a == SubSeq(s, 1, k - 1)
           b == SubSeq(s, k + 1, Len(s))
<1>0. Len(s) \in Nat /\ \A i \in 1..Len(s) : s[i] \in S
  BY LenProperties, ElementOfSeq
<1>1. a \in Seq(S) /\ Len(a) = k - 1 /\ \A i \in 1..(k - 1) : a[i] = s[i]
  <2>1. 1 \in Int /\ k - 1 \in Int /\ \A i \in 1..(k - 1) : s[i] \in S
    BY <1>0
  <2> QED
    BY <2>1, <1>0, SubSeqProperties
<1>2. b \in Seq(S) /\ Len(b) = Len(s) - k
      /\ \A i \in 1..(Len(s) - k) : b[i] = s[i + k]
  <2>1. k + 1 \in Int /\ Len(s) \in Int /\ \A i \in (k + 1)..Len(s) : s[i] \in S
    BY <1>0
  <2> QED
    BY <2>1, <1>0, SubSeqProperties
<1>3. RemoveAt(s, k) = a \o b
  BY DEF RemoveAt
<1>4. /\ a \o b \in Seq(S)
      /\ Len(a \o b) = Len(a) + Len(b)
      /\ \A i \in 1..(Len(a) + Len(b)) :
           (a \o b)[i] = IF i <= Len(a) THEN a[i] ELSE b[i - Len(a)]
  BY <1>1, <1>2, ConcatProperties
<1>5. ASSUME NEW i \in 1..(Len(s) - 1)
      PROVE  (a \o b)[i] = IF i < k THEN s[i] ELSE s[i + 1]
  <2> HIDE DEF a, b
  <2>1. (a \o b)[i] = IF i <= Len(a) THEN a[i] ELSE b[i - Len(a)]
    BY <1>0, <1>1, <1>2, <1>4
  <2>2. CASE i < k
    BY <2>1, <2>2, <1>0, <1>1
  <2>3. CASE ~(i < k)
    <3>1. i - Len(a) \in 1..(Len(s) - k) /\ (i - Len(a)) + k = i + 1
      BY <2>3, <1>0, <1>1
    <3> QED
      BY <3>1, <2>1, <2>3, <1>0, <1>1, <1>2
  <2> QED
    BY <2>2, <2>3
<1> HIDE DEF a, b
<1> QED
  BY <1>0, <1>1, <1>2, <1>3, <1>4, <1>5

---------------------------------------------------------------------------
(* A set of numbers that is not empty has a least element: the sets of the
   numbers below its elements have a minimal one. *)
LEMMA LeastNumber ==
  ASSUME NEW T \in SUBSET Nat, T # {}
  PROVE  \E n \in T : \A k \in T : n <= k
<1> DEFINE Below == {0..n : n \in T}
           R == StrictSubsetOrdering(Nat)
<1>1. Below \subseteq FiniteSubsetsOf(Nat) /\ Below # {}
  <2> SUFFICES ASSUME NEW n \in T PROVE 0..n \in FiniteSubsetsOf(Nat)
    OBVIOUS
  <2>1. IsFiniteSet(0..n)
    BY FS_Interval
  <2> QED
    BY <2>1 DEF FiniteSubsetsOf
<1>2. IsWellFoundedOn(R, FiniteSubsetsOf(Nat))
  BY FS_StrictSubsetOrderingWellFounded
<1> HIDE DEF R
<1>3. PICK B \in Below : \A C \in Below : <<C, B>> \notin R
  <2> HIDE DEF Below
  <2> QED
    BY <1>1, <1>2, WFMin, Zenon
<1>4. PICK n \in T : B = 0..n
  BY <1>3
<1>5. ASSUME NEW k \in T, k < n
      PROVE  FALSE
  <2>1. 0..k \in Below /\ 0..k \subseteq 0..n /\ n \in 0..n /\ n \notin 0..k
    BY <1>5
  <2>2. <<0..k, B>> \in R
    BY <2>1, <1>4 DEF R, StrictSubsetOrdering
  <2> QED
    BY <2>1, <2>2, <1>3
<1> QED
  BY <1>5

(* A sequence, its indices and its elements. *)
LEMMA ElementsOfSeq ==
  ASSUME NEW S, NEW s \in Seq(S)
  PROVE  /\ Len(s) \in Nat /\ DOMAIN s = 1..Len(s)
         /\ \A i \in DOMAIN s : s[i] \in S
         /\ ToSet(s) \subseteq S
         /\ \A x : x \in ToSet(s) <=> \E i \in DOMAIN s : s[i] = x
<1>1. Len(s) \in Nat /\ DOMAIN s = 1..Len(s)
  BY LenProperties
<1>2. \A i \in DOMAIN s : s[i] \in S
  BY <1>1, ElementOfSeq
<1> QED
  BY <1>1, <1>2 DEF ToSet

LEMMA ToSetAppend ==
  ASSUME NEW S, NEW s \in Seq(S), NEW e \in S
  PROVE  ToSet(Append(s, e)) = ToSet(s) \cup {e}
<1>1. /\ Append(s, e) \in Seq(S) /\ Len(Append(s, e)) = Len(s) + 1
      /\ \A i \in 1..Len(s) : Append(s, e)[i] = s[i]
      /\ Append(s, e)[Len(s) + 1] = e
  BY AppendProperties
<1>2. Len(s) \in Nat /\ DOMAIN s = 1..Len(s) /\ DOMAIN Append(s, e) = 1..(Len(s) + 1)
  BY <1>1, LenProperties
<1>3. \A x : x \in ToSet(Append(s, e)) <=> \E i \in 1..(Len(s) + 1) : Append(s, e)[i] = x
  BY <1>2 DEF ToSet
<1>4. \A x : x \in ToSet(s) <=> \E i \in 1..Len(s) : s[i] = x
  BY <1>2 DEF ToSet
<1>5. ASSUME NEW x PROVE x \in ToSet(Append(s, e)) <=> x \in ToSet(s) \cup {e}
  <2>1. ASSUME x \in ToSet(Append(s, e)) PROVE x \in ToSet(s) \cup {e}
    <3>1. PICK i \in 1..(Len(s) + 1) : Append(s, e)[i] = x
      BY <1>3, <2>1
    <3> QED
      BY <3>1, <1>1, <1>2, <1>4
  <2>2. ASSUME x \in ToSet(s) \cup {e} PROVE x \in ToSet(Append(s, e))
    BY <2>2, <1>1, <1>2, <1>3, <1>4
  <2> QED
    BY <2>1, <2>2
<1> QED
  BY <1>5

(* The places of a sequence without its k-th element, and what they held. *)
LEMMA RemoveAtPlaces ==
  ASSUME NEW S, NEW s \in Seq(S), NEW k \in DOMAIN s
  PROVE  /\ RemoveAt(s, k) \in Seq(S) /\ Len(RemoveAt(s, k)) = Len(s) - 1
         /\ DOMAIN RemoveAt(s, k) = 1..(Len(s) - 1)
         /\ \A i \in 1..(Len(s) - 1) :
              RemoveAt(s, k)[i] = IF i < k THEN s[i] ELSE s[i + 1]
<1>1. k \in 1..Len(s)
  BY LenProperties
<1> QED
  BY <1>1, RemoveAtProperties, LenProperties

(* What is left without the k-th element is what stood at other places. *)
LEMMA RemoveAtElements ==
  ASSUME NEW S, NEW s \in Seq(S), NEW k \in DOMAIN s
  PROVE  /\ \A i \in DOMAIN RemoveAt(s, k) : \E j \in DOMAIN s : j # k /\ RemoveAt(s, k)[i] = s[j]
         /\ \A j \in DOMAIN s : j # k => \E i \in DOMAIN RemoveAt(s, k) : RemoveAt(s, k)[i] = s[j]
<1>1. PICK r : r = RemoveAt(s, k)
  OBVIOUS
<1>2. Len(s) \in Nat /\ DOMAIN s = 1..Len(s) /\ k \in 1..Len(s)
  BY LenProperties
<1>3. /\ DOMAIN r = 1..(Len(s) - 1)
      /\ \A i \in 1..(Len(s) - 1) : r[i] = IF i < k THEN s[i] ELSE s[i + 1]
  BY <1>1, RemoveAtPlaces
<1>4. ASSUME NEW i \in DOMAIN r
      PROVE  \E j \in DOMAIN s : j # k /\ r[i] = s[j]
  <2>1. CASE i < k
    BY <2>1, <1>2, <1>3
  <2>2. CASE ~(i < k)
    <3>1. i + 1 \in DOMAIN s /\ i + 1 # k /\ r[i] = s[i + 1]
      BY <2>2, <1>2, <1>3
    <3> QED
      BY <3>1
  <2> QED
    BY <2>1, <2>2
<1>5. ASSUME NEW j \in DOMAIN s, j # k
      PROVE  \E i \in DOMAIN r : r[i] = s[j]
  <2>1. CASE j < k
    <3>1. j \in DOMAIN r /\ r[j] = s[j]
      BY <2>1, <1>2, <1>3
    <3> QED
      BY <3>1
  <2>2. CASE ~(j < k)
    <3>1. j - 1 \in DOMAIN r /\ r[j - 1] = s[j]
      BY <2>2, <1>2, <1>3, <1>5
    <3> QED
      BY <3>1
  <2> QED
    BY <2>1, <2>2
<1> QED
  BY <1>1, <1>4, <1>5

LEMMA ToSetRemoveAt ==
  ASSUME NEW S, NEW s \in Seq(S), NEW k \in DOMAIN s
  PROVE  /\ ToSet(RemoveAt(s, k)) \subseteq ToSet(s)
         /\ ToSet(s) \subseteq ToSet(RemoveAt(s, k)) \cup {s[k]}
<1>1. Len(s) \in Nat /\ DOMAIN s = 1..Len(s) /\ k \in 1..Len(s)
  BY LenProperties
<1> DEFINE r == RemoveAt(s, k)
<1>2. /\ r \in Seq(S) /\ DOMAIN r = 1..(Len(s) - 1)
      /\ \A i \in 1..(Len(s) - 1) : r[i] = IF i < k THEN s[i] ELSE s[i + 1]
  BY RemoveAtPlaces
<1> HIDE DEF r
<1>3. ASSUME NEW i \in DOMAIN r PROVE r[i] \in ToSet(s)
  BY <1>1, <1>2 DEF ToSet
<1>4. ASSUME NEW i \in DOMAIN s, i # k PROVE s[i] \in ToSet(r)
  <2>1. CASE i < k
    <3>1. i \in DOMAIN r /\ r[i] = s[i]
      BY <2>1, <1>1, <1>2
    <3> QED
      BY <3>1 DEF ToSet
  <2>2. CASE i > k
    <3>1. i - 1 \in DOMAIN r /\ r[i - 1] = s[i]
      BY <2>2, <1>1, <1>2
    <3> QED
      BY <3>1 DEF ToSet
  <2> QED
    BY <1>1, <1>4, <2>1, <2>2
<1>5. ToSet(r) \subseteq ToSet(s)
  BY <1>3 DEF ToSet
<1>6. ToSet(s) \subseteq ToSet(r) \cup {s[k]}
  BY <1>4 DEF ToSet
<1> QED
  BY <1>5, <1>6 DEF r

(* A sequence holds finitely many elements, as many as it is long when none
   is there twice. *)
LEMMA ToSetFinite ==
  ASSUME NEW S, NEW s \in Seq(S)
  PROVE  /\ IsFiniteSet(ToSet(s))
         /\ (\A i, j \in DOMAIN s : s[i] = s[j] => i = j) => Cardinality(ToSet(s)) = Len(s)
<1>1. Len(s) \in Nat /\ DOMAIN s = 1..Len(s) /\ s \in [1..Len(s) -> S]
  BY LenProperties
<1>2. IsFiniteSet(1..Len(s)) /\ Cardinality(1..Len(s)) = Len(s)
  BY <1>1, FS_Interval
<1>3. s \in [1..Len(s) -> ToSet(s)] /\ \A x \in ToSet(s) : \E i \in 1..Len(s) : s[i] = x
  BY <1>1 DEF ToSet
<1>4. s \in Surjection(1..Len(s), ToSet(s))
  BY <1>3, Fun_IsSurj
<1>5. /\ IsFiniteSet(ToSet(s))
      /\ Cardinality(ToSet(s)) = Cardinality(1..Len(s)) <=> s \in Injection(1..Len(s), ToSet(s))
  BY <1>2, <1>4, FS_Surjection
<1>6. ASSUME \A i, j \in DOMAIN s : s[i] = s[j] => i = j
      PROVE  s \in Injection(1..Len(s), ToSet(s))
  BY <1>1, <1>3, <1>6, Fun_IsInj
<1> QED
  BY <1>2, <1>5, <1>6

---------------------------------------------------------------------------
(* A set of numbers is enumerated in increasing order in one way only.     *)
Increasing(f) == \A i, j \in DOMAIN f : i < j => f[i] < f[j]

Enumerates(f, n, S) ==
  f \in [1..n -> S] /\ Increasing(f) /\ \A x \in S : \E i \in 1..n : f[i] = x

LEMMA EnumerationPrefix ==
  ASSUME NEW S \in SUBSET Int, NEW m \in Nat, NEW n \in Nat,
         NEW f, NEW g,
         Enumerates(f, m, S), Enumerates(g, n, S)
  PROVE  m <= n /\ \A i \in 1..m : f[i] = g[i]
<1>0. /\ f \in [1..m -> S] /\ Increasing(f) /\ \A x \in S : \E i \in 1..m : f[i] = x
      /\ g \in [1..n -> S] /\ Increasing(g) /\ \A x \in S : \E i \in 1..n : g[i] = x
  BY DEF Enumerates
<1> USE <1>0
<1> DEFINE T == {i \in 1..m : i > n \/ f[i] # g[i]}
<1>1. ASSUME T # {}
      PROVE  FALSE
  <2>1. T \in SUBSET Nat
    OBVIOUS
  <2> HIDE DEF T
  <2>2. PICK i \in T : \A k \in T : i <= k
    BY <1>1, <2>1, LeastNumber
  <2>3. i \in 1..m /\ (i > n \/ f[i] # g[i]) /\ i \in Int
    BY DEF T
  <2>4. \A k \in 1..m : k < i => k <= n /\ f[k] = g[k]
    <3> SUFFICES ASSUME NEW k \in 1..m, k < i
                 PROVE  k <= n /\ f[k] = g[k]
      OBVIOUS
    <3>1. k \notin T
      <4>1. ~(i <= k)
        BY <2>3
      <4> QED
        BY <2>2, <4>1
    <3> QED
      BY <3>1 DEF T
  <2>5. CASE i > n
    <3>1. PICK j \in 1..n : g[j] = f[i]
      BY <2>3
    <3>2. j \in 1..m /\ j < i
      BY <2>3, <2>5
    <3>3. f[j] = f[i] /\ f[j] < f[i] /\ f[i] \in Int
      BY <2>3, <2>4, <3>1, <3>2 DEF Increasing
    <3> QED
      BY <3>3
  <2>6. CASE i <= n
    <3>0. i \in 1..m /\ i \in 1..n
      BY <2>3, <2>6
    <3>a. f[i] \in S /\ g[i] \in S
      BY <3>0
    <3>b. f[i] \in Int /\ g[i] \in Int
      BY <3>a
    <3>c. f[i] # g[i]
      BY <2>3, <2>6
    <3>1. f[i] \in Int /\ g[i] \in Int /\ f[i] # g[i] /\ i \in 1..n
      BY <3>0, <3>b, <3>c
    <3>2. PICK j \in 1..n : g[j] = f[i]
      BY <2>3
    <3>3. PICK k \in 1..m : f[k] = g[i]
      BY <3>1
    <3>4. j # i /\ k # i
      BY <3>1, <3>2, <3>3
    <3>5. ~(j < i)
      <4>1. ASSUME j < i PROVE FALSE
        <5>1. j \in 1..m /\ f[j] = g[j] /\ f[j] < f[i]
          BY <2>3, <2>4, <4>1 DEF Increasing
        <5> QED
          BY <3>1, <3>2, <5>1
      <4> QED
        BY <4>1
    <3>6. ~(k < i)
      <4>1. ASSUME k < i PROVE FALSE
        <5>1. k \in 1..n /\ f[k] = g[k]
          BY <2>4, <4>1
        <5>2. g[k] < g[i]
          BY <3>1, <4>1, <5>1 DEF Increasing
        <5> QED
          BY <3>1, <3>3, <5>1, <5>2
      <4> QED
        BY <4>1
    <3>7. i < j /\ i < k
      BY <2>3, <3>4, <3>5, <3>6
    <3>8. g[i] < g[j] /\ f[i] < f[k]
      BY <2>3, <3>1, <3>7 DEF Increasing
    <3> QED
      BY <3>1, <3>2, <3>3, <3>8
  <2> QED
    BY <2>3, <2>5, <2>6
<1>2. \A i \in 1..m : i <= n /\ f[i] = g[i]
  BY <1>1
<1>3. m <= n
  <2>1. CASE m = 0
    BY <2>1
  <2>2. CASE m # 0
    <3>1. m \in 1..m
      BY <2>2
    <3> QED
      BY <3>1, <1>2
  <2> QED
    BY <2>1, <2>2
<1> QED
  BY <1>2, <1>3

LEMMA OneEnumeration ==
  ASSUME NEW S \in SUBSET Int, NEW m \in Nat, NEW n \in Nat,
         NEW f, NEW g,
         Enumerates(f, m, S), Enumerates(g, n, S)
  PROVE  m = n /\ f = g
<1>1. m <= n /\ \A i \in 1..m : f[i] = g[i]
  BY EnumerationPrefix
<1>2. n <= m
  BY EnumerationPrefix
<1>3. m = n
  BY <1>1, <1>2
<1>4. f \in [1..m -> S] /\ g \in [1..n -> S]
  BY DEF Enumerates
<1> QED
  BY <1>1, <1>3, <1>4

(* A set of numbers has an increasing enumeration, by the least number up to
   which it would have none. *)
LEMMA EnumerationExists ==
  ASSUME NEW N \in Nat, NEW S \in SUBSET (1..N)
  PROVE  \E n \in Nat : \E f : Enumerates(f, n, S)
<1> DEFINE UpTo(b) == {x \in S : x <= b}
           Has(b)  == \E n \in Nat : \E f : Enumerates(f, n, UpTo(b))
           T == {b \in Nat : ~Has(b)}
<1>0. \A x \in S : x \in Int /\ 1 <= x /\ x <= N
  OBVIOUS
<1>1. Has(0)
  <2>1. UpTo(0) = {}
    <3>1. \A x \in S : ~(x <= 0)
      BY <1>0
    <3> QED
      BY <3>1
  <2>2. [i \in 1..0 |-> i] \in [1..0 -> {}]
    OBVIOUS
  <2>3. Enumerates([i \in 1..0 |-> i], 0, {})
    BY <2>2 DEF Enumerates, Increasing
  <2> QED
    BY <2>1, <2>3
<1>2. ASSUME NEW b \in Nat \ {0}, Has(b - 1) PROVE Has(b)
  <2>0. PICK n \in Nat : \E f : Enumerates(f, n, UpTo(b - 1))
    BY <1>2
  <2>1. PICK f : Enumerates(f, n, UpTo(b - 1))
    BY <2>0
  <2>2. CASE b \notin S
    <3>1. \A x \in S : x <= b <=> x <= b - 1
      BY <1>0, <2>2
    <3>2. UpTo(b) = UpTo(b - 1)
      BY <3>1
    <3> QED
      BY <2>1, <3>2
  <2>3. CASE b \in S
    <3> DEFINE g == [i \in 1..(n + 1) |-> IF i <= n THEN f[i] ELSE b]
    <3>0. /\ f \in [1..n -> UpTo(b - 1)] /\ Increasing(f)
          /\ \A x \in UpTo(b - 1) : \E i \in 1..n : f[i] = x
      BY <2>1 DEF Enumerates
    <3>1. \A i \in 1..n : i \in 1..(n + 1) /\ g[i] = f[i] /\ g[i] \in UpTo(b - 1)
      BY <3>0
    <3>2. n + 1 \in 1..(n + 1) /\ g[n + 1] = b /\ b \in UpTo(b)
      BY <2>3
    <3>3. \A x \in UpTo(b - 1) : x \in UpTo(b) /\ x \in Int /\ x < b
      OBVIOUS
    <3>4. \A i \in 1..(n + 1) : i \in 1..n \/ i = n + 1
      OBVIOUS
    <3>5. DOMAIN g = 1..(n + 1) /\ DOMAIN f = 1..n
      BY <3>0
    <3> HIDE DEF g
    <3>6. g \in [1..(n + 1) -> UpTo(b)]
      <4>1. \A i \in 1..(n + 1) : g[i] \in UpTo(b)
        BY <3>1, <3>2, <3>3, <3>4
      <4>2. g = [i \in 1..(n + 1) |-> g[i]]
        BY DEF g
      <4> HIDE DEF UpTo
      <4> QED
        BY <4>1, <4>2
    <3>7. Increasing(g)
      <4> SUFFICES ASSUME NEW i \in 1..(n + 1), NEW j \in 1..(n + 1), i < j
                   PROVE  g[i] < g[j]
        BY <3>5 DEF Increasing
      <4>1. i \in 1..n
        OBVIOUS
      <4>2. CASE j \in 1..n
        BY <3>0, <3>1, <3>5, <4>1, <4>2 DEF Increasing
      <4>3. CASE j = n + 1
        BY <3>1, <3>2, <3>3, <4>1, <4>3
      <4> QED
        BY <3>4, <4>2, <4>3
    <3>8. ASSUME NEW x \in UpTo(b) PROVE \E i \in 1..(n + 1) : g[i] = x
      <4>1. x = b \/ x \in UpTo(b - 1)
        OBVIOUS
      <4> HIDE DEF UpTo
      <4> QED
        BY <3>0, <3>1, <3>2, <4>1
    <3>9. Enumerates(g, n + 1, UpTo(b))
      BY <3>6, <3>7, <3>8 DEF Enumerates
    <3>10. n + 1 \in Nat
      OBVIOUS
    <3> QED
      BY <3>9, <3>10, Zenon
  <2> QED
    BY <2>2, <2>3
<1>3. UpTo(N) = S
  BY <1>0
<1> HIDE DEF Has
<1>4. ASSUME T # {} PROVE FALSE
  <2>1. T \in SUBSET Nat
    OBVIOUS
  <2>2. \A b \in T : b \in Nat /\ ~Has(b)
    OBVIOUS
  <2>3. \A b \in Nat : ~Has(b) => b \in T
    OBVIOUS
  <2> HIDE DEF T
  <2>4. PICK b \in T : \A k \in T : b <= k
    BY <1>4, <2>1, LeastNumber
  <2>5. b # 0
    BY <1>1, <2>2
  <2>6. b - 1 \in Nat /\ b - 1 \notin T
    BY <2>2, <2>4, <2>5
  <2> QED
    BY <1>2, <2>2, <2>3, <2>5, <2>6
<1>5. Has(N)
  BY <1>4
<1> QED
  BY <1>3, <1>5 DEF Has

=============================================================================
