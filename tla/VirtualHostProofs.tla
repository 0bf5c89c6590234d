-------------------------- MODULE VirtualHostProofs --------------------------
(***************************************************************************)
(* The virtual host keeps its tables in agreement and its messages apart   *)
(* (virtual_host.cpp), for any exchanges, queues, keys and requests.       *)
(* generate_id gives no id twice because every queue has ids of its own:   *)
(* those in its memory and in its file were drawn for it, and for no other *)
(* queue.  A declaration that recovers a file cannot repeat one then.  The *)
(* ids that clients choose are not bound by this: they may be equal to     *)
(* each other and to generated ones.                                       *)
(***************************************************************************)
EXTENDS VirtualHost, SequenceLemmas

\* The ids in s that generate_id made, none of them twice.
Generated(s)  == {s[i].id : i \in {k \in DOMAIN s : s[k].drawn}}
Unrepeated(s) ==
  \A i, j \in DOMAIN s : s[i].drawn /\ s[j].drawn /\ s[i].id = s[j].id => i = j

\* The ids that were generated for messages of q and may still be used.
IdsOf(q) == Generated(msgs[q]) \cup Generated(files[q])

OwnIds ==
  ~restarted =>
    /\ \A q \in Queue : Unrepeated(msgs[q]) /\ Unrepeated(files[q])
    /\ \A q \in Queue : \A i \in IdsOf(q) : i <= seq
    /\ \A q, r \in Queue : q # r => IdsOf(q) \cap IdsOf(r) = {}

HostInvariant == TypeOK /\ Integrity /\ OwnIds

---------------------------------------------------------------------------
(* What the operators on the messages of a queue return. *)
LEMMA EmptyMessages ==
  /\ <<>> \in Seq(Message) /\ DOMAIN << >> = {}
  /\ Generated(<<>>) = {} /\ Unrepeated(<<>>)
<1>1. <<>> \in Seq(Message) /\ DOMAIN << >> = {}
  BY EmptySeq, LenProperties
<1> QED
  BY <1>1 DEF Generated, Unrepeated

LEMMA AfterRemoveIs ==
  ASSUME NEW s \in Seq(Message), NEW id, NEW t \in AfterRemove(s, id)
  PROVE  \/ t = s /\ ~\E k \in DOMAIN s : Takes(s, id, k)
         \/ \E k \in DOMAIN s : Takes(s, id, k) /\ t = RemoveAt(s, k)
  BY DEF AfterRemove

\* A generated id is a number, and not the empty id.
LEMMA GeneratedIds ==
  ASSUME NEW s \in Seq(Message)
  PROVE  Generated(s) \subseteq Nat \ {NoId}
<1> SUFFICES ASSUME NEW i \in DOMAIN s, s[i].drawn
             PROVE  s[i].id \in Nat \ {NoId}
  BY DEF Generated
<1>1. s[i] \in Message
  BY ElementsOfSeq
<1> QED
  BY <1>1 DEF Message

\* Fewer messages: each of t was one of s, in the same order.
PartOf(t, s) ==
  /\ t \in Seq(Message) /\ Generated(t) \subseteq Generated(s)
  /\ s = <<>> => t = <<>>
  /\ Unrepeated(s) => Unrepeated(t)

LEMMA PartByPlaces ==
  ASSUME NEW s \in Seq(Message), NEW t \in Seq(Message), NEW g \in [DOMAIN t -> DOMAIN s],
         \A i \in DOMAIN t : t[i] = s[g[i]],
         \A i, j \in DOMAIN t : g[i] = g[j] => i = j
  PROVE  PartOf(t, s)
<1>1. Generated(t) \subseteq Generated(s)
  BY DEF Generated
<1>2. ASSUME Unrepeated(s) PROVE Unrepeated(t)
  <2> SUFFICES ASSUME NEW i \in DOMAIN t, NEW j \in DOMAIN t,
                      t[i].drawn, t[j].drawn, t[i].id = t[j].id
               PROVE  i = j
    BY DEF Unrepeated
  <2>1. g[i] \in DOMAIN s /\ g[j] \in DOMAIN s /\ t[i] = s[g[i]] /\ t[j] = s[g[j]]
    OBVIOUS
  <2>2. g[i] = g[j]
    BY <1>2, <2>1 DEF Unrepeated
  <2> QED
    BY <2>2
<1>3. ASSUME s = <<>> PROVE t = <<>>
  <2>1. DOMAIN t = {} /\ Len(t) \in Nat /\ DOMAIN t = 1..Len(t)
    BY <1>3, LenProperties
  <2>2. Len(t) = 0
    BY <2>1
  <2> QED
    BY <2>2, EmptySeq
<1> QED
  BY <1>1, <1>2, <1>3 DEF PartOf

LEMMA RemovedPart ==
  ASSUME NEW s \in Seq(Message), NEW k \in DOMAIN s
  PROVE  PartOf(RemoveAt(s, k), s)
<1>1. Len(s) \in Nat /\ DOMAIN s = 1..Len(s) /\ k \in 1..Len(s)
  BY LenProperties
<1> DEFINE t == RemoveAt(s, k)
           g == [i \in DOMAIN t |-> IF i < k THEN i ELSE i + 1]
<1>2. /\ t \in Seq(Message) /\ DOMAIN t = 1..(Len(s) - 1)
      /\ \A i \in 1..(Len(s) - 1) : t[i] = IF i < k THEN s[i] ELSE s[i + 1]
  BY RemoveAtPlaces
<1> HIDE DEF t
<1>3. /\ g \in [DOMAIN t -> DOMAIN s] /\ \A i \in DOMAIN t : t[i] = s[g[i]]
      /\ \A i, j \in DOMAIN t : g[i] = g[j] => i = j
  BY <1>1, <1>2
<1> HIDE DEF g
<1>4. PartOf(t, s)
  BY <1>2, <1>3, PartByPlaces
<1> QED
  BY <1>4 DEF t

LEMMA AfterRemovePart ==
  ASSUME NEW s \in Seq(Message), NEW id, NEW t \in AfterRemove(s, id)
  PROVE  PartOf(t, s)
<1>1. CASE t = s
  BY <1>1 DEF PartOf
<1>2. ASSUME NEW k \in DOMAIN s, t = RemoveAt(s, k) PROVE PartOf(t, s)
  BY <1>2, RemovedPart
<1> QED
  BY <1>1, <1>2, AfterRemoveIs

\* What is back after a file is read is part of what the file was given.
LEMMA RecoveredPart ==
  ASSUME NEW s \in Seq(Message), NEW t \in Subsequences(s)
  PROVE  PartOf(t, s)
<1>1. Len(s) \in Nat /\ DOMAIN s = 1..Len(s) /\ \A i \in DOMAIN s : s[i] \in Message
  BY ElementsOfSeq
<1>2. PICK n \in 0..Len(s) : \E f \in [1..n -> DOMAIN s] :
        /\ \A i, j \in 1..n : i < j => f[i] < f[j]
        /\ t = [i \in 1..n |-> s[f[i]]]
  BY DEF Subsequences
<1>3. PICK f \in [1..n -> DOMAIN s] :
        /\ \A i, j \in 1..n : i < j => f[i] < f[j]
        /\ t = [i \in 1..n |-> s[f[i]]]
  BY <1>2
<1>4. n \in Nat /\ DOMAIN t = 1..n /\ \A i \in 1..n : t[i] = s[f[i]] /\ t[i] \in Message
  BY <1>1, <1>3
<1>5. t \in Seq(Message)
  <2>1. t \in [1..n -> Message]
    BY <1>1, <1>3
  <2> QED
    BY <1>4, <2>1, SeqDef
<1>6. \A i, j \in 1..n : f[i] = f[j] => i = j
  <2> SUFFICES ASSUME NEW i \in 1..n, NEW j \in 1..n, f[i] = f[j], i # j
               PROVE  FALSE
    OBVIOUS
  <2>1. f[i] \in Nat /\ f[j] \in Nat /\ (i < j \/ j < i)
    BY <1>1, <1>3
  <2>2. f[i] < f[j] \/ f[j] < f[i]
    BY <1>3, <2>1
  <2> QED
    BY <2>1, <2>2
<1> QED
  BY <1>3, <1>4, <1>5, <1>6, PartByPlaces

\* Append of a message: with an id that a client chose, or with a generated
\* one that no message of s was given.
LEMMA AppendedIds ==
  ASSUME NEW s \in Seq(Message), NEW m \in Message
  PROVE  /\ Append(s, m) \in Seq(Message)
         /\ Generated(Append(s, m)) \subseteq Generated(s) \cup {m.id}
         /\ ~m.drawn => Generated(Append(s, m)) \subseteq Generated(s)
         /\ Unrepeated(s) /\ (m.drawn => m.id \notin Generated(s))
              => Unrepeated(Append(s, m))
<1> DEFINE t == Append(s, m)
<1>1. /\ t \in Seq(Message) /\ Len(s) \in Nat
      /\ DOMAIN s = 1..Len(s) /\ DOMAIN t = 1..(Len(s) + 1)
      /\ \A i \in 1..Len(s) : t[i] = s[i]
      /\ t[Len(s) + 1] = m
  BY AppendProperties, LenProperties
<1> HIDE DEF t
<1>2. \A i \in DOMAIN t : \/ i \in DOMAIN s /\ t[i] = s[i]
                          \/ i = Len(s) + 1 /\ t[i] = m
  BY <1>1
<1>3. ASSUME NEW x \in Generated(t)
      PROVE  x \in Generated(s) \/ (x = m.id /\ m.drawn)
  <2>1. PICK i \in DOMAIN t : t[i].id = x /\ t[i].drawn
    BY <1>3 DEF Generated
  <2>2. CASE i \in DOMAIN s /\ t[i] = s[i]
    BY <2>1, <2>2 DEF Generated
  <2> QED
    BY <1>2, <2>1, <2>2
<1>4. /\ Generated(t) \subseteq Generated(s) \cup {m.id}
      /\ ~m.drawn => Generated(t) \subseteq Generated(s)
  BY <1>3
<1>5. ASSUME Unrepeated(s), m.drawn => m.id \notin Generated(s) PROVE Unrepeated(t)
  <2> SUFFICES ASSUME NEW i \in DOMAIN t, NEW j \in DOMAIN t,
                      t[i].drawn, t[j].drawn, t[i].id = t[j].id
               PROVE  i = j
    BY DEF Unrepeated
  <2>1. \A k \in DOMAIN s : s[k].drawn /\ m.drawn => s[k].id # m.id
    BY <1>5 DEF Generated
  <2> QED
    BY <1>2, <1>5, <2>1 DEF Unrepeated
<1> QED
  BY <1>1, <1>4, <1>5 DEF t

---------------------------------------------------------------------------
(* What clients may ask for. *)
LEMMA RequestParts ==
  /\ \A r \in ExchangeRequests : r[1] \in Exchange /\ r[2] \in Types
  /\ \A r \in QueueRequests : r[1] \in Queue /\ r[2] \in BOOLEAN
  /\ \A r \in DlqRequests :
       r[1] \in Queue /\ r[2] \in BOOLEAN /\ r[3] \in Exchange /\ r[4] \in Key
  /\ \A r \in BindRequests : r[1] \in Exchange /\ r[2] \in Queue /\ r[3] \in Key
  /\ \A r \in Publications : r[1] \in Exchange /\ r[2] \in Props
  BY NamesAssumption

\* What a publication delivers: to one queue if the request has properties,
\* and then with the client's id or, if it is empty, the next number.
Deliverable(d, p, n) ==
  /\ d.to \subseteq stores /\ d.seq \in {n, n + 1}
  /\ d.id \in Nat \cup ClientId /\ d.drawn \in BOOLEAN
  /\ ~p.null => \E q : d.to \subseteq {q}
  /\ ~p.null /\ p.id # NoId => d.seq = n /\ d.id = p.id /\ ~d.drawn
  /\ ~p.null /\ p.id = NoId => d.id = n + 1 /\ d.drawn /\ (d.to # {} => d.seq = n + 1)
  /\ p.null => d.id = NoId /\ d.seq = n /\ ~d.drawn

LEMMA DeliveriesAre ==
  ASSUME stores \subseteq Queue, NEW sel, NEW n \in Nat,
         NEW p, p.null \in BOOLEAN, p.id \in Nat \cup ClientId,
         NEW d \in Deliveries(sel, p, n)
  PROVE  /\ Deliverable(d, p, n)
         /\ d = [to |-> d.to, id |-> d.id, drawn |-> d.drawn, seq |-> d.seq]
<1> DEFINE open == sel \cap stores
           takers == IF p.rkey = NoKey THEN open ELSE open \cap {p.rkey}
           fresh == p.id = NoId /\ open # {}
<1>1. CASE p.null
  <2>1. d = [to |-> open, id |-> NoId, drawn |-> FALSE, seq |-> n]
    BY <1>1 DEF Deliveries
  <2> QED
    BY <1>1, <2>1 DEF Deliverable, NoId
<1>2. CASE ~p.null
  <2>1. PICK t \in IF takers = {} THEN {{}} ELSE {{q} : q \in takers} :
          d = [to |-> t, id |-> IF p.id = NoId THEN n + 1 ELSE p.id,
               drawn |-> p.id = NoId, seq |-> IF fresh THEN n + 1 ELSE n]
    BY <1>2 DEF Deliveries
  <2>2. t \subseteq open /\ \E q : t \subseteq {q}
    BY <2>1
  <2>3. t # {} => open # {}
    BY <2>2
  <2> HIDE DEF open, takers
  <2>4. d.to = t /\ d.id = (IF p.id = NoId THEN n + 1 ELSE p.id)
        /\ d.drawn = (p.id = NoId) /\ d.seq = IF fresh THEN n + 1 ELSE n
    BY <2>1
  <2>5. t \subseteq stores
    BY <2>2 DEF open
  <2>6. d.id \in Nat \cup ClientId /\ d.drawn \in BOOLEAN
    BY <2>4
  <2>7. Deliverable(d, p, n)
    BY <1>2, <2>2, <2>3, <2>4, <2>5, <2>6 DEF Deliverable, NoId
  <2>8. d = [to |-> d.to, id |-> d.id, drawn |-> d.drawn, seq |-> d.seq]
    BY <2>1, <2>4
  <2> QED
    BY <2>7, <2>8
<1> QED
  BY <1>1, <1>2

LEMMA PublicationParts ==
  ASSUME NEW r \in Publications
  PROVE  /\ r[1] \in Exchange /\ r[2].null \in BOOLEAN
         /\ r[2].id \in {NoId} \cup ClientId /\ r[2].id \in Nat \cup ClientId
         /\ r[2].rkey \in Key
<1>1. r[1] \in Exchange /\ r[2] \in Props
  BY RequestParts
<1> QED
  BY <1>1 DEF Props, NoId

\* The id of a delivery makes a message.
Stamped(d) ==
  /\ d.id \in Nat \cup ClientId /\ d.drawn \in BOOLEAN
  /\ d.drawn => d.id \in Nat \ {NoId}

\* insert() into the queues of d and into their files.
LEMMA StoredIs ==
  ASSUME TypeOK, NEW d, Stamped(d), NEW body \in Nat
  PROVE  LET m == [body |-> body, id |-> d.id, drawn |-> d.drawn] IN
         /\ m \in Message
         /\ Stored(d, body) \in [Queue -> Seq(Message)]
         /\ Recorded(d, body) \in [Queue -> Seq(Message)]
         /\ \A q \in Queue :
              Stored(d, body)[q] = IF q \in d.to THEN Append(msgs[q], m) ELSE msgs[q]
         /\ \A q \in Queue :
              Recorded(d, body)[q] = IF q \in d.to /\ IsDurable(q)
                                     THEN Append(files[q], m) ELSE files[q]
<1>1. PICK m : m = [body |-> body, id |-> d.id, drawn |-> d.drawn]
  OBVIOUS
<1>2. m \in Message
  BY <1>1 DEF Message, Stamped
<1>3. \A q \in Queue : /\ msgs[q] \in Seq(Message) /\ files[q] \in Seq(Message)
                       /\ Append(msgs[q], m) \in Seq(Message)
                       /\ Append(files[q], m) \in Seq(Message)
  BY <1>2, AppendProperties DEF TypeOK
<1> QED
  BY <1>1, <1>2, <1>3 DEF Stored, Recorded

\* A queue after it, from the queue before: a generated id is added only.
Grown(t, s, taken, d) ==
  /\ t \in Seq(Message)
  /\ Generated(t) \subseteq IF taken /\ d.drawn THEN Generated(s) \cup {d.id} ELSE Generated(s)
  /\ Unrepeated(s) /\ (taken /\ d.drawn => d.id \notin Generated(s)) => Unrepeated(t)

LEMMA StoredGrows ==
  ASSUME TypeOK, NEW d, Stamped(d), NEW body \in Nat, NEW q \in Queue
  PROVE  /\ Grown(Stored(d, body)[q], msgs[q], q \in d.to, d)
         /\ Grown(Recorded(d, body)[q], files[q], q \in d.to /\ IsDurable(q), d)
<1>1. PICK m : m = [body |-> body, id |-> d.id, drawn |-> d.drawn]
  OBVIOUS
<1>2. m \in Message /\ m.id = d.id /\ m.drawn = d.drawn
  BY <1>1, StoredIs
<1>3. ASSUME NEW s \in Seq(Message)
      PROVE  Grown(s, s, FALSE, d) /\ Grown(Append(s, m), s, TRUE, d)
  BY <1>2, <1>3, AppendedIds DEF Grown
<1>4. msgs[q] \in Seq(Message) /\ files[q] \in Seq(Message)
  BY DEF TypeOK
<1>5. /\ Stored(d, body)[q] = IF q \in d.to THEN Append(msgs[q], m) ELSE msgs[q]
      /\ Recorded(d, body)[q] = IF q \in d.to /\ IsDurable(q) THEN Append(files[q], m)
                                ELSE files[q]
  BY <1>1, StoredIs
<1>6. Grown(Stored(d, body)[q], msgs[q], q \in d.to, d)
  <2>1. CASE q \in d.to
    BY <1>3, <1>4, <1>5, <2>1 DEF Grown
  <2>2. CASE q \notin d.to
    BY <1>3, <1>4, <1>5, <2>2 DEF Grown
  <2> QED
    BY <2>1, <2>2
<1>7. Grown(Recorded(d, body)[q], files[q], q \in d.to /\ IsDurable(q), d)
  <2>1. CASE q \in d.to /\ IsDurable(q)
    BY <1>3, <1>4, <1>5, <2>1 DEF Grown
  <2>2. CASE ~(q \in d.to /\ IsDurable(q))
    BY <1>3, <1>4, <1>5, <2>2 DEF Grown
  <2> QED
    BY <2>1, <2>2
<1> QED
  BY <1>6, <1>7

---------------------------------------------------------------------------
(* What a step does to the messages: it leaves in a queue part of what was  *)
(* there or in its file, or it delivers one message, or the broker          *)
(* restarts.                                                                *)
Fewer ==
  /\ files' = files /\ seq' = seq /\ published' = published
  /\ msgs' \in [Queue -> Seq(Message)]
  /\ \A q \in Queue : PartOf(msgs'[q], msgs[q]) \/ PartOf(msgs'[q], files[q])

\* A generated id is the next one, for one queue, and counted when it is used.
NextId(d) ==
  d.drawn =>
    d.id = seq + 1 /\ (\E q : d.to \subseteq {q}) /\ (d.to # {} => seq' = seq + 1)

Delivered(d, body) ==
  /\ d.to \subseteq stores /\ Stamped(d) /\ NextId(d)
  /\ files' = Recorded(d, body) /\ seq' \in {seq, seq + 1} /\ published' = published + 1
  /\ msgs' \in [Queue -> Seq(Message)]
  /\ \A q \in Queue : PartOf(msgs'[q], Stored(d, body)[q])

LEMMA PublishDelivers ==
  ASSUME TypeOK, NEW r \in Publications, Publish(r[1], r[2])
  PROVE  \E d : Delivered(d, published + 1)
<1>1. PICK sel : \E d \in Deliveries(sel, r[2], seq) :
                   /\ msgs' = Stored(d, published + 1)
                   /\ files' = Recorded(d, published + 1)
                   /\ seq' = d.seq
  BY DEF Publish
<1>2. PICK d \in Deliveries(sel, r[2], seq) :
        /\ msgs' = Stored(d, published + 1) /\ files' = Recorded(d, published + 1)
        /\ seq' = d.seq
  BY <1>1
<1>3. stores \subseteq Queue /\ seq \in Nat /\ published + 1 \in Nat
  BY DEF TypeOK
<1>4. Deliverable(d, r[2], seq)
  BY <1>3, PublicationParts, DeliveriesAre
<1>5. d.drawn => ~r[2].null /\ r[2].id = NoId
  BY <1>4, PublicationParts DEF Deliverable
<1>6. /\ d.to \subseteq stores /\ Stamped(d) /\ NextId(d)
      /\ seq' \in {seq, seq + 1}
  BY <1>2, <1>3, <1>4, <1>5 DEF Deliverable, Stamped, NextId, NoId
<1>7. /\ msgs' \in [Queue -> Seq(Message)]
      /\ \A q \in Queue : PartOf(msgs'[q], Stored(d, published + 1)[q])
  <2>1. msgs' \in [Queue -> Seq(Message)]
    BY <1>2, <1>3, <1>6, StoredIs
  <2> QED
    BY <1>2, <2>1 DEF PartOf
<1>8. published' = published + 1
  BY DEF Publish
<1> QED
  BY <1>2, <1>6, <1>7, <1>8 DEF Delivered

LEMMA PublishExDelivers ==
  ASSUME TypeOK, NEW r \in Publications, NEW k \in Key, PublishEx(r[1], k, r[2])
  PROVE  \E d : Delivered(d, published + 1)
<1>1. PICK to : /\ to \subseteq stores
                /\ LET d == [to |-> to, id |-> IF r[2].null THEN NoId ELSE r[2].id,
                              drawn |-> FALSE]
                   IN msgs' = Stored(d, published + 1) /\ files' = Recorded(d, published + 1)
  BY DEF PublishEx
<1>2. PICK d : d = [to |-> to, id |-> IF r[2].null THEN NoId ELSE r[2].id, drawn |-> FALSE]
  OBVIOUS
<1>3. d.to = to /\ d.id = (IF r[2].null THEN NoId ELSE r[2].id) /\ d.drawn = FALSE
  BY <1>2
<1>4. msgs' = Stored(d, published + 1) /\ files' = Recorded(d, published + 1)
  BY <1>1, <1>2
<1>5. Stamped(d)
  <2>1. CASE r[2].null
    <3>1. d.id = 0 /\ 0 \in Nat /\ d.drawn = FALSE
      BY <1>3, <2>1 DEF NoId
    <3> QED
      BY <3>1 DEF Stamped
  <2>2. CASE ~r[2].null
    <3>1. d.id = r[2].id /\ r[2].id \in Nat \cup ClientId /\ d.drawn = FALSE
      BY <1>3, <2>2, PublicationParts
    <3> QED
      BY <3>1 DEF Stamped
  <2> QED
    BY <2>1, <2>2
<1>6. published + 1 \in Nat
  BY DEF TypeOK
<1>7. msgs' \in [Queue -> Seq(Message)]
  BY <1>4, <1>5, <1>6, StoredIs
<1>8. seq' = seq /\ published' = published + 1
  BY DEF PublishEx
<1> QED
  BY <1>1, <1>3, <1>4, <1>5, <1>7, <1>8 DEF Delivered, NextId, PartOf

LEMMA DeadLetterDelivers ==
  ASSUME TypeOK, NEW q \in Queue, NEW id, DeadLetter(q, id)
  PROVE  \E k \in Target(msgs[q], id) : \E d :
           LET body == msgs[q][k].body
               after == Stored(d, body) IN
           /\ Delivered(d, body) /\ body \in Nat
           /\ \E r : d.to \subseteq {r}
           /\ \E s \in AfterRemove(after[q], id) : msgs' = [after EXCEPT ![q] = s]
<1>1. PICK k \in Target(msgs[q], id) : \E d \in DeadLetterDeliveries(queues[q]) :
        /\ files' = Recorded(d, msgs[q][k].body)
        /\ \E s \in AfterRemove(Stored(d, msgs[q][k].body)[q], id) :
             msgs' = [Stored(d, msgs[q][k].body) EXCEPT ![q] = s]
  BY DEF DeadLetter
<1>2. PICK b : b = msgs[q][k].body
  OBVIOUS
<1>3. PICK d \in DeadLetterDeliveries(queues[q]) :
        /\ files' = Recorded(d, b)
        /\ \E s \in AfterRemove(Stored(d, b)[q], id) : msgs' = [Stored(d, b) EXCEPT ![q] = s]
  BY <1>1, <1>2
<1>4. PICK s \in AfterRemove(Stored(d, b)[q], id) : msgs' = [Stored(d, b) EXCEPT ![q] = s]
  BY <1>3
<1>5. b \in Nat
  <2>1. msgs[q] \in Seq(Message) /\ k \in DOMAIN msgs[q]
    BY DEF TypeOK, Target
  <2>2. msgs[q][k] \in Message
    BY <2>1, ElementsOfSeq
  <2> QED
    BY <1>2, <2>2 DEF Message
<1>6. seq \in Nat /\ seq + 1 \in Nat /\ stores \subseteq Queue
  BY DEF TypeOK
<1>7. PICK sel, p, e : /\ e \in Deliveries(sel, p, seq + 1)
                       /\ p = [null |-> FALSE, id |-> seq + 1, rkey |-> queues[q].dlrk]
                       /\ d = [e EXCEPT !.drawn = TRUE]
  BY <1>3 DEF DeadLetterDeliveries
<1>8. /\ Deliverable(e, p, seq + 1) /\ p.null = FALSE /\ p.id = seq + 1
      /\ p.id \in Nat \ {NoId}
      /\ d.to = e.to /\ d.id = e.id /\ d.drawn = TRUE
  <2>1. p.null = FALSE /\ p.id = seq + 1 /\ p.id \in Nat \ {NoId}
    BY <1>6, <1>7 DEF NoId
  <2>2. p.null \in BOOLEAN /\ p.id \in Nat \cup ClientId /\ e \in Deliveries(sel, p, seq + 1)
    BY <1>7, <2>1
  <2>3. /\ Deliverable(e, p, seq + 1)
        /\ e = [to |-> e.to, id |-> e.id, drawn |-> e.drawn, seq |-> e.seq]
    BY <1>6, <2>2, DeliveriesAre
  <2>4. d.to = e.to /\ d.id = e.id /\ d.drawn = TRUE
    BY <1>7, <2>3
  <2> QED
    BY <2>1, <2>3, <2>4
<1>9. /\ d.to \subseteq stores /\ d.id = seq + 1 /\ Stamped(d)
      /\ \E r : d.to \subseteq {r}
  BY <1>6, <1>8 DEF Deliverable, Stamped
<1>10. seq' = seq + 1 /\ published' = published + 1
  BY DEF DeadLetter
<1>11. /\ Stored(d, b) \in [Queue -> Seq(Message)]
       /\ PartOf(s, Stored(d, b)[q])
  BY <1>4, <1>5, <1>9, StoredIs, AfterRemovePart
<1>12. /\ msgs' \in [Queue -> Seq(Message)]
       /\ \A r \in Queue : PartOf(msgs'[r], Stored(d, b)[r])
  BY <1>4, <1>11 DEF PartOf
<1>13. Delivered(d, b)
  BY <1>3, <1>9, <1>10, <1>12 DEF Delivered, NextId
<1> QED
  BY <1>2, <1>3, <1>5, <1>9, <1>13

LEMMA FewerOfOne ==
  ASSUME TypeOK, NEW q \in Queue, NEW s, PartOf(s, msgs[q]) \/ PartOf(s, files[q]),
         msgs' = [msgs EXCEPT ![q] = s], UNCHANGED <<files, seq, published>>
  PROVE  Fewer
<1>1. \A r \in Queue : PartOf(msgs[r], msgs[r])
  BY DEF TypeOK, PartOf
<1>2. s \in Seq(Message)
  BY DEF PartOf
<1>3. \A r \in Queue : msgs'[r] = IF r = q THEN s ELSE msgs[r]
  BY DEF TypeOK
<1>4. msgs' \in [Queue -> Seq(Message)]
  BY <1>2 DEF TypeOK
<1> QED
  BY <1>1, <1>3, <1>4 DEF Fewer

LEMMA OpenedFewer ==
  ASSUME TypeOK, NEW q \in Queue, NEW d, NEW dlx, NEW dlrk, OpenQueue(q, d, dlx, dlrk),
         UNCHANGED <<files, seq, published>>
  PROVE  Fewer
<1>1. PICK s \in IF q \in stores THEN {msgs[q]}
                 ELSE IF d THEN Subsequences(files[q]) ELSE {<<>>} :
        msgs' = [msgs EXCEPT ![q] = s]
  BY DEF OpenQueue
<1>2. msgs[q] \in Seq(Message) /\ files[q] \in Seq(Message)
  BY DEF TypeOK
<1>3. PartOf(s, msgs[q]) \/ PartOf(s, files[q])
  <2>1. CASE q \in stores
    BY <1>1, <1>2, <2>1 DEF PartOf
  <2>2. CASE q \notin stores /\ d
    BY <1>1, <1>2, <2>2, RecoveredPart
  <2>3. CASE q \notin stores /\ ~d
    BY <1>1, <2>3, EmptyMessages DEF PartOf
  <2> QED
    BY <2>1, <2>2, <2>3
<1> QED
  BY <1>1, <1>3, FewerOfOne

LEMMA RemovedFewer ==
  ASSUME TypeOK, NEW q \in Queue, NEW id,
         \E s \in AfterRemove(msgs[q], id) : msgs' = [msgs EXCEPT ![q] = s],
         UNCHANGED <<files, seq, published>>
  PROVE  Fewer
<1>1. PICK s \in AfterRemove(msgs[q], id) : msgs' = [msgs EXCEPT ![q] = s]
  OBVIOUS
<1>2. PartOf(s, msgs[q])
  BY AfterRemovePart DEF TypeOK
<1> QED
  BY <1>1, <1>2, FewerOfOne

MessageMoves ==
  \/ Fewer \/ Restart
  \/ \E d : \E body \in Nat : Delivered(d, body)

LEMMA MessagesChange == TypeOK /\ [Next]_vars => MessageMoves
<1> SUFFICES ASSUME TypeOK, [Next]_vars PROVE MessageMoves
  OBVIOUS
<1> USE DEF MessageMoves
<1>0. ASSUME UNCHANGED <<msgs, files, seq, published>> PROVE Fewer
  BY <1>0 DEF TypeOK, Fewer, PartOf
<1>1. ASSUME NEW r \in ExchangeRequests, DeclareExchange(r[1], r[2]) PROVE MessageMoves
  BY <1>0, <1>1 DEF DeclareExchange
<1>2. ASSUME NEW x \in Exchange, DeleteExchange(x) PROVE MessageMoves
  BY <1>0, <1>2 DEF DeleteExchange
<1>3. ASSUME NEW r \in QueueRequests, DeclareQueue(r[1], r[2]) PROVE MessageMoves
  BY <1>3, RequestParts, OpenedFewer DEF DeclareQueue
<1>4. ASSUME NEW r \in DlqRequests, DeclareQueueWithDlq(r[1], r[2], r[3], r[4])
      PROVE  MessageMoves
  BY <1>4, RequestParts, OpenedFewer DEF DeclareQueueWithDlq
<1>5. ASSUME NEW q \in Queue, DeleteQueue(q) PROVE MessageMoves
  <2>1. PartOf(<<>>, msgs[q])
    BY EmptyMessages DEF PartOf
  <2> QED
    BY <1>5, <2>1, FewerOfOne DEF DeleteQueue
<1>6. ASSUME NEW q \in Queue, Consume(q) PROVE MessageMoves
  BY <1>6, RemovedFewer DEF Consume
<1>7. ASSUME NEW r \in BindRequests, Bind(r[1], r[2], r[3]) PROVE MessageMoves
  BY <1>0, <1>7 DEF Bind
<1>8. ASSUME NEW x \in Exchange, NEW q \in Queue, Unbind(x, q) PROVE MessageMoves
  BY <1>0, <1>8 DEF Unbind
<1>9. published + 1 \in Nat
  BY DEF TypeOK
<1>10. ASSUME NEW r \in Publications, Publish(r[1], r[2]) PROVE MessageMoves
  BY <1>9, <1>10, PublishDelivers
<1>11. ASSUME NEW r \in Publications, NEW k \in Key, PublishEx(r[1], k, r[2])
       PROVE  MessageMoves
  BY <1>9, <1>11, PublishExDelivers
<1>12. ASSUME NEW q \in Queue, NEW id, Ack(q, id) \/ Reject(q, id) PROVE MessageMoves
  BY <1>12, RemovedFewer DEF Ack, Reject
<1>13. ASSUME NEW q \in Queue, NEW id, DeadLetter(q, id) PROVE MessageMoves
  BY <1>13, DeadLetterDelivers
<1>14. CASE Restart
  BY <1>14
<1>15. CASE UNCHANGED vars
  BY <1>0, <1>15 DEF vars
<1> HIDE DEF MessageMoves
<1> QED
  BY <1>1, <1>2, <1>3, <1>4, <1>5, <1>6, <1>7, <1>8, <1>10, <1>11, <1>12, <1>13, <1>14,
     <1>15 DEF Next, Query

---------------------------------------------------------------------------
\* The parts of the type invariant.
TableTypes ==
  /\ exchanges \in [Exchange -> Types \cup {"none"}]
  /\ queues \in [Queue -> Config \cup {NoQueue}]
  /\ stores \subseteq Queue
  /\ bindings \in [Exchange -> [Queue -> Key \cup {Unbound}]]
  /\ restarted \in BOOLEAN

MessageTypes ==
  /\ msgs \in [Queue -> Seq(Message)] /\ files \in [Queue -> Seq(Message)]
  /\ seq \in Nat /\ published \in Nat /\ seq <= published

LEMMA TypeParts == TypeOK <=> TableTypes /\ MessageTypes
  BY DEF TypeOK, TableTypes, MessageTypes

LEMMA NoMessages == [q \in Queue |-> <<>>] \in [Queue -> Seq(Message)]
  BY EmptyMessages

LEMMA HostInit == Init => HostInvariant
<1> SUFFICES ASSUME Init PROVE HostInvariant
  OBVIOUS
<1>1. TableTypes
  BY DEF Init, TableTypes, Types
<1>2. MessageTypes
  BY NoMessages DEF Init, MessageTypes
<1>3. Integrity
  BY DEF Init, Integrity
<1>4. OwnIds
  <2>1. \A q \in Queue : msgs[q] = <<>> /\ files[q] = <<>>
    BY DEF Init
  <2>2. \A q \in Queue : IdsOf(q) = {}
    BY <2>1, EmptyMessages DEF IdsOf
  <2> QED
    BY <2>1, <2>2, EmptyMessages DEF OwnIds
<1> QED
  BY <1>1, <1>2, <1>3, <1>4, TypeParts DEF HostInvariant

LEMMA MessageTypesStep == TypeOK /\ [Next]_vars => MessageTypes'
<1> SUFFICES ASSUME TypeOK, [Next]_vars PROVE MessageTypes'
  OBVIOUS
<1>0. MessageTypes /\ stores \subseteq Queue
  BY TypeParts DEF TableTypes
<1>1. CASE Fewer
  BY <1>0, <1>1 DEF Fewer, MessageTypes
<1>2. CASE Restart
  BY <1>0, <1>2, NoMessages DEF Restart, MessageTypes
<1>3. ASSUME NEW d, NEW body \in Nat, Delivered(d, body) PROVE MessageTypes'
  <2>1. files' \in [Queue -> Seq(Message)]
    BY <1>3, StoredIs DEF Delivered
  <2> QED
    BY <1>0, <1>3, <2>1 DEF Delivered, MessageTypes
<1> QED
  BY <1>1, <1>2, <1>3, MessagesChange DEF MessageMoves

\* A declaration registers the queue and opens its store.
LEMMA OpenedTables ==
  ASSUME TableTypes, Integrity, msgs \in [Queue -> Seq(Message)],
         NEW q \in Queue, NEW d \in BOOLEAN, NEW dlx \in Exchange, NEW dlrk \in Key,
         OpenQueue(q, d, dlx, dlrk)
  PROVE  /\ queues' \in [Queue -> Config \cup {NoQueue}] /\ stores' \subseteq Queue
         /\ queues'[q] # NoQueue /\ stores' = stores \cup {q}
         /\ \A r \in Queue : r # q => queues'[r] = queues[r]
         /\ \A r \in Queue : r # q => msgs'[r] = msgs[r]
         /\ \A r \in Queue : r \in stores' <=> queues'[r] # NoQueue
<1>1. PICK c : c = [durable |-> d, dlx |-> dlx, dlrk |-> dlrk]
  OBVIOUS
<1>2. c \in Config /\ c # NoQueue
  BY <1>1, NamesAssumption DEF Config
<1>3. /\ queues' = IF queues[q] # NoQueue THEN queues ELSE [queues EXCEPT ![q] = c]
      /\ stores' = stores \cup {q} /\ \E s : msgs' = [msgs EXCEPT ![q] = s]
  BY <1>1 DEF OpenQueue
<1>4. /\ queues' \in [Queue -> Config \cup {NoQueue}] /\ queues'[q] # NoQueue
      /\ \A r \in Queue : r # q => queues'[r] = queues[r]
  BY <1>2, <1>3 DEF TableTypes
<1>5. \A r \in Queue : r # q => msgs'[r] = msgs[r]
  BY <1>3
<1>6. \A r \in Queue : r \in stores' <=> queues'[r] # NoQueue
  BY <1>3, <1>4 DEF Integrity
<1> QED
  BY <1>3, <1>4, <1>5, <1>6 DEF TableTypes

LEMMA BoundTables ==
  ASSUME TableTypes, NEW x \in Exchange, NEW q \in Queue, NEW k \in Key
  PROVE  /\ WithBinding(x, q, k) \in [Exchange -> [Queue -> Key \cup {Unbound}]]
         /\ \A y \in Exchange, r \in Queue :
              WithBinding(x, q, k)[y][r] = bindings[y][r]
              \/ (y = x /\ r = q /\ exchanges[x] # "none")
  BY DEF TableTypes, WithBinding

LEMMA TablesStep == TypeOK /\ Integrity /\ [Next]_vars => TableTypes' /\ Integrity'
<1> SUFFICES ASSUME TypeOK, Integrity, [Next]_vars PROVE TableTypes' /\ Integrity'
  OBVIOUS
<1>0. TableTypes /\ msgs \in [Queue -> Seq(Message)]
  BY TypeParts DEF MessageTypes
<1>1. ASSUME NEW r \in ExchangeRequests, DeclareExchange(r[1], r[2])
      PROVE  TableTypes' /\ Integrity'
  <2>1. r[1] \in Exchange /\ r[2] \in Types /\ r[2] # "none"
    BY RequestParts DEF Types
  <2> QED
    BY <1>0, <1>1, <2>1 DEF DeclareExchange, TableTypes, Integrity
<1>2. ASSUME NEW x \in Exchange, DeleteExchange(x) PROVE TableTypes' /\ Integrity'
  BY <1>0, <1>2 DEF DeleteExchange, TableTypes, Integrity
<1>3. ASSUME NEW r \in QueueRequests, DeclareQueue(r[1], r[2]) PROVE TableTypes' /\ Integrity'
  <2>1. PICK q : q = r[1]
    OBVIOUS
  <2>2. q \in Queue /\ r[2] \in BOOLEAN /\ DefaultEx \in Exchange /\ NoKey \in Key /\ q \in Key
    BY <2>1, RequestParts, NamesAssumption
  <2>3. /\ OpenQueue(q, r[2], DefaultEx, NoKey) /\ bindings' = WithBinding(DefaultEx, q, q)
        /\ UNCHANGED <<exchanges, restarted>>
    BY <1>3, <2>1 DEF DeclareQueue
  <2>4. /\ queues' \in [Queue -> Config \cup {NoQueue}] /\ stores' \subseteq Queue
        /\ queues'[q] # NoQueue /\ stores' = stores \cup {q}
        /\ \A s \in Queue : s # q => queues'[s] = queues[s]
        /\ \A s \in Queue : s # q => msgs'[s] = msgs[s]
        /\ \A s \in Queue : s \in stores' <=> queues'[s] # NoQueue
    BY <1>0, <2>2, <2>3, OpenedTables
  <2>5. /\ bindings' \in [Exchange -> [Queue -> Key \cup {Unbound}]]
        /\ \A y \in Exchange, s \in Queue :
             bindings'[y][s] = bindings[y][s] \/ (y = DefaultEx /\ s = q /\ exchanges[y] # "none")
    BY <1>0, <2>2, <2>3, BoundTables
  <2> QED
    BY <1>0, <2>3, <2>4, <2>5 DEF TableTypes, Integrity
<1>4. ASSUME NEW r \in DlqRequests, DeclareQueueWithDlq(r[1], r[2], r[3], r[4])
      PROVE  TableTypes' /\ Integrity'
  <2>1. PICK q : q = r[1]
    OBVIOUS
  <2>2. q \in Queue /\ r[2] \in BOOLEAN /\ r[3] \in Exchange /\ r[4] \in Key
    BY <2>1, RequestParts
  <2>3. /\ OpenQueue(q, r[2], r[3], r[4]) /\ UNCHANGED <<exchanges, bindings, restarted>>
    BY <1>4, <2>1 DEF DeclareQueueWithDlq
  <2>4. /\ queues' \in [Queue -> Config \cup {NoQueue}] /\ stores' \subseteq Queue
        /\ queues'[q] # NoQueue /\ stores' = stores \cup {q}
        /\ \A s \in Queue : s # q => queues'[s] = queues[s]
        /\ \A s \in Queue : s # q => msgs'[s] = msgs[s]
        /\ \A s \in Queue : s \in stores' <=> queues'[s] # NoQueue
    BY <1>0, <2>2, <2>3, OpenedTables
  <2> QED
    BY <1>0, <2>3, <2>4 DEF TableTypes, Integrity
<1>5. ASSUME NEW q \in Queue, DeleteQueue(q) PROVE TableTypes' /\ Integrity'
  <2>1. /\ bindings' \in [Exchange -> [Queue -> Key \cup {Unbound}]]
        /\ \A y \in Exchange, s \in Queue :
             bindings'[y][s] = IF s = q THEN Unbound ELSE bindings[y][s]
    BY <1>0, <1>5 DEF DeleteQueue, TableTypes
  <2>2. /\ queues' \in [Queue -> Config \cup {NoQueue}]
        /\ \A s \in Queue : queues'[s] = IF s = q THEN NoQueue ELSE queues[s]
        /\ \A s \in Queue : msgs'[s] = IF s = q THEN <<>> ELSE msgs[s]
    BY <1>0, <1>5 DEF DeleteQueue, TableTypes
  <2>3. stores' = stores \ {q} /\ UNCHANGED <<exchanges, restarted>>
    BY <1>5 DEF DeleteQueue
  <2> QED
    BY <1>0, <2>1, <2>2, <2>3 DEF TableTypes, Integrity
<1>6. ASSUME NEW r \in BindRequests, Bind(r[1], r[2], r[3]) PROVE TableTypes' /\ Integrity'
  <2>1. PICK x, q, k : x = r[1] /\ q = r[2] /\ k = r[3]
    OBVIOUS
  <2>2. x \in Exchange /\ q \in Queue /\ k \in Key
    BY <2>1, RequestParts
  <2>3. /\ queues[q] # NoQueue /\ bindings' = WithBinding(x, q, k)
        /\ UNCHANGED <<exchanges, queues, stores, msgs, restarted>>
    BY <1>6, <2>1 DEF Bind
  <2>4. /\ bindings' \in [Exchange -> [Queue -> Key \cup {Unbound}]]
        /\ \A y \in Exchange, s \in Queue :
             bindings'[y][s] = bindings[y][s] \/ (y = x /\ s = q /\ exchanges[y] # "none")
    BY <1>0, <2>2, <2>3, BoundTables
  <2> QED
    BY <1>0, <2>3, <2>4 DEF TableTypes, Integrity
<1>7. ASSUME NEW x \in Exchange, NEW q \in Queue, Unbind(x, q) PROVE TableTypes' /\ Integrity'
  BY <1>0, <1>7 DEF Unbind, TableTypes, Integrity
<1>8. ASSUME UNCHANGED admin, \A q \in Queue : q \notin stores => msgs'[q] = msgs[q]
      PROVE  TableTypes' /\ Integrity'
  BY <1>0, <1>8 DEF admin, TableTypes, Integrity
<1>9. ASSUME UNCHANGED admin, NEW d, NEW body \in Nat, Delivered(d, body)
      PROVE  TableTypes' /\ Integrity'
  <2>1. ASSUME NEW q \in Queue, q \notin stores PROVE msgs'[q] = msgs[q]
    <3>1. PartOf(msgs'[q], Stored(d, body)[q])
      BY <1>9 DEF Delivered
    <3>2. Stamped(d) /\ q \notin d.to
      BY <1>9, <2>1 DEF Delivered
    <3>3. Stored(d, body)[q] = msgs[q] /\ msgs[q] = <<>>
      <4>1. Stored(d, body)[q] = msgs[q]
        BY <2>1, <3>2 DEF Stored
      <4> QED
        BY <2>1, <3>2, <4>1 DEF Integrity
    <3> QED
      BY <3>1, <3>3 DEF PartOf
  <2> QED
    BY <1>8, <1>9, <2>1
<1>10. ASSUME NEW r \in Publications, Publish(r[1], r[2]) PROVE TableTypes' /\ Integrity'
  <2>1. UNCHANGED admin /\ published + 1 \in Nat
    BY <1>10 DEF Publish, TypeOK
  <2> QED
    BY <1>9, <1>10, <2>1, PublishDelivers
<1>11. ASSUME NEW r \in Publications, NEW k \in Key, PublishEx(r[1], k, r[2])
       PROVE  TableTypes' /\ Integrity'
  <2>1. UNCHANGED admin /\ published + 1 \in Nat
    BY <1>11 DEF PublishEx, TypeOK
  <2> QED
    BY <1>9, <1>11, <2>1, PublishExDelivers
<1>12. ASSUME NEW q \in Queue, NEW id, DeadLetter(q, id) PROVE TableTypes' /\ Integrity'
  <2>1. UNCHANGED admin
    BY <1>12 DEF DeadLetter
  <2> QED
    BY <1>9, <1>12, <2>1, DeadLetterDelivers
<1>13. ASSUME NEW q \in Queue, NEW id, Consume(q) \/ Ack(q, id) \/ Reject(q, id)
       PROVE  TableTypes' /\ Integrity'
  <2>1. q \in stores /\ UNCHANGED admin /\ \E s : msgs' = [msgs EXCEPT ![q] = s]
    BY <1>13 DEF Consume, Ack, Reject
  <2> QED
    BY <1>0, <1>8, <2>1
<1>14. CASE Restart
  <2>1. PICK kept \in SUBSET {x \in Exchange : exchanges[x] # "none"} :
          exchanges' = [x \in Exchange |-> IF x \in kept THEN exchanges[x]
                                           ELSE IF x = DefaultEx THEN "DIRECT" ELSE "none"]
    BY <1>14 DEF Restart
  <2>2. exchanges' \in [Exchange -> Types \cup {"none"}]
    BY <1>0, <2>1 DEF TableTypes, Types
  <2> QED
    BY <1>14, <2>2 DEF Restart, TableTypes, Integrity
<1>15. CASE UNCHANGED vars
  BY <1>8, <1>15 DEF vars, admin
<1> QED
  BY <1>1, <1>2, <1>3, <1>4, <1>5, <1>6, <1>7, <1>10, <1>11, <1>12, <1>13, <1>14, <1>15
  DEF Next, Query

---------------------------------------------------------------------------
LEMMA RestartedStays == TypeOK /\ [Next]_vars /\ restarted => restarted'
<1> SUFFICES ASSUME TypeOK, [Next]_vars, restarted PROVE restarted'
  OBVIOUS
<1>1. ASSUME NEW r \in ExchangeRequests, DeclareExchange(r[1], r[2]) PROVE restarted'
  BY <1>1 DEF DeclareExchange
<1>2. ASSUME NEW x \in Exchange, DeleteExchange(x) PROVE restarted'
  BY <1>2 DEF DeleteExchange
<1>3. ASSUME NEW r \in QueueRequests, DeclareQueue(r[1], r[2]) PROVE restarted'
  BY <1>3 DEF DeclareQueue
<1>4. ASSUME NEW r \in DlqRequests, DeclareQueueWithDlq(r[1], r[2], r[3], r[4]) PROVE restarted'
  BY <1>4 DEF DeclareQueueWithDlq
<1>5. ASSUME NEW r \in BindRequests, Bind(r[1], r[2], r[3]) PROVE restarted'
  BY <1>5 DEF Bind
<1>6. ASSUME NEW x \in Exchange, NEW q \in Queue, Unbind(x, q) PROVE restarted'
  BY <1>6 DEF Unbind
<1>7. ASSUME NEW r \in Publications,
             Publish(r[1], r[2]) \/ \E k \in Key : PublishEx(r[1], k, r[2])
      PROVE  restarted'
  BY <1>7 DEF Publish, PublishEx, admin
<1>8. ASSUME NEW q \in Queue, DeleteQueue(q) PROVE restarted'
  BY <1>8 DEF DeleteQueue
<1>9. ASSUME NEW q \in Queue, NEW id,
             Consume(q) \/ Ack(q, id) \/ Reject(q, id) \/ DeadLetter(q, id)
      PROVE  restarted'
  BY <1>9 DEF Consume, Ack, Reject, DeadLetter, admin
<1>10. CASE Restart \/ UNCHANGED vars
  BY <1>10 DEF Restart, vars
<1> QED
  BY <1>1, <1>2, <1>3, <1>4, <1>5, <1>6, <1>7, <1>8, <1>9, <1>10 DEF Next, Query

(* Every queue keeps ids of its own. *)
LEMMA OwnIdsStep == TypeOK /\ OwnIds /\ [Next]_vars => OwnIds'
<1> SUFFICES ASSUME TypeOK, OwnIds, [Next]_vars PROVE OwnIds'
  OBVIOUS
<1>0. seq \in Nat
  BY DEF TypeOK
<1>1. CASE Restart
  BY <1>1 DEF Restart, OwnIds
<1>2. CASE ~Restart /\ restarted
  <2>1. restarted'
    BY <1>2, RestartedStays
  <2> QED
    BY <2>1 DEF OwnIds
<1>3. CASE ~restarted /\ Fewer
  <2>1. ASSUME NEW q \in Queue
        PROVE  /\ Unrepeated(msgs'[q]) /\ Unrepeated(files'[q])
               /\ IdsOf(q)' \subseteq IdsOf(q)
    BY <1>3, <2>1 DEF Fewer, PartOf, OwnIds, IdsOf
  <2>2. seq' = seq
    BY <1>3 DEF Fewer
  <2> QED
    BY <1>3, <2>1, <2>2 DEF OwnIds
<1>4. ASSUME ~restarted, NEW d, NEW body \in Nat, Delivered(d, body) PROVE OwnIds'
  <2>1. Stamped(d) /\ NextId(d) /\ files' = Recorded(d, body) /\ seq' \in {seq, seq + 1}
        /\ \A q \in Queue : PartOf(msgs'[q], Stored(d, body)[q])
    BY <1>4 DEF Delivered
  <2>2. \A q \in Queue : /\ Grown(Stored(d, body)[q], msgs[q], q \in d.to, d)
                         /\ Grown(Recorded(d, body)[q], files[q], q \in d.to /\ IsDurable(q), d)
    BY <2>1, StoredGrows
  <2>3. \A q \in Queue : msgs[q] \in Seq(Message) /\ files[q] \in Seq(Message)
    BY DEF TypeOK
  <2>4. \A q \in Queue : /\ Unrepeated(msgs[q]) /\ Unrepeated(files[q])
                         /\ \A i \in IdsOf(q) : i <= seq /\ i \in Nat
                         /\ \A r \in Queue : q # r => IdsOf(q) \cap IdsOf(r) = {}
    BY <1>4, <2>3, GeneratedIds DEF OwnIds, IdsOf
  <2>5. CASE ~d.drawn
    <3>1. \A q \in Queue : /\ Unrepeated(msgs'[q]) /\ Unrepeated(files'[q])
                           /\ IdsOf(q)' \subseteq IdsOf(q)
      BY <2>1, <2>2, <2>4, <2>5 DEF Grown, PartOf, IdsOf
    <3>2. \A q \in Queue : \A i \in IdsOf(q)' : i <= seq'
      BY <1>0, <2>1, <2>4, <3>1
    <3> QED
      BY <2>4, <3>1, <3>2 DEF OwnIds
  <2>6. CASE d.drawn
    <3>1. /\ d.id = seq + 1 /\ (\E q : d.to \subseteq {q}) /\ (d.to # {} => seq' = seq + 1)
      BY <2>1, <2>6 DEF NextId
    <3>2. \A q \in Queue : seq + 1 \notin IdsOf(q)
      BY <1>0, <2>4
    <3>3. ASSUME NEW q \in Queue
          PROVE  /\ Unrepeated(msgs'[q]) /\ Unrepeated(files'[q])
                 /\ IdsOf(q)' \subseteq IF q \in d.to THEN IdsOf(q) \cup {d.id} ELSE IdsOf(q)
      <4>1. d.id \notin Generated(msgs[q]) /\ d.id \notin Generated(files[q])
        BY <3>1, <3>2 DEF IdsOf
      <4>2. Unrepeated(Stored(d, body)[q]) /\ Unrepeated(Recorded(d, body)[q])
        BY <2>2, <2>4, <4>1 DEF Grown
      <4>3. Unrepeated(msgs'[q]) /\ Unrepeated(files'[q])
            /\ Generated(msgs'[q]) \subseteq Generated(Stored(d, body)[q])
            /\ Generated(files'[q]) \subseteq Generated(Recorded(d, body)[q])
        BY <2>1, <4>2 DEF PartOf
      <4>4. CASE q \in d.to
        BY <2>2, <4>3, <4>4 DEF Grown, IdsOf
      <4>5. CASE q \notin d.to
        BY <2>2, <4>3, <4>5 DEF Grown, IdsOf
      <4> QED
        BY <4>3, <4>4, <4>5
    <3>4. \A q \in Queue : \A i \in IdsOf(q)' : i <= seq'
      BY <1>0, <2>1, <2>4, <3>1, <3>3
    <3>5. ASSUME NEW q \in Queue, NEW r \in Queue, q # r, NEW i, i \in IdsOf(q)', i \in IdsOf(r)'
          PROVE  FALSE
      <4>1. ~(q \in d.to /\ r \in d.to)
        BY <3>1, <3>5
      <4> QED
        BY <2>4, <3>1, <3>2, <3>3, <3>5, <4>1
    <3> QED
      BY <3>3, <3>4, <3>5 DEF OwnIds
  <2> QED
    BY <2>1, <2>5, <2>6 DEF Stamped
<1> QED
  BY <1>1, <1>2, <1>3, <1>4, MessagesChange DEF MessageMoves

LEMMA IdsAreUnique == TypeOK /\ OwnIds => UniqueIds
<1> SUFFICES ASSUME TypeOK, OwnIds, ~restarted,
                    NEW q \in Queue, NEW r \in Queue,
                    NEW i \in DOMAIN msgs[q], NEW j \in DOMAIN msgs[r],
                    msgs[q][i].drawn, msgs[r][j].drawn, msgs[q][i].id = msgs[r][j].id
             PROVE  q = r /\ i = j
  BY DEF UniqueIds, DrawnOnce
<1>1. msgs[q][i].id \in IdsOf(q) /\ msgs[q][i].id \in IdsOf(r)
  BY DEF IdsOf, Generated
<1>2. q = r
  BY <1>1 DEF OwnIds
<1> QED
  BY <1>2 DEF OwnIds, Unrepeated

LEMMA HostStep == HostInvariant /\ [Next]_vars => HostInvariant'
<1> SUFFICES ASSUME HostInvariant, [Next]_vars PROVE HostInvariant'
  OBVIOUS
<1>1. TypeOK /\ Integrity /\ OwnIds
  BY DEF HostInvariant
<1>2. TableTypes' /\ MessageTypes' /\ Integrity' /\ OwnIds'
  BY <1>1, MessageTypesStep, TablesStep, OwnIdsStep
<1> QED
  BY <1>2 DEF HostInvariant, TypeOK, TableTypes, MessageTypes

(* The tables agree, the queues and files hold messages, and until a        *)
(* restart every queue and its file have generated ids of their own.        *)
THEOREM HostCorrect == Spec => []HostInvariant
<1>1. Init => HostInvariant
  BY HostInit
<1>2. HostInvariant /\ [Next]_vars => HostInvariant'
  BY HostStep
<1> QED
  BY <1>1, <1>2, PTL DEF Spec

(* The state is well formed; ids are drawn by publications and dead letters *)
(* only, one at most by each.                                               *)
THEOREM HostTypes == Spec => []TypeOK
<1>1. HostInvariant => TypeOK
  BY DEF HostInvariant
<1> QED
  BY <1>1, HostCorrect, PTL

(* Queues, stores and bindings agree after any declarations, deletions and  *)
(* restarts; no binding is left of a deleted queue.  Of the messages a      *)
(* queue recovers when it is declared it says nothing.                      *)
THEOREM TablesAgree == Spec => []Integrity
<1>1. HostInvariant => Integrity
  BY DEF HostInvariant
<1> QED
  BY <1>1, HostCorrect, PTL

(* While the process runs, generate_id gives no two messages in the queues  *)
(* the same id, messages recovered from a file and dead letters included.   *)
(* A client may still choose the id of one of them for its own message.     *)
THEOREM IdsNameOne == Spec => []UniqueIds
<1>1. HostInvariant => UniqueIds
  BY IdsAreUnique DEF HostInvariant
<1> QED
  BY <1>1, HostCorrect, PTL

---------------------------------------------------------------------------
\* remove() finds one message at most.
LEMMA TakesOnce ==
  ASSUME NEW s \in Seq(Message), NEW id, NEW j \in DOMAIN s, NEW k \in DOMAIN s,
         Takes(s, id, j), Takes(s, id, k)
  PROVE  j = k
<1>1. j \in Nat /\ k \in Nat /\ j >= 1 /\ k >= 1
  <2>1. DOMAIN s = 1..Len(s) /\ Len(s) \in Nat
    BY LenProperties
  <2> QED
    BY <2>1
<1>2. CASE id = NoId
  BY <1>2 DEF Takes
<1>3. CASE id # NoId /\ j < k
  <2>1. j \in 1..(k - 1)
    BY <1>1, <1>3
  <2> QED
    BY <1>3, <2>1 DEF Takes
<1>4. CASE id # NoId /\ k < j
  <2>1. k \in 1..(j - 1)
    BY <1>1, <1>4
  <2> QED
    BY <1>4, <2>1 DEF Takes
<1> QED
  BY <1>1, <1>2, <1>3, <1>4

LEMMA LetterMoved ==
  ASSUME TypeOK, NEW q \in Queue, NEW id, id # NoId, DeadLetter(q, id)
  PROVE  MovesOne(q, id)
<1>1. PICK k \in Target(msgs[q], id) : \E d :
        LET body == msgs[q][k].body
            after == Stored(d, body) IN
        /\ Delivered(d, body) /\ body \in Nat
        /\ \E r : d.to \subseteq {r}
        /\ \E s \in AfterRemove(after[q], id) : msgs' = [after EXCEPT ![q] = s]
  BY DeadLetterDelivers
<1>2. PICK b : b = msgs[q][k].body
  OBVIOUS
<1>3. PICK d : /\ Delivered(d, b) /\ b \in Nat /\ (\E r : d.to \subseteq {r})
               /\ \E s \in AfterRemove(Stored(d, b)[q], id) :
                    msgs' = [Stored(d, b) EXCEPT ![q] = s]
  BY <1>1, <1>2
<1>4. PICK s \in AfterRemove(Stored(d, b)[q], id) : msgs' = [Stored(d, b) EXCEPT ![q] = s]
  BY <1>3
<1>5. k \in DOMAIN msgs[q] /\ msgs[q][k].id = id /\ Takes(msgs[q], id, k)
  BY DEF Target, Takes
<1>6. Stamped(d)
  BY <1>3 DEF Delivered
<1>7. PICK m : m = [body |-> b, id |-> d.id, drawn |-> d.drawn]
  OBVIOUS
<1>8. /\ Stored(d, b) \in [Queue -> Seq(Message)] /\ m \in Message /\ m.body = b
      /\ \A r \in Queue : Stored(d, b)[r] = IF r \in d.to THEN Append(msgs[r], m) ELSE msgs[r]
  BY <1>3, <1>6, <1>7, StoredIs
<1>9. ASSUME NEW r \in Queue \ {q}, msgs'[r] # msgs[r]
      PROVE  /\ msgs'[q] = RemoveAt(msgs[q], k)
             /\ msgs'[r][Len(msgs'[r])].body = msgs[q][k].body
  <2>1. msgs'[r] = Stored(d, b)[r]
    BY <1>4, <1>8
  <2>2. r \in d.to /\ msgs'[r] = Append(msgs[r], m)
    BY <1>8, <1>9, <2>1
  <2>3. q \notin d.to
    BY <1>3, <2>2
  <2>4. Stored(d, b)[q] = msgs[q] /\ msgs'[q] = s
    BY <1>4, <1>8, <2>3
  <2>5. msgs[q] \in Seq(Message) /\ msgs[r] \in Seq(Message)
    BY DEF TypeOK
  <2>6. s = RemoveAt(msgs[q], k)
    BY <1>4, <1>5, <2>4, <2>5, AfterRemoveIs, TakesOnce
  <2>7. /\ Len(msgs[r]) \in Nat /\ Len(Append(msgs[r], m)) = Len(msgs[r]) + 1
        /\ Append(msgs[r], m)[Len(msgs[r]) + 1] = m
    BY <1>8, <2>5, AppendProperties, LenProperties
  <2> QED
    BY <1>2, <1>8, <2>2, <2>4, <2>6, <2>7
<1> QED
  BY <1>5, <1>9 DEF MovesOne

(* A nack by a generated or a client's id on a queue with a dead letter     *)
(* exchange moves the message: the copy that arrives is of the one removed. *)
THEOREM NackMoves == Spec => NackIsAMove
<1> DEFINE Moved ==
      \A q \in Queue, id \in HeldIds \ {NoId} : DeadLetter(q, id) => MovesOne(q, id)
<1>1. TypeOK => Moved
  BY LetterMoved
<1>2. Spec => [][Moved]_vars
  <2> HIDE DEF Moved
  <2>1. TypeOK /\ [Next]_vars => [Moved]_vars
    BY <1>1
  <2> QED
    BY <2>1, HostTypes, PTL DEF Spec
<1> QED
  BY <1>2 DEF NackIsAMove

=============================================================================
