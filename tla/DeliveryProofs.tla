--------------------------- MODULE DeliveryProofs ---------------------------
(***************************************************************************)
(* What becomes of the messages of a queue, and who is given them          *)
(* (channel.cpp, consumer.cpp), for any number of workers, channels,       *)
(* consumers and messages.  The invariants of Delivery hold by what the    *)
(* workers know of a message between two calls: they hold it until a       *)
(* callback has it or the queue was without consumer, no message is twice  *)
(* in the queue, and the messages no worker is about to take out have a    *)
(* task each.                                                              *)
(***************************************************************************)
EXTENDS Delivery, SequenceLemmas

\* The queue and the workers have messages that were put in the queue, and
\* what a worker acks by itself was given to a callback.
Known ==
  /\ ToSet(msgs) \subseteq entered
  /\ \A w \in Worker : msg[w] \in entered \cup {NoMsg}
  /\ \A w \in Worker : pc[w] = "ack" => msg[w] \in done

\* What is out of the queue when there is no consumer, is known to be.
Waiting == consumers = <<>> => Undecided \subseteq unserved

\* No message is twice in the queue.
OnceEach == \A i, j \in DOMAIN msgs : msgs[i] = msgs[j] => i = j

\* Where the event loop is between the two calls of a request.
Requests ==
  /\ loop = "declare" => store
  /\ loop = "delete" => ~group
  /\ loop = "publish" => tasks < MaxTasks
  /\ ~store => msgs = <<>>

\* Who is next, and who has had a turn since s had it.
Turn == (rr % Len(consumers)) + 1
Since(s, p, i) == IF s <= p THEN s <= i /\ i < p ELSE s <= i \/ i < p

\* The turns since the last change of the consumers: some full rounds, and
\* one more from the consumer the round began with up to the next one.
OneMoreSince(s, p) ==
  \A i \in DOMAIN consumers : turns[i] = turns[p] + IF Since(s, p, i) THEN 1 ELSE 0
InTurn == consumers # <<>> => \E s \in DOMAIN consumers : OneMoreSince(s, Turn)

\* The messages in the queue that no worker is about to take out.
Takers == {w \in Worker : pc[w] = "front"}
Leaving == {msg[w] : w \in Takers}
Uncovered == ToSet(msgs) \ Leaving
Coming == IF loop = "publish" THEN tasks + 1 ELSE tasks
Covered ==
  /\ IsFiniteSet(Takers)
  /\ HasUniqueIds /\ ~taskless => Cardinality(Uncovered) <= Coming

DeliveryInvariant ==
  /\ TypeOK /\ Known /\ Waiting /\ OnceEach /\ Requests /\ Registered
  /\ NoneVanishes /\ InTurn /\ Covered

---------------------------------------------------------------------------
(* What remove(id) does to the messages. *)
LEMMA RemovedIs ==
  ASSUME NEW s \in Seq(Msg), NEW id
  PROVE  \/ Removed(s, id) = s /\ s = <<>>
         \/ Removed(s, id) = s /\ id # NoId /\ \A k \in DOMAIN s : IdOf[s[k]] # id
         \/ \E k \in DOMAIN s : /\ Removed(s, id) = RemoveAt(s, k)
                                /\ IF id = NoId THEN k = 1 ELSE IdOf[s[k]] = id
<1> DEFINE hits == {k \in DOMAIN s : IF id = NoId THEN k = 1 ELSE IdOf[s[k]] = id}
<1>1. Len(s) \in Nat /\ DOMAIN s = 1..Len(s)
  BY LenProperties
<1>2. CASE hits = {}
  <2>1. Removed(s, id) = s
    BY <1>2 DEF Removed
  <2>2. CASE id = NoId
    <3>1. 1 \notin DOMAIN s
      BY <1>2, <2>2
    <3>2. s = <<>>
      BY <3>1, <1>1, EmptySeq
    <3> QED
      BY <2>1, <3>2
  <2>3. CASE id # NoId
    BY <1>2, <2>1, <2>3
  <2> QED
    BY <2>2, <2>3
<1>3. CASE hits # {}
  <2> DEFINE k == CHOOSE k \in hits : \A j \in hits : k <= j
  <2>1. \E n \in hits : \A j \in hits : n <= j
    <3>1. hits \in SUBSET Nat
      BY <1>1
    <3> HIDE DEF hits
    <3> QED
      BY <1>3, <3>1, LeastNumber
  <2>2. k \in hits
    <3> HIDE DEF hits
    <3> QED
      BY <2>1
  <2>3. Removed(s, id) = RemoveAt(s, k)
    BY <1>3 DEF Removed
  <2> HIDE DEF k
  <2> QED
    BY <2>2, <2>3
<1> QED
  BY <1>2, <1>3

LEMMA RemovedProperties ==
  ASSUME NEW s \in Seq(Msg), NEW id
  PROVE  /\ Removed(s, id) \in Seq(Msg)
         /\ ToSet(Removed(s, id)) \subseteq ToSet(s)
         /\ (\A i, j \in DOMAIN s : s[i] = s[j] => i = j)
              => \A i, j \in DOMAIN Removed(s, id) :
                   Removed(s, id)[i] = Removed(s, id)[j] => i = j
<1>1. CASE Removed(s, id) = s
  BY <1>1
<1>2. ASSUME NEW k \in DOMAIN s, Removed(s, id) = RemoveAt(s, k)
      PROVE  /\ Removed(s, id) \in Seq(Msg)
             /\ ToSet(Removed(s, id)) \subseteq ToSet(s)
             /\ (\A i, j \in DOMAIN s : s[i] = s[j] => i = j)
                  => \A i, j \in DOMAIN Removed(s, id) :
                       Removed(s, id)[i] = Removed(s, id)[j] => i = j
  <2> DEFINE r == RemoveAt(s, k)
             g(i) == IF i < k THEN i ELSE i + 1
  <2>1. Len(s) \in Nat /\ DOMAIN s = 1..Len(s) /\ k \in 1..Len(s)
    BY LenProperties
  <2>2. /\ r \in Seq(Msg) /\ DOMAIN r = 1..(Len(s) - 1)
        /\ \A i \in 1..(Len(s) - 1) : r[i] = IF i < k THEN s[i] ELSE s[i + 1]
    BY RemoveAtPlaces
  <2>3. ToSet(r) \subseteq ToSet(s)
    BY ToSetRemoveAt
  <2> HIDE DEF r
  <2>4. \A i \in DOMAIN r : g(i) \in DOMAIN s /\ r[i] = s[g(i)]
    BY <2>1, <2>2
  <2>5. \A i, j \in DOMAIN r : g(i) = g(j) => i = j
    BY <2>1, <2>2
  <2> HIDE DEF g
  <2>6. (\A i, j \in DOMAIN s : s[i] = s[j] => i = j)
          => \A i, j \in DOMAIN r : r[i] = r[j] => i = j
    BY <2>4, <2>5
  <2>7. Removed(s, id) = r
    BY <1>2 DEF r
  <2> QED
    BY <2>2, <2>3, <2>6, <2>7
<1> QED
  BY <1>1, <1>2, RemovedIs

\* Among messages with ids of their own, remove() takes the one it is meant
\* for and nothing else.
LEMMA RemovedTakesOne ==
  ASSUME NEW s \in Seq(Msg), ToSet(s) \subseteq entered, HasUniqueIds,
         NEW m \in entered,
         \A i, j \in DOMAIN s : s[i] = s[j] => i = j
  PROVE  /\ ToSet(s) \subseteq ToSet(Removed(s, IdOf[m])) \cup {m}
         /\ m \notin ToSet(Removed(s, IdOf[m]))
<1> DEFINE id == IdOf[m]
           r == Removed(s, id)
<1>1. Len(s) \in Nat /\ DOMAIN s = 1..Len(s) /\ \A i \in DOMAIN s : s[i] \in entered
  BY LenProperties DEF ToSet
<1>2. id # NoId /\ \A k \in DOMAIN s : IdOf[s[k]] = id => s[k] = m
  BY <1>1 DEF HasUniqueIds
<1>3. CASE r = s /\ s = <<>>
  <2>1. Len(s) = 0
    BY <1>3, EmptySeq
  <2>2. ToSet(s) = {}
    BY <2>1, <1>1 DEF ToSet
  <2> QED
    BY <2>2, <1>3
<1>4. CASE r = s /\ \A k \in DOMAIN s : IdOf[s[k]] # id
  <2>1. m \notin ToSet(s)
    BY <1>4 DEF ToSet
  <2> QED
    BY <1>4, <2>1
<1>5. ASSUME NEW k \in DOMAIN s, r = RemoveAt(s, k), IdOf[s[k]] = id
      PROVE  ToSet(s) \subseteq ToSet(r) \cup {m} /\ m \notin ToSet(r)
  <2>1. s[k] = m
    BY <1>2, <1>5
  <2>2. ToSet(s) \subseteq ToSet(r) \cup {m}
    <3>1. ToSet(s) \subseteq ToSet(RemoveAt(s, k)) \cup {s[k]}
      BY ToSetRemoveAt
    <3> QED
      BY <3>1, <2>1, <1>5
  <2>3. /\ DOMAIN RemoveAt(s, k) = 1..(Len(s) - 1)
        /\ \A i \in 1..(Len(s) - 1) : RemoveAt(s, k)[i] = IF i < k THEN s[i] ELSE s[i + 1]
    BY RemoveAtPlaces
  <2>4. ASSUME NEW i \in 1..(Len(s) - 1), RemoveAt(s, k)[i] = m
        PROVE  FALSE
    BY <2>1, <2>3, <2>4, <1>1
  <2>5. m \notin ToSet(RemoveAt(s, k))
    BY <2>3, <2>4 DEF ToSet
  <2> QED
    BY <2>2, <2>5, <1>5
<1>6. \/ r = s /\ s = <<>>
      \/ r = s /\ id # NoId /\ \A k \in DOMAIN s : IdOf[s[k]] # id
      \/ \E k \in DOMAIN s : r = RemoveAt(s, k) /\ IF id = NoId THEN k = 1 ELSE IdOf[s[k]] = id
  BY RemovedIs
<1> HIDE DEF r, id
<1> QED
  BY <1>2, <1>3, <1>4, <1>5, <1>6 DEF r, id

---------------------------------------------------------------------------
(* The round robin: arithmetic modulo the number of consumers. *)
LEMMA Division ==
  ASSUME NEW r \in Nat, NEW n \in Nat, n > 0
  PROVE  \E q \in Nat, x \in 0..(n - 1) : r = q * n + x
<1> DEFINE T == {k \in Nat : r < k * n}
<1>1. T \in SUBSET Nat /\ r + 1 \in T
  <2>1. (r + 1) * n >= r + 1
    OBVIOUS
  <2> QED
    BY <2>1
<1>2. PICK p \in T : \A k \in T : p <= k
  <2> HIDE DEF T
  <2> QED
    BY <1>1, LeastNumber
<1>3. p \in Nat /\ r < p * n /\ p # 0
  BY <1>2
<1> DEFINE q == p - 1
<1>4. q \in Nat /\ q \notin T /\ p = q + 1
  BY <1>2, <1>3
<1>5. q * n <= r /\ q * n \in Nat
  BY <1>4
<1>6. p * n = q * n + n
  BY <1>4
<1> HIDE DEF q, T
<1> DEFINE x == r - q * n
<1>7. x \in 0..(n - 1) /\ r = q * n + x
  BY <1>3, <1>5, <1>6
<1> QED
  BY <1>4, <1>7

LEMMA NextIndex ==
  ASSUME NEW r \in Nat, NEW n \in Nat, n > 0
  PROVE  /\ r % n \in 0..(n - 1)
         /\ (r + 1) % n \in Nat
         /\ ((r + 1) % n) % n = IF r % n = n - 1 THEN 0 ELSE (r % n) + 1
<1>1. r % n \in 0..(n - 1) /\ (r + 1) % n \in 0..(n - 1)
  OBVIOUS
<1>2. PICK q \in Nat, x \in 0..(n - 1) : r = q * n + x
  BY Division
<1>3. \A p \in Nat, y \in 0..(n - 1) : (p * n + y) % n = y
  OBVIOUS
<1>4. r % n = x
  BY <1>2, <1>3
<1>5. (r + 1) % n = IF x = n - 1 THEN 0 ELSE x + 1
  <2>1. CASE x = n - 1
    <3>1. r + 1 = (q + 1) * n + 0
      BY <1>2, <2>1
    <3>2. q + 1 \in Nat /\ 0 \in 0..(n - 1)
      OBVIOUS
    <3> QED
      BY <1>3, <2>1, <3>1, <3>2
  <2>2. CASE x # n - 1
    <3>1. r + 1 = q * n + (x + 1) /\ x + 1 \in 0..(n - 1)
      BY <1>2, <2>2
    <3> QED
      BY <1>3, <2>2, <3>1
  <2> QED
    BY <2>1, <2>2
<1>6. ((r + 1) % n) % n = (r + 1) % n
  OBVIOUS
<1> QED
  BY <1>1, <1>4, <1>5, <1>6

---------------------------------------------------------------------------
\* The parts of the type invariant, and the variables each is about.
QueueTypes ==
  /\ channels \in [Channel -> {"new", "open", "closed"}]
  /\ held \in [Channel -> Tag \cup {NoTag}]
  /\ loop \in {"idle", "declare", "delete", "publish"} /\ store \in BOOLEAN /\ group \in BOOLEAN
  /\ msgs \in Seq(Msg) /\ tasks \in 0..MaxTasks

GroupTypes ==
  consumers \in Seq(Consumer) /\ rr \in Nat /\ turns \in [DOMAIN consumers -> Nat]

WorkerTypes ==
  /\ pc \in [Worker -> {"idle", "front", "taken", "chosen", "ack"}]
  /\ msg \in [Worker -> Msg \cup {NoMsg}]
  /\ consumer \in [Worker -> Consumer \cup {NoConsumer}]
  /\ \A w \in Worker : (pc[w] = "idle") <=> (msg[w] = NoMsg)
  /\ \A w \in Worker : IF pc[w] \in {"chosen", "ack"} THEN consumer[w] \in Consumer
                       ELSE consumer[w] = NoConsumer

PastTypes ==
  entered \subseteq Msg /\ done \subseteq entered /\ taskless \in BOOLEAN

LEMMA TypeParts ==
  TypeOK <=> /\ QueueTypes /\ GroupTypes /\ WorkerTypes /\ PastTypes
             /\ unserved \subseteq entered
  BY DEF TypeOK, QueueTypes, GroupTypes, WorkerTypes, PastTypes

LEMMA DeliveryInit == Init => DeliveryInvariant
<1> SUFFICES ASSUME Init PROVE DeliveryInvariant
  OBVIOUS
<1>1. /\ msgs \in Seq(Msg) /\ consumers \in Seq(Consumer)
      /\ DOMAIN msgs = {} /\ DOMAIN consumers = {} /\ ToSet(msgs) = {}
  <2>1. <<>> \in Seq(Msg) /\ <<>> \in Seq(Consumer) /\ DOMAIN << >> = {}
    BY EmptySeq, LenProperties
  <2> QED
    BY <2>1 DEF Init, ToSet
<1>2. TypeOK
  <2>1. turns \in [DOMAIN consumers -> Nat]
    <3>1. <<>> \in Seq(Nat) /\ Len(<<>>) = 0
      BY EmptySeq
    <3>2. <<>> \in [1..0 -> Nat] /\ 1..0 = {}
      BY <3>1, LenProperties
    <3> QED
      BY <1>1, <3>2 DEF Init
  <2>2. QueueTypes
    <3>1. tasks \in 0..MaxTasks
      BY DeliveryAssumption DEF Init
    <3>2. channels \in [Channel -> {"new", "open", "closed"}] /\ held \in [Channel -> Tag \cup {NoTag}]
      BY DEF Init
    <3> QED
      BY <1>1, <3>1, <3>2 DEF Init, QueueTypes
  <2>3. GroupTypes
    BY <1>1, <2>1 DEF Init, GroupTypes
  <2>4. WorkerTypes
    BY DEF Init, WorkerTypes
  <2>5. PastTypes
    BY DEF Init, PastTypes
  <2>6. unserved \subseteq entered
    BY DEF Init
  <2> QED
    BY <2>2, <2>3, <2>4, <2>5, <2>6, TypeParts
<1>3. Waiting /\ Known /\ OnceEach /\ Requests /\ Registered /\ NoneVanishes /\ InTurn
  BY <1>1 DEF Init, Waiting, Undecided, Known, OnceEach, Requests, Registered, NoneVanishes, InTurn
<1>4. Covered
  <2>1. Takers = {} /\ Uncovered = {} /\ Coming = 0
    BY <1>1 DEF Init, Takers, Uncovered, Coming
  <2> QED
    BY <2>1, FS_EmptySet DEF Covered
<1> QED
  BY <1>2, <1>3, <1>4 DEF DeliveryInvariant

(* What a request can do to the consumers: nothing, or change them so that
   the turns start over. *)
LEMMA RemoveConsumerProperties ==
  ASSUME TypeOK, Registered, NEW tag, RemoveConsumer(tag)
  PROVE  /\ consumers' \in Seq(Consumer) /\ turns' \in [DOMAIN consumers' -> Nat]
         /\ group' = group /\ rr' = rr
         /\ UNCHANGED <<consumers, turns>> \/ turns' = [i \in DOMAIN consumers' |-> 0]
         /\ \A i, j \in DOMAIN consumers' : consumers'[i].tag = consumers'[j].tag => i = j
         /\ ~group' => consumers' = <<>>
<1>1. CASE UNCHANGED chosen
  BY <1>1 DEF TypeOK, Registered, chosen
<1>2. ASSUME NEW k \in DOMAIN consumers, group, SetConsumers(RemoveAt(consumers, k)),
             UNCHANGED <<group, rr>>
      PROVE  /\ consumers' \in Seq(Consumer) /\ turns' \in [DOMAIN consumers' -> Nat]
             /\ turns' = [i \in DOMAIN consumers' |-> 0]
             /\ \A i, j \in DOMAIN consumers' : consumers'[i].tag = consumers'[j].tag => i = j
  <2> DEFINE r == RemoveAt(consumers, k)
             g(i) == IF i < k THEN i ELSE i + 1
  <2>1. consumers \in Seq(Consumer) /\ Len(consumers) \in Nat /\ DOMAIN consumers = 1..Len(consumers)
    BY LenProperties DEF TypeOK
  <2>2. /\ r \in Seq(Consumer) /\ DOMAIN r = 1..(Len(consumers) - 1)
        /\ \A i \in 1..(Len(consumers) - 1) :
             r[i] = IF i < k THEN consumers[i] ELSE consumers[i + 1]
    BY <2>1, RemoveAtPlaces
  <2>3. consumers' = r /\ turns' = [i \in DOMAIN r |-> 0]
    BY <1>2 DEF SetConsumers
  <2> HIDE DEF r
  <2>4. \A i \in DOMAIN r : g(i) \in DOMAIN consumers /\ r[i] = consumers[g(i)]
    BY <2>1, <2>2
  <2>5. \A i, j \in DOMAIN r : g(i) = g(j) => i = j
    BY <2>1, <2>2
  <2> HIDE DEF g
  <2>6. \A i, j \in DOMAIN r : r[i].tag = r[j].tag => i = j
    BY <2>4, <2>5 DEF Registered
  <2> QED
    BY <2>2, <2>3, <2>6
<1> QED
  BY <1>1, <1>2 DEF RemoveConsumer

LEMMA SubscribeProperties ==
  ASSUME TypeOK, Registered, NEW c \in Channel, NEW tag \in Tag, NEW auto \in BOOLEAN,
         Subscribe(c, tag, auto)
  PROVE  /\ consumers' \in Seq(Consumer) /\ turns' \in [DOMAIN consumers' -> Nat]
         /\ group' = group /\ rr' = rr
         /\ UNCHANGED <<consumers, turns>> \/ turns' = [i \in DOMAIN consumers' |-> 0]
         /\ \A i, j \in DOMAIN consumers' : consumers'[i].tag = consumers'[j].tag => i = j
         /\ ~group' => consumers' = <<>>
<1>1. CASE UNCHANGED chosen
  BY <1>1 DEF TypeOK, Registered, chosen
<1>2. CASE ~UNCHANGED chosen
  <2> DEFINE e == [tag |-> tag, channel |-> c, auto |-> auto]
             r == Append(consumers, e)
  <2>1. e \in Consumer /\ e.tag = tag
    BY DEF Consumer
  <2>2. consumers \in Seq(Consumer) /\ Len(consumers) \in Nat /\ DOMAIN consumers = 1..Len(consumers)
    BY LenProperties DEF TypeOK
  <2>3. group /\ tag \notin Tags /\ consumers' = r /\ turns' = [i \in DOMAIN r |-> 0]
        /\ UNCHANGED <<group, rr>>
    BY <1>2 DEF Subscribe, SetConsumers
  <2> HIDE DEF e
  <2>4. /\ r \in Seq(Consumer) /\ DOMAIN r = 1..(Len(consumers) + 1)
        /\ \A i \in 1..Len(consumers) : r[i] = consumers[i]
        /\ r[Len(consumers) + 1] = e
    BY <2>1, <2>2, AppendProperties, LenProperties
  <2> HIDE DEF r
  <2>5. \A i \in DOMAIN consumers : consumers[i].tag # tag
    BY <2>3 DEF Tags
  <2>6. ASSUME NEW i \in DOMAIN r, NEW j \in DOMAIN r, r[i].tag = r[j].tag
        PROVE  i = j
    <3>1. \A k \in DOMAIN r : k \in DOMAIN consumers \/ k = Len(consumers) + 1
      BY <2>2, <2>4
    <3> QED
      BY <3>1, <2>1, <2>2, <2>4, <2>5, <2>6 DEF Registered
  <2> QED
    BY <2>3, <2>4, <2>6
<1> QED
  BY <1>1, <1>2

---------------------------------------------------------------------------
LEMMA RequestedParts ==
  ASSUME NEW r \in Subscriptions
  PROVE  r[1] \in Tag /\ r[2] \in BOOLEAN
  BY DeliveryAssumption

LEMMA QueueTypesStep == TypeOK /\ Registered /\ Requests /\ [Next]_vars => QueueTypes'
<1> SUFFICES ASSUME TypeOK, Registered, Requests, [Next]_vars PROVE QueueTypes'
  OBVIOUS
<1>0. QueueTypes
  BY TypeParts
<1>1. ASSUME NEW c \in Channel, OpenChannel(c) PROVE QueueTypes'
  BY <1>0, <1>1 DEF OpenChannel, QueueTypes, queue, chosen
<1>2. ASSUME NEW c \in Channel, CloseChannel(c) PROVE QueueTypes'
  <2>1. group' = group
    BY <1>2, RemoveConsumerProperties DEF CloseChannel, chosen
  <2> QED
    BY <1>0, <1>2, <2>1 DEF CloseChannel, QueueTypes, queue
<1>3. ASSUME NEW c \in Channel, NEW r \in Subscriptions, Subscribe(c, r[1], r[2]) PROVE QueueTypes'
  <2>1. group' = group /\ held' \in [Channel -> Tag \cup {NoTag}]
    BY <1>0, <1>3, RequestedParts, SubscribeProperties DEF Subscribe, QueueTypes
  <2> QED
    BY <1>0, <1>3, <2>1 DEF Subscribe, QueueTypes, queue
<1>4. ASSUME NEW c \in Channel, NEW tag \in Tag, Cancel(c, tag) PROVE QueueTypes'
  <2>1. group' = group
    BY <1>4, RemoveConsumerProperties DEF Cancel
  <2> QED
    BY <1>0, <1>4, <2>1 DEF Cancel, QueueTypes, queue, clients
<1>5. ASSUME NEW c \in Channel, Declare(c) \/ DestroyQueueConsumer(c) \/ PublishPast(c)
      PROVE  QueueTypes'
  <2>1. CASE Declare(c)
    BY <1>0, <2>1 DEF Declare, QueueTypes, clients, chosen
  <2>2. CASE DestroyQueueConsumer(c)
    BY <1>0, <2>2 DEF DestroyQueueConsumer, QueueTypes, clients
  <2>3. CASE PublishPast(c)
    BY <1>0, <2>3, DeliveryAssumption DEF PublishPast, QueueTypes, queue, clients, chosen
  <2> QED
    BY <1>5, <2>1, <2>2, <2>3
<1>6. ASSUME NEW c \in Channel, NEW m \in Msg, Publish(c, m) \/ Arrive(c, m)
      PROVE  QueueTypes'
  <2>1. Append(msgs, m) \in Seq(Msg)
    BY <1>0, AppendProperties DEF QueueTypes
  <2> QED
    BY <1>0, <1>6, <2>1 DEF Publish, Arrive, QueueTypes, queue, clients, chosen
<1>7. ASSUME NEW c \in Channel, NEW m \in Msg, Ack(c, m) PROVE QueueTypes'
  <2>1. msgs' \in Seq(Msg)
    BY <1>0, <1>7, RemovedProperties DEF Ack, QueueTypes
  <2> QED
    BY <1>0, <1>7, <2>1 DEF Ack, QueueTypes, queue, clients, chosen
<1>8. CASE InitQueueConsumer
  BY <1>0, <1>8 DEF InitQueueConsumer, QueueTypes, clients
<1>9. CASE DeleteQueue
  BY <1>0, <1>9, EmptySeq DEF DeleteQueue, QueueTypes, clients, chosen
<1>10. ASSUME NEW w \in Worker, RemoveTaken(w) \/ AutoAck(w) PROVE QueueTypes'
  <2>1. msgs' \in Seq(Msg)
    BY <1>0, <1>10, RemovedProperties DEF RemoveTaken, AutoAck, QueueTypes
  <2> QED
    BY <1>0, <1>10, <2>1 DEF RemoveTaken, AutoAck, QueueTypes, queue, clients, chosen
<1>11. ASSUME NEW w \in Worker, TakeFront(w) PROVE QueueTypes'
  BY <1>0, <1>11, DeliveryAssumption DEF TakeFront, QueueTypes, queue, clients, chosen
<1>12. ASSUME NEW w \in Worker, ChooseNone(w) \/ Choose(w) \/ Deliver(w) PROVE QueueTypes'
  BY <1>0, <1>12 DEF ChooseNone, Choose, Deliver, QueueTypes, queue, clients, chosen
<1>13. CASE PushTask
  BY <1>0, <1>13, DeliveryAssumption DEF PushTask, Requests, QueueTypes, clients, chosen
<1>14. CASE UNCHANGED vars
  BY <1>0, <1>14 DEF vars, QueueTypes, queue, clients, chosen
<1> QED
  BY <1>1, <1>2, <1>3, <1>4, <1>5, <1>6, <1>7, <1>8, <1>9, <1>10, <1>11, <1>12, <1>13, <1>14
  DEF Next

(* The consumers stay, or the turns start over, or a worker chooses. *)
TurnsStartOver ==
  consumers' \in Seq(Consumer) /\ rr' \in Nat /\ turns' = [i \in DOMAIN consumers' |-> 0]

TurnsGoOn == UNCHANGED <<consumers, rr, turns>> \/ TurnsStartOver \/ \E w \in Worker : Choose(w)

LEMMA ConsumersChange == TypeOK /\ Registered /\ [Next]_vars => TurnsGoOn
<1> SUFFICES ASSUME TypeOK, Registered, [Next]_vars PROVE TurnsGoOn
  OBVIOUS
<1> USE DEF TurnsGoOn, TurnsStartOver
<1>0. rr \in Nat /\ <<>> \in Seq(Consumer)
  BY EmptySeq DEF TypeOK
<1>1. ASSUME NEW c \in Channel, CloseChannel(c) PROVE TurnsGoOn
  BY <1>0, <1>1, RemoveConsumerProperties DEF CloseChannel, chosen
<1>2. ASSUME NEW c \in Channel, NEW r \in Subscriptions, Subscribe(c, r[1], r[2]) PROVE TurnsGoOn
  BY <1>0, <1>2, RequestedParts, SubscribeProperties
<1>3. ASSUME NEW c \in Channel, NEW tag \in Tag, Cancel(c, tag) PROVE TurnsGoOn
  BY <1>0, <1>3, RemoveConsumerProperties DEF Cancel
<1>4. ASSUME NEW c \in Channel, DestroyQueueConsumer(c) PROVE TurnsGoOn
  BY <1>0, <1>4 DEF DestroyQueueConsumer, SetConsumers
<1>5. CASE InitQueueConsumer
  <2>1. CASE group
    BY <1>5, <2>1 DEF InitQueueConsumer
  <2>2. CASE ~group
    BY <1>0, <1>5, <2>2 DEF InitQueueConsumer, SetConsumers
  <2> QED
    BY <2>1, <2>2
<1>6. ASSUME NEW c \in Channel,
             \/ OpenChannel(c) \/ Declare(c) \/ PublishPast(c)
             \/ \E m \in Msg : Publish(c, m) \/ Arrive(c, m) \/ Ack(c, m)
      PROVE  TurnsGoOn
  BY <1>6 DEF OpenChannel, Declare, PublishPast, Publish, Arrive, Ack, chosen
<1>7. CASE DeleteQueue \/ PushTask
  BY <1>7 DEF DeleteQueue, PushTask, chosen
<1>8. ASSUME NEW w \in Worker,
             TakeFront(w) \/ RemoveTaken(w) \/ ChooseNone(w) \/ Deliver(w) \/ AutoAck(w)
      PROVE  TurnsGoOn
  BY <1>8 DEF TakeFront, RemoveTaken, ChooseNone, Deliver, AutoAck, chosen
<1>9. CASE UNCHANGED vars
  BY <1>9 DEF vars, chosen
<1>10. ASSUME NEW w \in Worker, Choose(w) PROVE TurnsGoOn
  BY <1>10
<1> HIDE DEF TurnsGoOn
<1> QED
  BY <1>1, <1>2, <1>3, <1>4, <1>5, <1>6, <1>7, <1>8, <1>9, <1>10 DEF Next

(* What Choose does to the turns, in terms of who is next. *)
LEMMA ChooseProperties ==
  ASSUME GroupTypes, NEW w \in Worker, Choose(w)
  PROVE  /\ consumers # <<>> /\ consumers' = consumers
         /\ Len(consumers) \in Nat /\ Len(consumers) > 0 /\ DOMAIN consumers = 1..Len(consumers)
         /\ Turn \in 1..Len(consumers)
         /\ Turn' = IF Turn = Len(consumers) THEN 1 ELSE Turn + 1
         /\ rr' \in Nat
         /\ turns' \in [DOMAIN consumers -> Nat]
         /\ turns[Turn] \in Nat
         /\ \A i \in DOMAIN consumers : turns'[i] = IF i = Turn THEN turns[Turn] + 1 ELSE turns[i]
<1> DEFINE n == Len(consumers)
<1>1. /\ consumers # <<>> /\ rr' = (rr + 1) % Len(consumers)
      /\ turns' = [turns EXCEPT ![Turn] = turns[Turn] + 1] /\ consumers' = consumers
  BY DEF Choose, Turn
<1>2. n \in Nat /\ DOMAIN consumers = 1..n
  BY LenProperties DEF GroupTypes
<1>3. n > 0
  BY <1>1, <1>2, EmptySeq DEF GroupTypes
<1>4. rr % n \in 0..(n - 1) /\ rr' \in Nat /\ rr' % n = IF rr % n = n - 1 THEN 0 ELSE (rr % n) + 1
  BY <1>1, <1>2, <1>3, NextIndex DEF GroupTypes
<1>5. Turn = (rr % n) + 1 /\ Turn' = (rr' % n) + 1
  BY <1>1 DEF Turn
<1>6. Turn \in 1..n /\ Turn' = IF Turn = n THEN 1 ELSE Turn + 1
  <2> HIDE DEF n
  <2> QED
    BY <1>2, <1>3, <1>4, <1>5
<1>7. PICK t : t = Turn
  OBVIOUS
<1>8. turns \in [1..n -> Nat] /\ t \in 1..n /\ turns' = [turns EXCEPT ![t] = turns[t] + 1]
  BY <1>1, <1>2, <1>6, <1>7 DEF GroupTypes
<1>9. turns[t] \in Nat /\ turns' \in [1..n -> Nat]
      /\ \A i \in 1..n : turns'[i] = IF i = t THEN turns[t] + 1 ELSE turns[i]
  BY <1>8
<1> QED
  BY <1>1, <1>2, <1>3, <1>4, <1>6, <1>7, <1>9

LEMMA GroupTypesStep == TypeOK /\ Registered /\ [Next]_vars => GroupTypes'
<1> SUFFICES ASSUME TypeOK, Registered, [Next]_vars PROVE GroupTypes'
  OBVIOUS
<1>0. GroupTypes
  BY TypeParts
<1>1. CASE UNCHANGED <<consumers, rr, turns>>
  BY <1>0, <1>1 DEF GroupTypes
<1>2. CASE TurnsStartOver
  BY <1>2 DEF TurnsStartOver, GroupTypes
<1>3. ASSUME NEW w \in Worker, Choose(w) PROVE GroupTypes'
  BY <1>0, <1>3, ChooseProperties DEF GroupTypes
<1> QED
  BY <1>1, <1>2, <1>3, ConsumersChange DEF TurnsGoOn

(* Whoever is next has had as many turns as any other, or one less. *)
LEMMA TurnStep == TypeOK /\ Registered /\ InTurn /\ [Next]_vars => InTurn'
<1> SUFFICES ASSUME TypeOK, Registered, InTurn, [Next]_vars PROVE InTurn'
  OBVIOUS
<1>0. GroupTypes
  BY TypeParts
<1>1. CASE UNCHANGED <<consumers, rr, turns>>
  BY <1>1 DEF InTurn, Turn, OneMoreSince
<1>2. CASE TurnsStartOver
  <2> SUFFICES ASSUME consumers' # <<>>
               PROVE  \E s \in DOMAIN consumers' : OneMoreSince(s, Turn)'
    BY DEF InTurn
  <2>1. /\ Len(consumers') \in Nat /\ Len(consumers') > 0 /\ rr' \in Nat
        /\ DOMAIN consumers' = 1..Len(consumers')
    BY <1>2, EmptySeq, LenProperties DEF TurnsStartOver
  <2>2. Turn' \in DOMAIN consumers'
    BY <2>1, NextIndex DEF Turn
  <2>3. \A i \in DOMAIN consumers' : turns'[i] = 0 /\ ~Since(Turn', Turn', i)
    BY <1>2, <2>1, <2>2 DEF TurnsStartOver, Since
  <2>4. \A i \in DOMAIN consumers' :
          turns'[i] = turns'[Turn'] + IF Since(Turn', Turn', i) THEN 1 ELSE 0
    BY <2>2, <2>3
  <2>5. OneMoreSince(Turn, Turn)'
    BY <2>4 DEF OneMoreSince
  <2> QED
    BY <2>2, <2>5
<1>3. ASSUME NEW w \in Worker, Choose(w) PROVE InTurn'
  <2>1. PICK n, t, u : /\ n = Len(consumers) /\ t = Turn
                       /\ u = IF t = n THEN 1 ELSE t + 1
    OBVIOUS
  <2>2. /\ consumers # <<>> /\ consumers' = consumers
        /\ n \in Nat /\ n > 0 /\ DOMAIN consumers = 1..n
    BY <1>0, <1>3, <2>1, ChooseProperties
  <2>3. t \in 1..n /\ Turn' = u
    BY <1>0, <1>3, <2>1, ChooseProperties
  <2>0. PICK s \in 1..n : OneMoreSince(s, t)
    BY <2>1, <2>2 DEF InTurn
  <2>4. \A i \in 1..n : turns[i] = turns[t] + IF Since(s, t, i) THEN 1 ELSE 0
    BY <2>0, <2>2 DEF OneMoreSince
  <2>5. turns[t] \in Nat /\ \A i \in 1..n : turns'[i] = IF i = t THEN turns[t] + 1 ELSE turns[i]
    BY <1>0, <1>3, <2>1, <2>2, ChooseProperties
  <2>6. u \in 1..n
    BY <2>1, <2>2, <2>3
  <2>7. CASE u = s
    <3>1. \A i \in 1..n : i = t \/ Since(s, t, i)
      BY <2>1, <2>2, <2>3, <2>7 DEF Since
    <3>2. \A i \in 1..n : turns'[i] = turns[t] + 1 /\ ~Since(u, u, i)
      BY <2>4, <2>5, <2>6, <3>1 DEF Since
    <3>3. OneMoreSince(u, Turn)'
      BY <2>2, <2>3, <2>5, <2>6, <3>2 DEF OneMoreSince
    <3> QED
      BY <2>2, <2>6, <3>3 DEF InTurn
  <2>8. CASE u # s
    <3>1. \A i \in 1..n : Since(s, u, i) <=> i = t \/ Since(s, t, i)
      BY <2>1, <2>2, <2>3, <2>8 DEF Since
    <3>2. ~Since(s, t, t) /\ ~Since(s, u, u)
      BY <2>1, <2>2, <2>3, <2>6 DEF Since
    <3>3. turns'[u] = turns[t]
      BY <2>1, <2>2, <2>3, <2>4, <2>5, <2>6, <3>1, <3>2
    <3>4. \A i \in 1..n : turns'[i] = turns'[u] + IF Since(s, u, i) THEN 1 ELSE 0
      BY <2>3, <2>4, <2>5, <3>1, <3>2, <3>3
    <3>5. OneMoreSince(s, Turn)'
      BY <2>2, <2>3, <3>4 DEF OneMoreSince
    <3> QED
      BY <2>2, <3>5 DEF InTurn
  <2> QED
    BY <2>7, <2>8
<1> QED
  BY <1>1, <1>2, <1>3, ConsumersChange DEF TurnsGoOn

(* Requests and the round robin leave the workers alone. *)
WorkerMoves ==
  \/ UNCHANGED workers
  \/ \E w \in Worker : TakeFront(w) \/ RemoveTaken(w) \/ ChooseNone(w)
                       \/ Choose(w) \/ Deliver(w) \/ AutoAck(w)

LEMMA WorkersChange == [Next]_vars => WorkerMoves
<1> SUFFICES ASSUME [Next]_vars PROVE WorkerMoves
  OBVIOUS
<1> USE DEF WorkerMoves
<1>1. ASSUME NEW c \in Channel,
             \/ OpenChannel(c) \/ CloseChannel(c)
             \/ \E r \in Subscriptions : Subscribe(c, r[1], r[2])
             \/ \E tag \in Tag : Cancel(c, tag)
      PROVE  WorkerMoves
  BY <1>1 DEF OpenChannel, CloseChannel, Subscribe, Cancel
<1>2. ASSUME NEW c \in Channel,
             \/ Declare(c) \/ DestroyQueueConsumer(c) \/ PublishPast(c)
             \/ \E m \in Msg : Publish(c, m) \/ Arrive(c, m) \/ Ack(c, m)
      PROVE  WorkerMoves
  BY <1>2 DEF Declare, DestroyQueueConsumer, PublishPast, Publish, Arrive, Ack
<1>3. CASE InitQueueConsumer \/ DeleteQueue \/ PushTask \/ UNCHANGED vars
  BY <1>3 DEF InitQueueConsumer, DeleteQueue, PushTask, vars
<1>4. ASSUME NEW w \in Worker,
             \/ TakeFront(w) \/ RemoveTaken(w) \/ ChooseNone(w)
             \/ Choose(w) \/ Deliver(w) \/ AutoAck(w)
      PROVE  WorkerMoves
  BY <1>4
<1> HIDE DEF WorkerMoves
<1> QED
  BY <1>1, <1>2, <1>3, <1>4 DEF Next

LEMMA HeadOf ==
  ASSUME NEW s \in Seq(Msg), s # <<>>
  PROVE  1 \in DOMAIN s /\ Head(s) = s[1] /\ Head(s) \in ToSet(s) /\ Head(s) \in Msg
<1>1. Len(s) \in Nat /\ Len(s) # 0 /\ DOMAIN s = 1..Len(s) /\ Head(s) = s[1]
  BY EmptySeq, LenProperties, HeadTailProperties
<1> QED
  BY <1>1, ElementsOfSeq

LEMMA WorkerTypesStep == TypeOK /\ Registered /\ [Next]_vars => WorkerTypes'
<1> SUFFICES ASSUME TypeOK, Registered, [Next]_vars PROVE WorkerTypes'
  OBVIOUS
<1>0. WorkerTypes /\ GroupTypes /\ QueueTypes
  BY TypeParts
<1>1. CASE UNCHANGED workers
  BY <1>0, <1>1 DEF workers, WorkerTypes
<1>2. ASSUME NEW w \in Worker, TakeFront(w) PROVE WorkerTypes'
  <2>1. CASE UNCHANGED <<pc, msg>>
    BY <1>0, <1>2, <2>1 DEF TakeFront, WorkerTypes
  <2>2. CASE /\ msgs # <<>> /\ pc' = [pc EXCEPT ![w] = "front"]
             /\ msg' = [msg EXCEPT ![w] = Head(msgs)]
    <3>1. Head(msgs) \in Msg /\ Head(msgs) # NoMsg
      BY <1>0, <2>2, HeadOf, DeliveryAssumption DEF QueueTypes
    <3>2. consumer' = consumer /\ pc[w] = "idle"
      BY <1>2 DEF TakeFront
    <3> QED
      BY <1>0, <2>2, <3>1, <3>2 DEF WorkerTypes
  <2> QED
    BY <1>2, <2>1, <2>2 DEF TakeFront
<1>3. ASSUME NEW w \in Worker, RemoveTaken(w) PROVE WorkerTypes'
  BY <1>0, <1>3 DEF RemoveTaken, WorkerTypes
<1>4. ASSUME NEW w \in Worker, ChooseNone(w) PROVE WorkerTypes'
  BY <1>0, <1>4 DEF ChooseNone, WorkerTypes
<1>5. ASSUME NEW w \in Worker, Choose(w) PROVE WorkerTypes'
  <2>1. consumers[Turn] \in Consumer
    BY <1>0, <1>5, ChooseProperties, ElementsOfSeq DEF GroupTypes
  <2>2. /\ pc[w] = "taken" /\ pc' = [pc EXCEPT ![w] = "chosen"] /\ msg' = msg
        /\ consumer' = [consumer EXCEPT ![w] = consumers[Turn]]
    BY <1>5 DEF Choose, Turn
  <2> QED
    BY <1>0, <2>1, <2>2 DEF WorkerTypes
<1>6. ASSUME NEW w \in Worker, Deliver(w) PROVE WorkerTypes'
  <2>1. CASE consumer[w].auto
    BY <1>0, <1>6, <2>1 DEF Deliver, WorkerTypes
  <2>2. CASE ~consumer[w].auto
    BY <1>0, <1>6, <2>2 DEF Deliver, WorkerTypes
  <2> QED
    BY <2>1, <2>2
<1>7. ASSUME NEW w \in Worker, AutoAck(w) PROVE WorkerTypes'
  BY <1>0, <1>7 DEF AutoAck, WorkerTypes
<1> QED
  BY <1>1, <1>2, <1>3, <1>4, <1>5, <1>6, <1>7, WorkersChange DEF WorkerMoves

---------------------------------------------------------------------------
(* The steps that move no message, and those that do. *)
Quiet ==
  /\ UNCHANGED <<msgs, tasks, workers, past>>
  /\ loop' = loop \/ (loop # "publish" /\ loop' # "publish")

MessageMoves ==
  \/ Quiet \/ DeleteQueue \/ PushTask
  \/ \E c \in Channel :
       PublishPast(c) \/ \E m \in Msg : Publish(c, m) \/ Arrive(c, m) \/ Ack(c, m)
  \/ \E w \in Worker : TakeFront(w) \/ RemoveTaken(w) \/ ChooseNone(w)
                       \/ Choose(w) \/ Deliver(w) \/ AutoAck(w)

LEMMA MessagesChange == [Next]_vars => MessageMoves
<1> SUFFICES ASSUME [Next]_vars PROVE MessageMoves
  OBVIOUS
<1> USE DEF MessageMoves
<1>1. ASSUME NEW c \in Channel,
             \/ OpenChannel(c) \/ CloseChannel(c)
             \/ \E r \in Subscriptions : Subscribe(c, r[1], r[2])
             \/ \E tag \in Tag : Cancel(c, tag)
      PROVE  MessageMoves
  BY <1>1 DEF OpenChannel, CloseChannel, Subscribe, Cancel, Quiet, queue
<1>2. ASSUME NEW c \in Channel, Declare(c) \/ DestroyQueueConsumer(c) PROVE MessageMoves
  BY <1>2 DEF Declare, DestroyQueueConsumer, Quiet, Served
<1>3. CASE InitQueueConsumer \/ UNCHANGED vars
  BY <1>3 DEF InitQueueConsumer, vars, Quiet, queue
<1>4. CASE DeleteQueue \/ PushTask
  BY <1>4
<1>5. ASSUME NEW c \in Channel,
             PublishPast(c) \/ \E m \in Msg : Publish(c, m) \/ Arrive(c, m) \/ Ack(c, m)
      PROVE  MessageMoves
  BY <1>5
<1>6. ASSUME NEW w \in Worker,
             \/ TakeFront(w) \/ RemoveTaken(w) \/ ChooseNone(w)
             \/ Choose(w) \/ Deliver(w) \/ AutoAck(w)
      PROVE  MessageMoves
  BY <1>6
<1> HIDE DEF MessageMoves
<1> QED
  BY <1>1, <1>2, <1>3, <1>4, <1>5, <1>6 DEF Next

\* Ids that are unique now were so before.
LEMMA IdsBefore == TypeOK /\ [Next]_vars => (entered \subseteq entered' /\ (HasUniqueIds' => HasUniqueIds))
<1> SUFFICES ASSUME TypeOK, [Next]_vars PROVE entered \subseteq entered'
  BY DEF HasUniqueIds
<1>1. CASE Quiet \/ DeleteQueue \/ PushTask \/ \E c \in Channel : PublishPast(c)
  BY <1>1 DEF Quiet, DeleteQueue, PushTask, PublishPast, past
<1>2. ASSUME NEW c \in Channel, NEW m \in Msg, Publish(c, m) \/ Arrive(c, m) \/ Ack(c, m)
      PROVE  entered \subseteq entered'
  BY <1>2 DEF Publish, Arrive, Ack
<1>3. ASSUME NEW w \in Worker,
             \/ TakeFront(w) \/ RemoveTaken(w) \/ ChooseNone(w)
             \/ Choose(w) \/ Deliver(w) \/ AutoAck(w)
      PROVE  entered \subseteq entered'
  BY <1>3 DEF TakeFront, RemoveTaken, ChooseNone, Choose, Deliver, AutoAck, past
<1> QED
  BY <1>1, <1>2, <1>3, MessagesChange DEF MessageMoves

LEMMA HistoryStep == TypeOK /\ Known /\ [Next]_vars => PastTypes' /\ Known'
<1> SUFFICES ASSUME TypeOK, Known, [Next]_vars PROVE PastTypes' /\ Known'
  OBVIOUS
<1>0. WorkerTypes /\ PastTypes /\ msgs \in Seq(Msg)
  BY TypeParts DEF QueueTypes
<1>1. CASE Quiet
  BY <1>0, <1>1 DEF Quiet, workers, past, PastTypes, Known
<1>2. CASE DeleteQueue
  <2>1. ToSet(<<>>) = {}
    BY EmptySeq, ElementsOfSeq DEF ToSet
  <2> QED
    BY <1>0, <1>2, <2>1 DEF DeleteQueue, workers, PastTypes, Known
<1>3. ASSUME PushTask \/ \E c \in Channel : PublishPast(c) PROVE PastTypes' /\ Known'
  BY <1>0, <1>3 DEF PushTask, PublishPast, workers, past, PastTypes, Known
<1>4. ASSUME NEW c \in Channel, NEW m \in Msg, Publish(c, m) \/ Arrive(c, m)
      PROVE  PastTypes' /\ Known'
  <2>0. ToSet(Append(msgs, m)) = ToSet(msgs) \cup {m}
    BY <1>0, ToSetAppend
  <2>1. ToSet(msgs') = ToSet(msgs) \cup {m} /\ entered' = entered \cup {m}
    BY <1>4, <2>0 DEF Publish, Arrive
  <2>2. UNCHANGED <<pc, msg, done>> /\ taskless' \in BOOLEAN
    BY <1>0, <1>4 DEF Publish, Arrive, workers, PastTypes
  <2> QED
    BY <1>0, <2>1, <2>2 DEF PastTypes, Known
<1>5. ASSUME NEW c \in Channel, NEW m \in Msg, Ack(c, m) PROVE PastTypes' /\ Known'
  <2>1. ToSet(msgs') \subseteq ToSet(msgs)
    BY <1>0, <1>5, RemovedProperties DEF Ack
  <2> QED
    BY <1>0, <1>5, <2>1 DEF Ack, workers, PastTypes, Known
<1>6. ASSUME NEW w \in Worker, TakeFront(w) PROVE PastTypes' /\ Known'
  <2>1. CASE UNCHANGED <<pc, msg, taskless>>
    BY <1>0, <1>6, <2>1 DEF TakeFront, PastTypes, Known
  <2>2. CASE /\ msgs # <<>> /\ pc' = [pc EXCEPT ![w] = "front"]
             /\ msg' = [msg EXCEPT ![w] = Head(msgs)]
             /\ taskless' = (taskless \/ Head(msgs) \in Hands)
    <3>1. Head(msgs) \in entered
      BY <1>0, <2>2, HeadOf DEF Known
    <3>2. UNCHANGED <<msgs, entered, done>>
      BY <1>6 DEF TakeFront
    <3> QED
      BY <1>0, <2>2, <3>1, <3>2 DEF WorkerTypes, PastTypes, Known
  <2> QED
    BY <1>6, <2>1, <2>2 DEF TakeFront
<1>7. ASSUME NEW w \in Worker, RemoveTaken(w) PROVE PastTypes' /\ Known'
  <2>1. ToSet(msgs') \subseteq ToSet(msgs)
    BY <1>0, <1>7, RemovedProperties DEF RemoveTaken
  <2> QED
    BY <1>0, <1>7, <2>1 DEF RemoveTaken, past, WorkerTypes, PastTypes, Known
<1>8. ASSUME NEW w \in Worker, ChooseNone(w) \/ Choose(w) \/ Deliver(w) PROVE PastTypes' /\ Known'
  <2>1. msg[w] \in entered
    BY <1>0, <1>8 DEF ChooseNone, Choose, Deliver, WorkerTypes, Known
  <2>2. CASE ChooseNone(w)
    BY <1>0, <2>1, <2>2 DEF ChooseNone, past, WorkerTypes, PastTypes, Known
  <2>3. CASE Choose(w)
    BY <1>0, <2>1, <2>3 DEF Choose, past, WorkerTypes, PastTypes, Known
  <2>4. CASE Deliver(w) /\ consumer[w].auto
    BY <1>0, <2>1, <2>4 DEF Deliver, WorkerTypes, PastTypes, Known
  <2>5. CASE Deliver(w) /\ ~consumer[w].auto
    BY <1>0, <2>1, <2>5 DEF Deliver, WorkerTypes, PastTypes, Known
  <2> QED
    BY <1>8, <2>2, <2>3, <2>4, <2>5
<1>9. ASSUME NEW w \in Worker, AutoAck(w) PROVE PastTypes' /\ Known'
  <2>1. ToSet(msgs') \subseteq ToSet(msgs)
    BY <1>0, <1>9, RemovedProperties DEF AutoAck
  <2> QED
    BY <1>0, <1>9, <2>1 DEF AutoAck, past, WorkerTypes, PastTypes, Known
<1> QED
  BY <1>1, <1>2, <1>3, <1>4, <1>5, <1>6, <1>7, <1>8, <1>9, MessagesChange DEF MessageMoves

(* A worker that takes a message from the queue when nobody is there to     *)
(* have it, or the last consumer that leaves, makes the message unserved.   *)
LEMMA ConsumersLeave ==
  ASSUME [Next]_vars
  PROVE  \/ UNCHANGED <<consumers, unserved>> /\ \A w \in Worker : ~RemoveTaken(w)
         \/ UNCHANGED <<workers, past>> /\ \E s : SetConsumers(s)
         \/ \E w \in Worker : RemoveTaken(w)
<1> DEFINE Kept == UNCHANGED <<consumers, unserved>>
           Other == UNCHANGED <<workers, past>> /\ \E s : SetConsumers(s)
<1> SUFFICES ASSUME \A w \in Worker : ~RemoveTaken(w) PROVE Kept \/ Other
  OBVIOUS
<1>1. ASSUME NEW c \in Channel, \/ CloseChannel(c) \/ \E tag \in Tag : Cancel(c, tag)
                               \/ \E r \in Subscriptions : Subscribe(c, r[1], r[2])
      PROVE  Kept \/ Other
  BY <1>1 DEF CloseChannel, Cancel, Subscribe, RemoveConsumer, chosen
<1>2. ASSUME NEW c \in Channel, DestroyQueueConsumer(c) PROVE Kept \/ Other
  BY <1>2 DEF DestroyQueueConsumer
<1>3. CASE InitQueueConsumer
  BY <1>3 DEF InitQueueConsumer
<1>4. ASSUME NEW c \in Channel,
             \/ OpenChannel(c) \/ Declare(c) \/ PublishPast(c)
             \/ \E m \in Msg : Publish(c, m) \/ Arrive(c, m) \/ Ack(c, m)
      PROVE  Kept
  BY <1>4 DEF OpenChannel, Declare, PublishPast, Publish, Arrive, Ack, chosen
<1>5. CASE DeleteQueue \/ PushTask \/ UNCHANGED vars
  BY <1>5 DEF DeleteQueue, PushTask, vars, chosen
<1>6. ASSUME NEW w \in Worker,
             TakeFront(w) \/ ChooseNone(w) \/ Choose(w) \/ Deliver(w) \/ AutoAck(w)
      PROVE  Kept
  BY <1>6 DEF TakeFront, ChooseNone, Choose, Deliver, AutoAck, chosen
<1> HIDE DEF Kept, Other
<1> QED
  BY <1>1, <1>2, <1>3, <1>4, <1>5, <1>6 DEF Next

LEMMA UnservedStep ==
  ASSUME TypeOK, Known, Waiting, [Next]_vars
  PROVE  /\ unserved \subseteq unserved' /\ unserved' \subseteq entered'
         /\ Waiting'
<1>0. /\ WorkerTypes /\ unserved \subseteq entered /\ entered \subseteq entered'
      /\ Undecided \subseteq entered
  <2>1. \A w \in Worker : pc[w] = "taken" => msg[w] # NoMsg
    BY TypeParts DEF WorkerTypes
  <2> QED
    BY <2>1, IdsBefore, TypeParts DEF Known, Undecided
<1>1. CASE UNCHANGED <<consumers, unserved>> /\ \A w \in Worker : ~RemoveTaken(w)
  <2>1. \A v \in Worker : pc'[v] = "taken" => pc[v] = "taken" /\ msg'[v] = msg[v]
    <3>1. CASE UNCHANGED workers
      BY <3>1 DEF workers
    <3>2. ASSUME NEW w \in Worker,
                 TakeFront(w) \/ ChooseNone(w) \/ Choose(w) \/ Deliver(w) \/ AutoAck(w)
          PROVE  \A v \in Worker : pc'[v] = "taken" => pc[v] = "taken" /\ msg'[v] = msg[v]
      BY <1>0, <3>2 DEF TakeFront, ChooseNone, Choose, Deliver, AutoAck, WorkerTypes
    <3> QED
      BY <1>1, <3>1, <3>2, WorkersChange DEF WorkerMoves
  <2>2. Undecided' \subseteq Undecided
    BY <2>1 DEF Undecided
  <2> QED
    BY <1>0, <1>1, <2>2 DEF Waiting
<1>2. ASSUME UNCHANGED <<workers, past>>, NEW s, SetConsumers(s)
      PROVE  unserved \subseteq unserved' /\ unserved' \subseteq entered' /\ Waiting'
  <2>1. Undecided' = Undecided /\ entered' = entered
    BY <1>2 DEF workers, past, Undecided
  <2> QED
    BY <1>0, <1>2, <2>1 DEF SetConsumers, Waiting
<1>3. ASSUME NEW w \in Worker, RemoveTaken(w)
      PROVE  unserved \subseteq unserved' /\ unserved' \subseteq entered' /\ Waiting'
  <2>1. msg[w] \in entered
    BY <1>0, <1>3 DEF RemoveTaken, WorkerTypes, Known
  <2>2. Undecided' \subseteq Undecided \cup {msg[w]}
    BY <1>0, <1>3 DEF RemoveTaken, WorkerTypes, Undecided
  <2> QED
    BY <1>0, <1>3, <2>1, <2>2 DEF RemoveTaken, past, Waiting
<1> QED
  BY <1>1, <1>2, <1>3, ConsumersLeave

LEMMA OnceEachStep == TypeOK /\ Known /\ OnceEach /\ [Next]_vars => OnceEach'
<1> SUFFICES ASSUME TypeOK, Known, OnceEach, [Next]_vars PROVE OnceEach'
  OBVIOUS
<1>0. msgs \in Seq(Msg)
  BY DEF TypeOK
<1>1. CASE UNCHANGED msgs
  BY <1>1 DEF OnceEach
<1>2. CASE msgs' = <<>>
  <2>1. DOMAIN msgs' = {}
    BY <1>2
  <2> QED
    BY <2>1 DEF OnceEach
<1>3. ASSUME NEW id, msgs' = Removed(msgs, id) PROVE OnceEach'
  BY <1>0, <1>3, RemovedProperties DEF OnceEach
<1>4. ASSUME NEW m \in Msg, m \notin entered, msgs' = Append(msgs, m) PROVE OnceEach'
  <2>1. /\ Len(msgs) \in Nat /\ DOMAIN msgs = 1..Len(msgs)
        /\ DOMAIN msgs' = 1..(Len(msgs) + 1)
        /\ \A i \in 1..Len(msgs) : msgs'[i] = msgs[i]
        /\ msgs'[Len(msgs) + 1] = m
    BY <1>0, <1>4, AppendProperties, LenProperties
  <2>2. \A i \in DOMAIN msgs : msgs[i] # m
    BY <1>4 DEF Known, ToSet
  <2> QED
    BY <2>1, <2>2 DEF OnceEach
<1>5. CASE Quiet \/ DeleteQueue \/ PushTask \/ \E c \in Channel : PublishPast(c)
  BY <1>1, <1>2, <1>5 DEF Quiet, DeleteQueue, PushTask, PublishPast
<1>6. ASSUME NEW c \in Channel, NEW m \in Msg, Publish(c, m) \/ Arrive(c, m) \/ Ack(c, m)
      PROVE  OnceEach'
  BY <1>3, <1>4, <1>6 DEF Publish, Arrive, Ack
<1>7. ASSUME NEW w \in Worker, RemoveTaken(w) \/ AutoAck(w) PROVE OnceEach'
  BY <1>1, <1>3, <1>7 DEF RemoveTaken, AutoAck
<1>8. ASSUME NEW w \in Worker, TakeFront(w) \/ ChooseNone(w) \/ Choose(w) \/ Deliver(w)
      PROVE  OnceEach'
  BY <1>1, <1>8 DEF TakeFront, ChooseNone, Choose, Deliver
<1> QED
  BY <1>5, <1>6, <1>7, <1>8, MessagesChange DEF MessageMoves

LEMMA EmptyStaysEmpty == ASSUME NEW id PROVE Removed(<<>>, id) = <<>>
<1>1. <<>> \in Seq(Msg) /\ DOMAIN << >> = {}
  BY EmptySeq, LenProperties
<1> QED
  BY <1>1, RemovedIs

LEMMA RequestsStep ==
  TypeOK /\ Requests /\ Registered /\ [Next]_vars => Requests' /\ Registered'
<1> SUFFICES ASSUME TypeOK, Requests, Registered, [Next]_vars
             PROVE  Requests' /\ Registered'
  OBVIOUS
<1>1. ASSUME NEW c \in Channel, OpenChannel(c) PROVE Requests' /\ Registered'
  BY <1>1 DEF OpenChannel, queue, chosen, Requests, Registered
<1>2. ASSUME NEW c \in Channel, CloseChannel(c) PROVE Requests' /\ Registered'
  <2>1. CASE UNCHANGED chosen
    BY <1>2, <2>1 DEF CloseChannel, queue, chosen, Requests, Registered
  <2>2. CASE RemoveConsumer(held[c])
    BY <1>2, <2>2, RemoveConsumerProperties DEF CloseChannel, queue, Requests, Registered
  <2> QED
    BY <1>2, <2>1, <2>2 DEF CloseChannel
<1>3. ASSUME NEW c \in Channel, NEW r \in Subscriptions, Subscribe(c, r[1], r[2])
      PROVE  Requests' /\ Registered'
  <2>1. /\ group' = group /\ (~group' => consumers' = <<>>)
        /\ \A i, j \in DOMAIN consumers' : consumers'[i].tag = consumers'[j].tag => i = j
    BY <1>3, RequestedParts, SubscribeProperties
  <2>2. UNCHANGED <<loop, store, msgs, tasks>>
    BY <1>3 DEF Subscribe, queue
  <2> QED
    BY <2>1, <2>2 DEF Requests, Registered
<1>4. ASSUME NEW c \in Channel, NEW tag \in Tag, Cancel(c, tag) PROVE Requests' /\ Registered'
  BY <1>4, RemoveConsumerProperties DEF Cancel, queue, Requests, Registered
<1>5. ASSUME NEW c \in Channel, Declare(c) PROVE Requests' /\ Registered'
  BY <1>5 DEF Declare, chosen, Requests, Registered
<1>6. ASSUME NEW c \in Channel, DestroyQueueConsumer(c) PROVE Requests' /\ Registered'
  <2>1. DOMAIN consumers' = {} /\ consumers' = <<>>
    BY <1>6 DEF DestroyQueueConsumer, SetConsumers
  <2> QED
    BY <1>6, <2>1 DEF DestroyQueueConsumer, Requests, Registered
<1>7. ASSUME NEW c \in Channel,
             PublishPast(c) \/ \E m \in Msg : Publish(c, m) \/ Arrive(c, m)
      PROVE  Requests' /\ Registered'
  BY <1>7 DEF PublishPast, Publish, Arrive, Served, queue, chosen, Requests, Registered
<1>8. ASSUME NEW c \in Channel, NEW m \in Msg, Ack(c, m) PROVE Requests' /\ Registered'
  BY <1>8 DEF Ack, queue, chosen, Requests, Registered
<1>9. CASE InitQueueConsumer
  <2>1. CASE group
    BY <1>9, <2>1 DEF InitQueueConsumer, Requests, Registered
  <2>2. CASE ~group
    <3>1. DOMAIN consumers' = {}
      BY <1>9, <2>2 DEF InitQueueConsumer, SetConsumers
    <3> QED
      BY <1>9, <2>2, <3>1 DEF InitQueueConsumer, Requests, Registered
  <2> QED
    BY <2>1, <2>2
<1>10. CASE DeleteQueue
  BY <1>10 DEF DeleteQueue, chosen, Requests, Registered
<1>11. ASSUME NEW w \in Worker, RemoveTaken(w) \/ AutoAck(w) PROVE Requests' /\ Registered'
  <2>1. msgs = <<>> => msgs' = <<>>
    BY <1>11, EmptyStaysEmpty DEF RemoveTaken, AutoAck
  <2> QED
    BY <1>11, <2>1 DEF RemoveTaken, AutoAck, queue, chosen, Requests, Registered
<1>12. ASSUME NEW w \in Worker, ChooseNone(w) \/ Choose(w) \/ Deliver(w)
       PROVE  Requests' /\ Registered'
  BY <1>12 DEF ChooseNone, Choose, Deliver, queue, chosen, Requests, Registered
<1>13. ASSUME NEW w \in Worker, TakeFront(w) PROVE Requests' /\ Registered'
  <2>1. tasks \in Nat /\ MaxTasks \in Nat /\ tasks' = tasks - 1
    BY <1>13, DeliveryAssumption DEF TypeOK, TakeFront
  <2>2. UNCHANGED <<queue, msgs, chosen>>
    BY <1>13 DEF TakeFront
  <2> QED
    BY <2>1, <2>2 DEF queue, chosen, Requests, Registered
<1>14. CASE PushTask
  BY <1>14 DEF PushTask, chosen, Requests, Registered
<1>15. CASE UNCHANGED vars
  BY <1>15 DEF vars, queue, chosen, Requests, Registered
<1> QED
  BY <1>1, <1>2, <1>3, <1>4, <1>5, <1>6, <1>7, <1>8, <1>9, <1>10, <1>11, <1>12, <1>13, <1>14,
     <1>15 DEF Next

---------------------------------------------------------------------------
\* A message is accounted for: where it can be when it is not lost.
Accounted == ToSet(msgs) \cup Hands \cup done \cup unserved

LEMMA NoneVanishesStep ==
  /\ TypeOK /\ Known /\ Waiting /\ OnceEach /\ Registered /\ NoneVanishes /\ [Next]_vars
  /\ HasUniqueIds'
  => entered' \subseteq Accounted'
<1> SUFFICES ASSUME TypeOK, Known, Waiting, OnceEach, Registered, NoneVanishes, [Next]_vars,
                    HasUniqueIds'
             PROVE  entered' \subseteq Accounted'
  OBVIOUS
<1>0. WorkerTypes /\ PastTypes /\ msgs \in Seq(Msg) /\ NoMsg \notin entered
  BY TypeParts, DeliveryAssumption DEF QueueTypes, PastTypes
<1>1. /\ HasUniqueIds /\ entered \subseteq Accounted
      /\ unserved \subseteq unserved'
  BY IdsBefore, UnservedStep DEF NoneVanishes, Accounted
<1>2. CASE Quiet
  BY <1>1, <1>2 DEF Quiet, workers, past, Accounted, Hands
<1>3. CASE DeleteQueue
  BY <1>1, <1>3 DEF DeleteQueue, workers, Accounted, Hands
<1>4. ASSUME PushTask \/ \E c \in Channel : PublishPast(c) PROVE entered' \subseteq Accounted'
  BY <1>1, <1>4 DEF PushTask, PublishPast, workers, past, Accounted, Hands
<1>5. ASSUME NEW c \in Channel, NEW m \in Msg, Publish(c, m) \/ Arrive(c, m)
      PROVE  entered' \subseteq Accounted'
  <2>0. ToSet(Append(msgs, m)) = ToSet(msgs) \cup {m}
    BY <1>0, ToSetAppend
  <2>1. ToSet(msgs') = ToSet(msgs) \cup {m} /\ entered' = entered \cup {m}
    BY <1>5, <2>0 DEF Publish, Arrive
  <2>2. UNCHANGED <<msg, done>>
    BY <1>5 DEF Publish, Arrive, workers
  <2> QED
    BY <1>1, <2>1, <2>2 DEF Accounted, Hands
<1>6. ASSUME NEW c \in Channel, NEW m \in Msg, Ack(c, m) PROVE entered' \subseteq Accounted'
  BY <1>1, <1>6 DEF Ack, workers, Accounted, Hands
<1>7. ASSUME NEW w \in Worker, TakeFront(w) PROVE entered' \subseteq Accounted'
  <2>1. UNCHANGED <<msgs, entered, done>>
    BY <1>7 DEF TakeFront
  <2>2. \A v \in Worker : msg[v] \in entered => msg'[v] = msg[v]
    BY <1>0, <1>7 DEF TakeFront, WorkerTypes
  <2>3. Hands \cap entered \subseteq Hands'
    BY <2>2 DEF Hands
  <2> QED
    BY <1>1, <2>1, <2>3 DEF Accounted
<1>8. ASSUME NEW w \in Worker, RemoveTaken(w) PROVE entered' \subseteq Accounted'
  <2>1. msg[w] \in entered /\ msg[w] \in Hands
    BY <1>0, <1>8 DEF RemoveTaken, WorkerTypes, Known, Hands
  <2>2. ToSet(msgs) \subseteq ToSet(Removed(msgs, IdOf[msg[w]])) \cup {msg[w]}
    BY <1>0, <1>1, <2>1, RemovedTakesOne DEF Known, OnceEach
  <2> QED
    BY <1>1, <1>8, <2>1, <2>2 DEF RemoveTaken, past, Accounted, Hands
<1>9. ASSUME NEW w \in Worker, ChooseNone(w) \/ Deliver(w) \/ Choose(w)
      PROVE  entered' \subseteq Accounted'
  <2>1. \A v \in Worker : v = w \/ msg'[v] = msg[v]
    BY <1>0, <1>9 DEF ChooseNone, Deliver, Choose, WorkerTypes
  <2>2. Hands \subseteq Hands' \cup {msg[w]}
    BY <2>1 DEF Hands
  <2>3. CASE ChooseNone(w)
    <3>1. msg[w] \in unserved
      BY <2>3 DEF ChooseNone, Registered, Waiting, Undecided
    <3> QED
      BY <1>1, <2>2, <2>3, <3>1 DEF ChooseNone, past, Accounted
  <2>4. CASE Deliver(w)
    BY <1>1, <2>2, <2>4 DEF Deliver, Accounted
  <2>5. CASE Choose(w)
    BY <1>1, <2>5 DEF Choose, past, Accounted, Hands
  <2> QED
    BY <1>9, <2>3, <2>4, <2>5
<1>10. ASSUME NEW w \in Worker, AutoAck(w) PROVE entered' \subseteq Accounted'
  <2>1. msg[w] \in entered /\ msg[w] \in done
    BY <1>0, <1>10 DEF AutoAck, WorkerTypes, Known
  <2>2. ToSet(msgs) \subseteq ToSet(Removed(msgs, IdOf[msg[w]])) \cup {msg[w]}
    BY <1>0, <1>1, <2>1, RemovedTakesOne DEF Known, OnceEach
  <2>3. ToSet(msgs) \subseteq ToSet(msgs') \cup {msg[w]}
    BY <1>10, <2>2 DEF AutoAck
  <2>4. \A v \in Worker : v = w \/ msg'[v] = msg[v]
    BY <1>0, <1>10 DEF AutoAck, WorkerTypes
  <2>5. Hands \subseteq Hands' \cup {msg[w]}
    BY <2>4 DEF Hands
  <2> QED
    BY <1>1, <1>10, <2>1, <2>3, <2>5 DEF AutoAck, past, Accounted
<1> QED
  BY <1>2, <1>3, <1>4, <1>5, <1>6, <1>7, <1>8, <1>9, <1>10, MessagesChange DEF MessageMoves

---------------------------------------------------------------------------
LEMMA TakersStayFinite == TypeOK /\ IsFiniteSet(Takers) /\ [Next]_vars => IsFiniteSet(Takers')
<1> SUFFICES ASSUME TypeOK, IsFiniteSet(Takers), [Next]_vars PROVE IsFiniteSet(Takers')
  OBVIOUS
<1>0. WorkerTypes
  BY TypeParts
<1>1. CASE UNCHANGED workers
  BY <1>1 DEF workers, Takers
<1>2. ASSUME NEW w \in Worker,
             \/ TakeFront(w) \/ RemoveTaken(w) \/ ChooseNone(w)
             \/ Choose(w) \/ Deliver(w) \/ AutoAck(w)
      PROVE  IsFiniteSet(Takers')
  <2>1. \A v \in Worker : v = w \/ pc'[v] = pc[v]
    BY <1>0, <1>2 DEF TakeFront, RemoveTaken, ChooseNone, Choose, Deliver, AutoAck, WorkerTypes
  <2>2. Takers' \in SUBSET (Takers \cup {w})
    BY <2>1 DEF Takers
  <2>3. IsFiniteSet(Takers \cup {w})
    BY FS_AddElement
  <2> QED
    BY <2>2, <2>3, FS_Subset
<1> QED
  BY <1>1, <1>2, WorkersChange DEF WorkerMoves

\* When no message is uncovered that was covered, and no task is spent.
LEMMA FewerUncovered ==
  ASSUME TypeOK, Cardinality(Uncovered) <= Coming,
         Uncovered' \subseteq Uncovered, Coming' \in Nat, Coming' >= Coming
  PROVE  Cardinality(Uncovered') <= Coming'
<1>1. IsFiniteSet(ToSet(msgs)) /\ Coming \in Nat
  BY ToSetFinite, DeliveryAssumption DEF TypeOK, Coming
<1>2. IsFiniteSet(Uncovered) /\ Cardinality(Uncovered) \in Nat
  BY <1>1, FS_Subset, FS_CardinalityType DEF Uncovered
<1>3. IsFiniteSet(Uncovered') /\ Cardinality(Uncovered') <= Cardinality(Uncovered)
  BY <1>2, FS_Subset
<1>4. Cardinality(Uncovered') \in Nat
  BY <1>3, FS_CardinalityType
<1> QED
  BY <1>1, <1>2, <1>3, <1>4

LEMMA CoveredStep ==
  TypeOK /\ Known /\ OnceEach /\ Requests /\ Covered /\ QueueTypes' /\ [Next]_vars => Covered'
<1> SUFFICES ASSUME TypeOK, Known, OnceEach, Requests, Covered, QueueTypes', [Next]_vars,
                    HasUniqueIds', ~taskless'
             PROVE  Cardinality(Uncovered') <= Coming'
  BY TakersStayFinite DEF Covered
<1>0. /\ WorkerTypes /\ PastTypes /\ msgs \in Seq(Msg) /\ NoMsg \notin entered
      /\ tasks \in Nat /\ tasks' \in Nat
  BY TypeParts, DeliveryAssumption DEF QueueTypes, PastTypes
<1>a. Coming \in Nat /\ Coming' \in Nat
  <2>1. Coming \in {tasks, tasks + 1} /\ Coming' \in {tasks', tasks' + 1}
    BY DEF Coming
  <2>2. \A n \in Nat : n + 1 \in Nat
    OBVIOUS
  <2> QED
    BY <1>0, <2>1, <2>2
<1>1. HasUniqueIds /\ (~taskless => Cardinality(Uncovered) <= Coming)
  BY IdsBefore DEF Covered
<1>2. IsFiniteSet(Uncovered) /\ Cardinality(Uncovered) \in Nat
  <2>1. IsFiniteSet(ToSet(msgs)) /\ Uncovered \in SUBSET ToSet(msgs)
    BY <1>0, ToSetFinite DEF Uncovered
  <2> QED
    BY <2>1, FS_Subset, FS_CardinalityType
<1>3. CASE Quiet
  BY <1>0, <1>1, <1>3 DEF Quiet, workers, past, Uncovered, Leaving, Takers, Coming
<1>4. CASE DeleteQueue
  <2>1. ToSet(<<>>) = {}
    BY EmptySeq, ElementsOfSeq DEF ToSet
  <2>2. Uncovered' = {}
    BY <1>4, <2>1 DEF DeleteQueue, Uncovered
  <2> QED
    BY <1>a, <2>2, FS_EmptySet
<1>5. ASSUME PushTask \/ \E c \in Channel : PublishPast(c)
      PROVE  Cardinality(Uncovered') <= Coming'
  <2>1. ~taskless /\ Uncovered' = Uncovered
    BY <1>5 DEF PushTask, PublishPast, workers, past, Uncovered, Leaving, Takers
  <2>2. tasks' = tasks + 1 /\ (loop' = loop \/ (loop = "publish" /\ loop' = "idle"))
    BY <1>5 DEF PushTask, PublishPast, queue
  <2>3. Coming' >= Coming
    BY <1>0, <2>2 DEF Coming
  <2> QED
    BY <1>a, <1>1, <2>1, <2>3, FewerUncovered
<1>6. ASSUME NEW c \in Channel, NEW m \in Msg, Publish(c, m)
      PROVE  Cardinality(Uncovered') <= Coming'
  <2>0. ToSet(Append(msgs, m)) = ToSet(msgs) \cup {m}
    BY <1>0, ToSetAppend
  <2>1. ~taskless /\ Coming' = Coming + 1 /\ ToSet(msgs') = ToSet(msgs) \cup {m}
    BY <1>0, <1>6, <2>0 DEF Publish, Served, Coming
  <2>2. Uncovered' \in SUBSET (Uncovered \cup {m})
    BY <1>6, <2>1 DEF Publish, workers, Uncovered, Leaving, Takers
  <2>3. IsFiniteSet(Uncovered \cup {m}) /\ Cardinality(Uncovered \cup {m}) <= Cardinality(Uncovered) + 1
    <3>1. /\ IsFiniteSet(Uncovered \cup {m})
          /\ Cardinality(Uncovered \cup {m}) = IF m \in Uncovered THEN Cardinality(Uncovered)
                                                ELSE Cardinality(Uncovered) + 1
      BY <1>2, FS_AddElement
    <3> QED
      BY <1>2, <3>1
  <2>4. Cardinality(Uncovered \cup {m}) \in Nat
    BY <2>3, FS_CardinalityType
  <2>5. IsFiniteSet(Uncovered') /\ Cardinality(Uncovered') <= Cardinality(Uncovered \cup {m})
    BY <2>2, <2>3, FS_Subset
  <2>6. Cardinality(Uncovered') \in Nat
    BY <2>5, FS_CardinalityType
  <2> QED
    BY <1>a, <1>1, <1>2, <2>1, <2>3, <2>4, <2>5, <2>6
<1>7. ASSUME NEW c \in Channel, NEW m \in Msg, Arrive(c, m)
      PROVE  Cardinality(Uncovered') <= Coming'
  BY <1>7 DEF Arrive
<1>8. ASSUME NEW c \in Channel, NEW m \in Msg, Ack(c, m)
      PROVE  Cardinality(Uncovered') <= Coming'
  <2>1. ToSet(msgs') \subseteq ToSet(msgs)
    BY <1>0, <1>8, RemovedProperties DEF Ack
  <2>2. ~taskless /\ Uncovered' \subseteq Uncovered /\ Coming' = Coming
    BY <1>8, <2>1 DEF Ack, queue, workers, Uncovered, Leaving, Takers, Coming
  <2> QED
    BY <1>a, <1>1, <2>2, FewerUncovered
<1>9. ASSUME NEW w \in Worker, TakeFront(w) PROVE Cardinality(Uncovered') <= Coming'
  <2>1. CASE store /\ msgs # <<>>
    <3>1. PICK h : h = Head(msgs)
      OBVIOUS
    <3>2. /\ pc[w] = "idle" /\ pc' = [pc EXCEPT ![w] = "front"] /\ msg' = [msg EXCEPT ![w] = h]
          /\ ~taskless /\ h \notin Hands /\ msgs' = msgs /\ tasks' = tasks - 1 /\ loop' = loop
      BY <1>9, <2>1, <3>1 DEF TakeFront, queue
    <3>0. Coming' = Coming - 1
      BY <1>0, <3>2 DEF Coming
    <3>3. h \in Uncovered
      BY <1>0, <2>1, <3>1, <3>2, HeadOf DEF Uncovered, Leaving, Takers, Hands
    <3>4. w \in Takers' /\ msg'[w] = h /\ \A v \in Takers : v \in Takers' /\ msg'[v] = msg[v]
      BY <1>0, <3>2 DEF Takers, WorkerTypes
    <3>5. h \in Leaving' /\ Leaving \subseteq Leaving'
      BY <3>4 DEF Leaving
    <3>6. Uncovered' \in SUBSET (Uncovered \ {h})
      BY <3>2, <3>5 DEF Uncovered
    <3>7. IsFiniteSet(Uncovered \ {h}) /\ Cardinality(Uncovered \ {h}) = Cardinality(Uncovered) - 1
      BY <1>2, <3>3, FS_RemoveElement
    <3>8. IsFiniteSet(Uncovered') /\ Cardinality(Uncovered') <= Cardinality(Uncovered \ {h})
      BY <3>6, <3>7, FS_Subset
    <3>9. Cardinality(Uncovered') \in Nat
      BY <3>8, FS_CardinalityType
    <3> QED
      BY <1>a, <1>1, <1>2, <3>0, <3>2, <3>7, <3>8, <3>9
  <2>2. CASE ~(store /\ msgs # <<>>)
    <3>1. ToSet(<<>>) = {}
      BY EmptySeq, ElementsOfSeq DEF ToSet
    <3>2. msgs = <<>> /\ msgs' = msgs
      BY <1>9, <2>2 DEF TakeFront, Requests
    <3>3. Uncovered' = {}
      BY <3>1, <3>2 DEF Uncovered
    <3> QED
      BY <1>a, <3>3, FS_EmptySet
  <2> QED
    BY <2>1, <2>2
<1>10. ASSUME NEW w \in Worker, RemoveTaken(w) PROVE Cardinality(Uncovered') <= Coming'
  <2>1. msg[w] \in entered
    BY <1>0, <1>10 DEF RemoveTaken, WorkerTypes, Known
  <2>2. msg[w] \notin ToSet(Removed(msgs, IdOf[msg[w]]))
    BY <1>0, <1>1, <2>1, RemovedTakesOne DEF Known, OnceEach
  <2>3. msg[w] \notin ToSet(msgs') /\ ToSet(msgs') \subseteq ToSet(msgs)
    BY <1>0, <1>10, <2>2, RemovedProperties DEF RemoveTaken
  <2>4. \A v \in Takers : v = w \/ v \in Takers'
    BY <1>0, <1>10 DEF RemoveTaken, Takers, WorkerTypes
  <2>5. Leaving \subseteq Leaving' \cup {msg[w]}
    BY <1>10, <2>4 DEF RemoveTaken, Leaving
  <2>6. ~taskless /\ Uncovered' \subseteq Uncovered /\ Coming' = Coming
    BY <1>10, <2>3, <2>5 DEF RemoveTaken, queue, past, Uncovered, Coming
  <2> QED
    BY <1>a, <1>1, <2>6, FewerUncovered
<1>11. ASSUME NEW w \in Worker, ChooseNone(w) \/ Choose(w) \/ Deliver(w) \/ AutoAck(w)
       PROVE  Cardinality(Uncovered') <= Coming'
  <2>1. ToSet(msgs') \subseteq ToSet(msgs)
    BY <1>0, <1>11, RemovedProperties DEF ChooseNone, Choose, Deliver, AutoAck
  <2>2. \A v \in Takers : v \in Takers' /\ msg'[v] = msg[v]
    BY <1>0, <1>11 DEF ChooseNone, Choose, Deliver, AutoAck, Takers, WorkerTypes
  <2>3. Leaving \subseteq Leaving'
    BY <2>2 DEF Leaving
  <2>4. taskless' = taskless /\ Coming' = Coming
    BY <1>11 DEF ChooseNone, Choose, Deliver, AutoAck, queue, past, Coming
  <2>5. ~taskless /\ Uncovered' \subseteq Uncovered
    BY <2>1, <2>3, <2>4 DEF Uncovered
  <2> QED
    BY <1>a, <1>1, <2>4, <2>5, FewerUncovered
<1> QED
  BY <1>3, <1>4, <1>5, <1>6, <1>7, <1>8, <1>9, <1>10, <1>11, MessagesChange DEF MessageMoves

---------------------------------------------------------------------------
\* FairShare follows from who has had a turn since the round began.
LEMMA EvenTurns == TypeOK /\ InTurn => FairShare
<1> SUFFICES ASSUME TypeOK, InTurn, NEW i \in DOMAIN turns, NEW j \in DOMAIN turns
             PROVE  turns[i] - turns[j] <= 1
  BY DEF FairShare
<1>1. /\ DOMAIN turns = DOMAIN consumers /\ DOMAIN consumers = 1..Len(consumers)
      /\ consumers # <<>> /\ Len(consumers) \in Nat /\ Len(consumers) > 0 /\ rr \in Nat
      /\ \A k \in DOMAIN consumers : turns[k] \in Nat
  <2>1. DOMAIN turns = DOMAIN consumers /\ DOMAIN consumers = 1..Len(consumers)
        /\ Len(consumers) \in Nat /\ rr \in Nat
        /\ \A k \in DOMAIN consumers : turns[k] \in Nat
    BY LenProperties DEF TypeOK
  <2>2. Len(consumers) > 0
    BY <2>1
  <2> QED
    BY <2>1, <2>2
<1>2. Turn \in DOMAIN consumers
  BY <1>1, NextIndex DEF Turn
<1>3. PICK s \in DOMAIN consumers : OneMoreSince(s, Turn)
  BY <1>1 DEF InTurn
<1>4. PICK t : t = turns[Turn]
  OBVIOUS
<1>5. t \in Nat /\ turns[i] \in {t, t + 1} /\ turns[j] \in {t, t + 1}
  BY <1>1, <1>2, <1>3, <1>4 DEF OneMoreSince
<1> QED
  BY <1>5

LEMMA EnoughTasks == TypeOK /\ OnceEach /\ Covered => TasksSuffice
<1> SUFFICES ASSUME TypeOK, OnceEach, Covered, HasUniqueIds, ~taskless
             PROVE  Len(msgs) <= tasks + Cardinality(Takers) + IF loop = "publish" THEN 1 ELSE 0
  BY DEF TasksSuffice, Takers
<1>1. /\ IsFiniteSet(ToSet(msgs)) /\ Cardinality(ToSet(msgs)) = Len(msgs)
      /\ Len(msgs) \in Nat /\ Coming \in Nat
  BY ToSetFinite, LenProperties, DeliveryAssumption DEF TypeOK, OnceEach, Coming
<1>2. Cardinality(Uncovered) <= Coming /\ IsFiniteSet(Takers) /\ Cardinality(Takers) \in Nat
  BY FS_CardinalityType DEF Covered
<1>3. IsFiniteSet(Leaving) /\ Cardinality(Leaving) <= Cardinality(Takers)
  <2> DEFINE f == [w \in Takers |-> msg[w]]
  <2>1. f \in [Takers -> Leaving] /\ \A x \in Leaving : \E w \in Takers : f[w] = x
    BY DEF Leaving
  <2>2. f \in Surjection(Takers, Leaving)
    BY <2>1, Fun_IsSurj
  <2> HIDE DEF f
  <2> QED
    BY <1>2, <2>2, FS_Surjection
<1>4. Uncovered \in SUBSET ToSet(msgs) /\ ToSet(msgs) \in SUBSET (Uncovered \cup Leaving)
  BY DEF Uncovered
<1>5. IsFiniteSet(Uncovered) /\ Uncovered \cap Leaving = {}
  BY <1>1, <1>4, FS_Subset DEF Uncovered
<1>6. IsFiniteSet(Uncovered \cup Leaving)
      /\ Cardinality(Uncovered \cup Leaving) = Cardinality(Uncovered) + Cardinality(Leaving) - 0
  BY <1>3, <1>5, FS_Union, FS_EmptySet
<1>7. Cardinality(ToSet(msgs)) <= Cardinality(Uncovered \cup Leaving)
  BY <1>4, <1>6, FS_Subset
<1>8. Cardinality(Uncovered) \in Nat /\ Cardinality(Leaving) \in Nat
  BY <1>3, <1>5, FS_CardinalityType
<1>9. Len(msgs) <= Coming + Cardinality(Takers)
  BY <1>1, <1>2, <1>3, <1>6, <1>7, <1>8
<1> QED
  BY <1>1, <1>2, <1>9, DeliveryAssumption DEF Coming, TypeOK

LEMMA DeliveryStep == DeliveryInvariant /\ [Next]_vars => DeliveryInvariant'
<1> SUFFICES ASSUME DeliveryInvariant, [Next]_vars PROVE DeliveryInvariant'
  OBVIOUS
<1> USE DEF DeliveryInvariant
<1>1. TypeOK'
  <2>1. QueueTypes' /\ GroupTypes' /\ WorkerTypes' /\ PastTypes'
    BY QueueTypesStep, GroupTypesStep, WorkerTypesStep, HistoryStep
  <2>2. (unserved \subseteq entered)'
    BY UnservedStep
  <2> QED
    BY <2>1, <2>2 DEF TypeOK, QueueTypes, GroupTypes, WorkerTypes, PastTypes
<1>2. Known' /\ Waiting' /\ OnceEach' /\ Requests' /\ Registered' /\ InTurn'
  BY HistoryStep, UnservedStep, OnceEachStep, RequestsStep, TurnStep
<1>3. NoneVanishes'
  BY NoneVanishesStep DEF NoneVanishes, Accounted
<1>4. Covered'
  BY CoveredStep, QueueTypesStep
<1> QED
  BY <1>1, <1>2, <1>3, <1>4

(* The invariant of the deliveries: what is known of the messages in the    *)
(* hands of the workers, of the tasks, and of whose turn it is, holds in    *)
(* every reachable state, however the calls of consume() interleave.        *)
THEOREM DeliveryCorrect == Spec => []DeliveryInvariant
<1>1. Init => DeliveryInvariant
  BY DeliveryInit
<1>2. DeliveryInvariant /\ [Next]_vars => DeliveryInvariant'
  BY DeliveryStep
<1> QED
  BY <1>1, <1>2, PTL DEF Spec

(* The state of the queue, its consumers and the workers is well formed;    *)
(* a worker has a consumer in hand from choose() to the end of its task.    *)
THEOREM DeliveryTypes == Spec => []TypeOK
<1>1. DeliveryInvariant => TypeOK
  BY DEF DeliveryInvariant
<1> QED
  BY <1>1, DeliveryCorrect, PTL

(* When messages have ids of their own, the workers lose one only by having *)
(* it out of the queue while no consumer is subscribed (channel.cpp:53-63): *)
(* otherwise each stays in the queue, or in a worker's hands, until a       *)
(* callback has it or a client has it removed, for any number of workers    *)
(* that take at once.                                                       *)
THEOREM NoneIsLost == Spec => []NoneVanishes
<1>1. DeliveryInvariant => NoneVanishes
  BY DEF DeliveryInvariant
<1> QED
  BY <1>1, DeliveryCorrect, PTL

(* The virtual host and the consumer manager agree about a queue between    *)
(* two requests, and a tag names one consumer of it.                        *)
THEOREM TagsAreUnique == Spec => []Registered
<1>1. DeliveryInvariant => Registered
  BY DEF DeliveryInvariant
<1> QED
  BY <1>1, DeliveryCorrect, PTL

(* rr_choose gives each consumer its share, for any number of consumers and *)
(* from any value of __rr_index.                                            *)
THEOREM SharesAreFair == Spec => []FairShare
<1>1. DeliveryInvariant => FairShare
  BY EvenTurns DEF DeliveryInvariant
<1> QED
  BY <1>1, DeliveryCorrect, PTL

(* For each message in the queue a task is still to run or about to be      *)
(* pushed, while messages come by publication only and no two workers take  *)
(* the same front.                                                          *)
THEOREM EachHasATask == Spec => []TasksSuffice
<1>1. DeliveryInvariant => TasksSuffice
  BY EnoughTasks DEF DeliveryInvariant
<1> QED
  BY <1>1, DeliveryCorrect, PTL

=============================================================================
