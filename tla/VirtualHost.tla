---------------------------- MODULE VirtualHost ----------------------------
(***************************************************************************)
(* class virtual_host (src/src/server/virtual_host.cpp) with the queue     *)
(* manager it drives (src/src/common/queue.cpp): exchanges, queues and     *)
(* their configuration, bindings, and what publish, consume, ack and nack  *)
(* do to the messages in the queues.  The event loop runs these operations *)
(* one at a time; Delivery looks at the consumers on the worker threads.   *)
(*                                                                         *)
(* A key is a sequence of segments (see Route); queue names are keys.  Of  *)
(* a message only the body and the id are kept.  generate_id makes decimal *)
(* strings, here numbers, and a client that chooses the id of its message  *)
(* may choose such a string too.  The store of a queue is                  *)
(* seen through FifoQueue, which QueueStore shows it implements: declaring *)
(* a durable queue again may bring back any of the messages its file was   *)
(* given, in their order.  The exchange manager is not in the repository:  *)
(* declaring an exchange that exists changes nothing, and after a restart  *)
(* any of the exchanges may be back.  A nack with requeue changes nothing. *)
(***************************************************************************)
EXTENDS Integers, SequencesExt, Route

CONSTANTS
  Exchange,     \* exchange names
  DefaultEx,    \* the empty name, of the default exchange
  Queue,        \* queue names
  Key,          \* routing and binding keys
  ClientId,     \* message ids chosen by clients, numerals or other strings
  NoQueue, Unbound,
  ExchangeRequests, \* what clients ask for: <<exchange, type>>,
  QueueRequests,    \*   <<queue, durable>>,
  DlqRequests,      \*   <<queue, durable, dead letter exchange, its routing key>>,
  BindRequests,     \*   <<exchange, queue, binding key>>,
  Publications,     \*   <<exchange, BasicProperties>>
  MaxPublish    \* bound: publications and dead letters of a behaviour

NoId  == 0      \* the empty id; the ids generate_id hands out are 1, 2, ...
NoKey == <<>>   \* the empty routing key
Types == {"DIRECT", "FANOUT", "TOPIC", "HEADERS"}

Config  == [durable : BOOLEAN, dlx : Exchange, dlrk : Key]
\* drawn is history: generate_id made the id, no client chose it.
Message == {m \in [body : Nat, id : Nat \cup ClientId, drawn : BOOLEAN] :
              m.drawn => m.id \in Nat \ {NoId}}
\* BasicProperties of a request; null is the pointer's.
Props   == [null : BOOLEAN, id : {NoId} \cup ClientId, rkey : Key]

ASSUME NamesAssumption ==
  /\ DefaultEx \in Exchange
  /\ Queue \subseteq Key /\ NoKey \in Key \ Queue
  /\ ExchangeRequests \subseteq Exchange \X Types
  /\ QueueRequests \subseteq Queue \X BOOLEAN
  /\ DlqRequests \subseteq Queue \X BOOLEAN \X Exchange \X Key
  /\ BindRequests \subseteq Exchange \X Queue \X Key
  /\ Publications \subseteq Exchange \X Props
  /\ NoId \notin ClientId
  /\ NoQueue \notin Config /\ Unbound \notin Key
  /\ MaxPublish \in Nat

VARIABLES
  exchanges,  \* exchange manager: the type of each exchange, or "none"
  queues,     \* queue manager: the configuration of each queue, or NoQueue
  stores,     \* the keys of __queue_messages
  msgs,       \* __queue_messages[q]: the messages in memory, oldest first
  files,      \* the messages given to the file of q, in order
  bindings,   \* __exchange_bindings[x][q]: the binding key, or Unbound
  seq,        \* generate_id's counter
  published,  \* history: publications and dead letters so far; a body is
              \*   the number of its publication
  restarted   \* history: the broker process was restarted

vars == <<exchanges, queues, stores, msgs, files, bindings, seq, published, restarted>>

admin == <<exchanges, queues, stores, bindings, restarted>>

---------------------------------------------------------------------------
(* remove(id): the front for the empty id, else the first with that id.    *)
Takes(s, id, k) ==
  IF id = NoId THEN k = 1
  ELSE s[k].id = id /\ \A j \in 1..(k - 1) : s[j].id # id

AfterRemove(s, id) ==
  IF \E k \in DOMAIN s : Takes(s, id, k)
  THEN {RemoveAt(s, k) : k \in {j \in DOMAIN s : Takes(s, id, j)}}
  ELSE {s}

\* The subsequences of s: what may be back after its file is read again.
Subsequences(s) ==
  UNION {{[i \in 1..n |-> s[f[i]]] :
            f \in {f \in [1..n -> DOMAIN s] : \A i, j \in 1..n : i < j => f[i] < f[j]}}
         : n \in 0..Len(s)}

(* publish_to_exchange: the queues the exchange selects.  The matcher for  *)
(* headers is not in the repository: any bound queue may match.            *)
BoundTo(x)     == {q \in Queue : bindings[x][q] # Unbound}
Matching(x, k) == {q \in BoundTo(x) : MatchRoute(exchanges[x], k, bindings[x][q])}
Selections(x, k) ==
  IF exchanges[x] = "HEADERS" THEN SUBSET BoundTo(x) ELSE {Matching(x, k)}

\* Seeded faults: the counter is not kept; every queue draws an id.
DeliveriesNoCount(sel, p, n) ==
  LET open   == sel \cap stores
      takers == IF p.rkey = NoKey THEN open ELSE open \cap {p.rkey}
  IN IF p.null THEN {[to |-> open, id |-> NoId, drawn |-> FALSE, seq |-> n]}
     ELSE {[to  |-> t,
            id  |-> IF p.id = NoId THEN n + 1 ELSE p.id,
            drawn |-> p.id = NoId,
            seq |-> n]
           : t \in IF takers = {} THEN {{}} ELSE {{q} : q \in takers}}

DeliveriesIdPerQueue(sel, p, n) ==
  LET open   == sel \cap stores
      takers == IF p.rkey = NoKey THEN open ELSE open \cap {p.rkey}
      fresh  == p.id = NoId /\ open # {}
  IN IF p.null THEN {[to |-> open, id |-> NoId, drawn |-> FALSE, seq |-> n]}
     ELSE {[to  |-> t,
            id  |-> IF p.id = NoId THEN n + 1 ELSE p.id,
            drawn |-> p.id = NoId,
            seq |-> IF fresh THEN n + Cardinality(open) ELSE n]
           : t \in IF takers = {} THEN {{}} ELSE {{q} : q \in takers}}

(* basic_publish(q, bp, body) for each selected queue in turn, when the     *)
(* counter of generate_id is n.  The calls share bp: the first one gives it *)
(* an id if it has none and, when the routing key is empty, the name of its *)
(* own queue as routing key, so that every later queue refuses the message; *)
(* a routing key that is not empty is refused by every queue of another     *)
(* name.  Without bp each queue gets a message of its own, without id.      *)
Deliveries(sel, p, n) ==
  LET open   == sel \cap stores
      takers == IF p.rkey = NoKey THEN open ELSE open \cap {p.rkey}
      fresh  == p.id = NoId /\ open # {}
  IN IF p.null THEN {[to |-> open, id |-> NoId, drawn |-> FALSE, seq |-> n]}
     ELSE {[to  |-> t,
            id  |-> IF p.id = NoId THEN n + 1 ELSE p.id,
            drawn |-> p.id = NoId,
            seq |-> IF fresh THEN n + 1 ELSE n]
           : t \in IF takers = {} THEN {{}} ELSE {{q} : q \in takers}}

\* insert() of the delivered message into its queues, and into the files of
\* the durable ones.
IsDurable(q) == queues[q] # NoQueue /\ queues[q].durable

Stored(d, body) ==
  [q \in Queue |-> IF q \in d.to
                   THEN Append(msgs[q], [body |-> body, id |-> d.id, drawn |-> d.drawn])
                   ELSE msgs[q]]

Recorded(d, body) ==
  [q \in Queue |-> IF q \in d.to /\ IsDurable(q)
                   THEN Append(files[q], [body |-> body, id |-> d.id, drawn |-> d.drawn])
                   ELSE files[q]]

\* The ids of the messages in the queues, as clients learn them.
HeldIds == UNION {{msgs[q][k].id : k \in DOMAIN msgs[q]} : q \in Queue}

---------------------------------------------------------------------------
Init ==   \* the constructor on an empty base directory
  /\ exchanges = [x \in Exchange |-> IF x = DefaultEx THEN "DIRECT" ELSE "none"]
  /\ queues = [q \in Queue |-> NoQueue]
  /\ stores = {}
  /\ msgs = [q \in Queue |-> <<>>]
  /\ files = [q \in Queue |-> <<>>]
  /\ bindings = [x \in Exchange |-> [q \in Queue |-> Unbound]]
  /\ seq = 0 /\ published = 0 /\ restarted = FALSE

DeclareExchange(x, t) ==
  /\ exchanges[x] = "none"
  /\ exchanges' = [exchanges EXCEPT ![x] = t]
  /\ UNCHANGED <<queues, stores, msgs, files, bindings, seq, published, restarted>>

DeleteExchange(x) ==
  /\ exchanges' = [exchanges EXCEPT ![x] = "none"]
  /\ bindings' = [bindings EXCEPT ![x] = [q \in Queue |-> Unbound]]
  /\ UNCHANGED <<queues, stores, msgs, files, seq, published, restarted>>

\* bind() without its test that the queue exists, which its callers ensure.
WithBinding(x, q, k) ==
  IF exchanges[x] = "none" THEN bindings ELSE [bindings EXCEPT ![x][q] = k]

\* What both declarations do: register the queue unless it exists, and open
\* its store, recovering its file if this declaration is durable.
OpenQueue(q, d, dlx, dlrk) ==
  /\ queues' = IF queues[q] # NoQueue THEN queues
               ELSE [queues EXCEPT ![q] = [durable |-> d, dlx |-> dlx, dlrk |-> dlrk]]
  /\ stores' = stores \cup {q}
  /\ \E s \in IF q \in stores THEN {msgs[q]}
              ELSE IF d THEN Subsequences(files[q]) ELSE {<<>>} :
       msgs' = [msgs EXCEPT ![q] = s]

DeclareQueue(q, d) ==
  /\ OpenQueue(q, d, DefaultEx, NoKey)
  /\ bindings' = WithBinding(DefaultEx, q, q)
  /\ UNCHANGED <<exchanges, files, seq, published, restarted>>

DeclareQueueWithDlq(q, d, dlx, dlrk) ==
  /\ OpenQueue(q, d, dlx, dlrk)
  /\ UNCHANGED <<exchanges, files, bindings, seq, published, restarted>>

\* Seeded fault: the bindings of a deleted queue stay.
DeleteQueueOnly(q) ==
  /\ queues' = [queues EXCEPT ![q] = NoQueue]
  /\ stores' = stores \ {q}
  /\ msgs' = [msgs EXCEPT ![q] = <<>>]
  /\ UNCHANGED <<exchanges, files, bindings, seq, published, restarted>>

DeleteQueue(q) ==
  /\ queues' = [queues EXCEPT ![q] = NoQueue]
  /\ stores' = stores \ {q}
  /\ msgs' = [msgs EXCEPT ![q] = <<>>]
  /\ bindings' = [x \in Exchange |-> [bindings[x] EXCEPT ![q] = Unbound]]
  /\ UNCHANGED <<exchanges, files, seq, published, restarted>>

Bind(x, q, k) ==
  /\ exchanges[x] # "none" /\ queues[q] # NoQueue
  /\ bindings' = WithBinding(x, q, k)
  /\ UNCHANGED <<exchanges, queues, stores, msgs, files, seq, published, restarted>>

Unbind(x, q) ==
  /\ bindings' = [bindings EXCEPT ![x][q] = Unbound]
  /\ UNCHANGED <<exchanges, queues, stores, msgs, files, seq, published, restarted>>

\* publish_to_exchange.
Publish(x, p) ==
  /\ published < MaxPublish
  /\ exchanges[x] # "none"
  /\ published' = published + 1
  /\ \E sel \in Selections(x, IF p.null THEN NoKey ELSE p.rkey) :
       \E d \in Deliveries(sel, p, seq) :
         /\ msgs' = Stored(d, published')
         /\ files' = Recorded(d, published')
         /\ seq' = d.seq
  /\ UNCHANGED admin

\* publish_ex: one bp for all queues, never refused and given no id.
PublishEx(x, k, p) ==
  LET rkey == IF p.null \/ p.rkey = NoKey THEN k ELSE p.rkey
      d == [to    |-> Matching(x, rkey) \cap stores,
            id    |-> IF p.null THEN NoId ELSE p.id,
            drawn |-> FALSE]
  IN /\ published < MaxPublish
     /\ exchanges[x] # "none"
     /\ published' = published + 1
     /\ msgs' = Stored(d, published')
     /\ files' = Recorded(d, published')
     /\ UNCHANGED seq /\ UNCHANGED admin

\* basic_consume and basic_consume_and_remove: the front is handed out and
\* remove() is called with its id.
Consume(q) ==
  /\ q \in stores /\ msgs[q] # <<>>
  /\ \E s \in AfterRemove(msgs[q], msgs[q][1].id) : msgs' = [msgs EXCEPT ![q] = s]
  /\ UNCHANGED <<files, seq, published>> /\ UNCHANGED admin

\* basic_query, "pull" in the client: the first queue that is not empty, in
\* the order of a hash table.
Query == \E q \in Queue : Consume(q)

Ack(q, id) ==
  /\ q \in stores
  /\ \E s \in AfterRemove(msgs[q], id) : msgs' = [msgs EXCEPT ![q] = s]
  /\ UNCHANGED <<files, seq, published>> /\ UNCHANGED admin

\* basic_nack without requeue, on a queue without dead letter exchange.
Reject(q, id) ==
  /\ q \in stores /\ queues[q] # NoQueue
  /\ queues[q].dlx = DefaultEx
  /\ \E s \in AfterRemove(msgs[q], id) : msgs' = [msgs EXCEPT ![q] = s]
  /\ UNCHANGED <<files, seq, published>> /\ UNCHANGED admin

\* The message a nack finds by its id, the empty id included.
Target(s, id) == {k \in DOMAIN s : s[k].id = id /\ \A j \in 1..(k - 1) : s[j].id # id}

DeadLetterDeliveries(c) ==
  LET p == [null |-> FALSE, id |-> seq + 1, rkey |-> c.dlrk]
      sels == IF exchanges[c.dlx] = "none" THEN {{}} ELSE Selections(c.dlx, c.dlrk)
  IN {[d EXCEPT !.drawn = TRUE] : d \in UNION {Deliveries(sel, p, seq + 1) : sel \in sels}}

\* Seeded fault: the body of the front, which the code fetches first.
DeadLetterFront(q, id) ==
  /\ q \in stores /\ queues[q] # NoQueue
  /\ queues[q].dlx # DefaultEx
  /\ published < MaxPublish
  /\ Target(msgs[q], id) # {}
  /\ \E d \in DeadLetterDeliveries(queues[q]) :
       LET after == Stored(d, msgs[q][1].body) IN
       /\ files' = Recorded(d, msgs[q][1].body)
       /\ \E s \in AfterRemove(after[q], id) : msgs' = [after EXCEPT ![q] = s]
  /\ seq' = seq + 1
  /\ published' = published + 1
  /\ UNCHANGED admin

\* basic_nack without requeue, on a queue with one: a message with the body
\* of the target is published to it, whatever comes of that, and remove(id)
\* is called on the queue.
DeadLetter(q, id) ==
  /\ q \in stores /\ queues[q] # NoQueue
  /\ queues[q].dlx # DefaultEx
  /\ published < MaxPublish
  /\ \E k \in Target(msgs[q], id), d \in DeadLetterDeliveries(queues[q]) :
       LET after == Stored(d, msgs[q][k].body) IN
       /\ files' = Recorded(d, msgs[q][k].body)
       /\ \E s \in AfterRemove(after[q], id) : msgs' = [after EXCEPT ![q] = s]
  /\ seq' = seq + 1
  /\ published' = published + 1
  /\ UNCHANGED admin

\* The broker process ends and starts again.  The queue mapper restores no
\* queue, so that the constructor opens no store; the counter starts over.
Restart ==
  /\ \E kept \in SUBSET {x \in Exchange : exchanges[x] # "none"} :
       exchanges' = [x \in Exchange |-> IF x \in kept THEN exchanges[x]
                                        ELSE IF x = DefaultEx THEN "DIRECT" ELSE "none"]
  /\ queues' = [q \in Queue |-> NoQueue]
  /\ stores' = {}
  /\ msgs' = [q \in Queue |-> <<>>]
  /\ bindings' = [x \in Exchange |-> [q \in Queue |-> Unbound]]
  /\ seq' = 0
  /\ restarted' = TRUE
  /\ UNCHANGED <<files, published>>

Next ==
  \/ \E r \in ExchangeRequests : DeclareExchange(r[1], r[2])
  \/ \E x \in Exchange : DeleteExchange(x)
  \/ \E r \in QueueRequests : DeclareQueue(r[1], r[2])
  \/ \E r \in DlqRequests : DeclareQueueWithDlq(r[1], r[2], r[3], r[4])
  \/ \E q \in Queue : DeleteQueue(q) \/ Consume(q)
  \/ Query
  \/ \E r \in BindRequests : Bind(r[1], r[2], r[3])
  \/ \E x \in Exchange, q \in Queue : Unbind(x, q)
  \/ \E r \in Publications : Publish(r[1], r[2])
  \/ \E r \in Publications, k \in Key : PublishEx(r[1], k, r[2])
  \/ \E q \in Queue, id \in {NoId} \cup HeldIds :
       Ack(q, id) \/ Reject(q, id) \/ DeadLetter(q, id)
  \/ Restart

Spec == Init /\ [][Next]_vars

---------------------------------------------------------------------------
(* The state of the broker is well formed. *)
TypeOK ==
  /\ exchanges \in [Exchange -> Types \cup {"none"}]
  /\ queues \in [Queue -> Config \cup {NoQueue}]
  /\ stores \subseteq Queue
  /\ msgs \in [Queue -> Seq(Message)]
  /\ files \in [Queue -> Seq(Message)]
  /\ bindings \in [Exchange -> [Queue -> Key \cup {Unbound}]]
  /\ seq \in Nat /\ published \in Nat /\ seq <= published
  /\ restarted \in BOOLEAN

(* The three tables of the broker agree, after any sequence of declares,    *)
(* binds, deletes and restarts: a queue has a store exactly when it is      *)
(* declared, a queue without a store holds nothing, and a binding joins an  *)
(* exchange and a queue that both exist, so that a queue declared again     *)
(* under an old name inherits no binding.                                   *)
Integrity ==
  /\ \A q \in Queue : q \in stores <=> queues[q] # NoQueue
  /\ \A q \in Queue \ stores : msgs[q] = <<>>
  /\ \A x \in Exchange, q \in Queue :
       bindings[x][q] # Unbound => exchanges[x] # "none" /\ queues[q] # NoQueue

\* No two places in any two queues hold messages with the same generated id.
DrawnOnce ==
  \A q, r \in Queue : \A i \in DOMAIN msgs[q], j \in DOMAIN msgs[r] :
    /\ msgs[q][i].drawn /\ msgs[r][j].drawn
    /\ msgs[q][i].id = msgs[r][j].id
    => q = r /\ i = j

(* Until the process restarts generate_id gives no two messages one id,     *)
(* whatever is published, rejected, deleted and declared again: dead        *)
(* letters and messages that a declaration recovered included.  A client    *)
(* may still choose one of these ids for a message of its own.              *)
UniqueIds == ~restarted => DrawnOnce

\* A nack of q with this id moves one message: whatever arrives in another
\* queue has the body of the message that leaves this one, which had the id.
MovesOne(q, id) ==
  \E k \in DOMAIN msgs[q] :
    /\ msgs[q][k].id = id
    /\ \A r \in Queue \ {q} : msgs'[r] # msgs[r] =>
         /\ msgs'[q] = RemoveAt(msgs[q], k)
         /\ msgs'[r][Len(msgs'[r])].body = msgs[q][k].body

(* With an id, a nack moves one message, although it looks its target up in *)
(* a copy of the queue and remove() then looks for the id again, which      *)
(* other messages may carry.                                                *)
NackIsAMove ==
  [][\A q \in Queue, id \in HeldIds \ {NoId} : DeadLetter(q, id) => MovesOne(q, id)]_vars

(* What the documents promise and the code does not keep. *)

(* A rejected message is in the queues its dead letter exchange selects. *)
DeadLetterArrives ==
  [][\A q \in Queue, id \in HeldIds : DeadLetter(q, id) =>
       \A r \in Queue \ {q} :
         /\ exchanges[queues[q].dlx] \in {"DIRECT", "FANOUT", "TOPIC"}
         /\ r \in Matching(queues[q].dlx, queues[q].dlrk)
         => Len(msgs'[r]) = Len(msgs[r]) + 1]_vars

===========================================================================
