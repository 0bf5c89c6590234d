------------------------------ MODULE Delivery ------------------------------
(***************************************************************************)
(* One queue and those who take from it: the channels of clients           *)
(* (src/src/server/channel.cpp), the consumers subscribed to the queue     *)
(* (consumer.cpp) and the tasks that run channel::consume on the threads   *)
(* of the pool.  The event loop runs one request at a time; the workers    *)
(* run beside it.  A connection that is lost closes its channels, one      *)
(* after the other: whose channels they are is the subject of Sessions.    *)
(*                                                                         *)
(* Nothing locks the messages of a queue.  A step here is one call on      *)
(* them, front() or remove(): what two calls at the same instant do to the *)
(* deque is undefined and left out.  So is a crash when a callback finds   *)
(* its channel destroyed: the message is then sent or not.                 *)
(***************************************************************************)
EXTENDS Integers, SequencesExt

CONSTANTS
  Worker,       \* threads of the pool
  Channel,      \* channels, each opened once
  Tag,          \* consumer tags, chosen by clients
  Subscriptions, \* what clients ask for: <<tag, auto_ack>>
  Msg, IdOf,    \* messages, each arriving once, and their ids
  NoId, NoTag, NoMsg, NoConsumer,
  MaxTasks      \* bound: consume tasks waiting in the pool

ASSUME DeliveryAssumption ==
  /\ NoTag \notin Tag /\ NoMsg \notin Msg
  /\ Subscriptions \subseteq Tag \X BOOLEAN
  /\ MaxTasks \in Nat

\* class consumer; its callback belongs to the channel.
Consumer == [tag : Tag, channel : Channel, auto : BOOLEAN]
ASSUME NoConsumerAssumption == NoConsumer \notin Consumer

VARIABLES
  channels,   \* each channel: "new", "open", "closed"
  held,       \* channel::__consumer, of which only the tag is used
  loop,       \* the handler the event loop is in: "declare", "delete",
              \*   "publish" of a message for the queue, or "idle"
  store,      \* the virtual host has the queue
  msgs,       \* its messages, oldest first
  group,      \* the consumer manager has the queue's queue_consumer
  consumers,  \* its __consumers
  rr,         \* its __rr_index
  tasks,      \* consume tasks waiting in the pool
  pc, msg, consumer, \* each worker: where it is in consume(), and its locals
  entered, done, \* history, of messages: put in the queue; given to a
              \*   callback, or removed from the queue for a client
  unserved,   \* history: messages that a worker had taken, at a moment when the
              \*   queue had no consumer
  taskless,   \* history: a message came without task, or took the task of another
  turns       \* history: how often each consumer was chosen since the last
              \*   change of the consumers

clients == <<channels, held>>
queue   == <<loop, store>>
chosen  == <<group, consumers, rr, turns, unserved>>
workers == <<pc, msg, consumer>>
past    == <<entered, done, taskless>>
vars == <<clients, queue, msgs, chosen, tasks, workers, past>>

---------------------------------------------------------------------------
(* remove(id): the front for the empty id, else the first with that id. *)
Removed(s, id) ==
  LET hits == {k \in DOMAIN s : IF id = NoId THEN k = 1 ELSE IdOf[s[k]] = id}
  IN IF hits = {} THEN s
     ELSE RemoveAt(s, CHOOSE k \in hits : \A j \in hits : k <= j)

Served(c) == channels[c] = "open" /\ loop = "idle"

Tags  == {consumers[i].tag : i \in DOMAIN consumers}
Hands == {msg[w] : w \in Worker}

\* Messages that are out of the queue while their consumer is not chosen yet.
Undecided == {msg[w] : w \in {v \in Worker : pc[v] = "taken"}}

\* The consumers become s; rr is left alone.
SetConsumers(s) ==
  /\ consumers' = s
  /\ turns' = [i \in DOMAIN s |-> 0]
  /\ unserved' = IF s = <<>> THEN unserved \cup Undecided ELSE unserved

\* consumer_manager::remove: the first consumer with the tag.
RemoveConsumer(tag) ==
  \/ /\ group
     /\ \E k \in DOMAIN consumers :
          /\ consumers[k].tag = tag
          /\ \A j \in 1..(k - 1) : consumers[j].tag # tag
          /\ SetConsumers(RemoveAt(consumers, k))
     /\ UNCHANGED <<group, rr>>
  \/ ~(group /\ tag \in Tags) /\ UNCHANGED chosen

---------------------------------------------------------------------------
Init ==
  /\ channels = [c \in Channel |-> "new"]
  /\ held = [c \in Channel |-> NoTag]
  /\ loop = "idle" /\ store = FALSE /\ group = FALSE
  /\ msgs = <<>> /\ consumers = <<>> /\ turns = <<>> /\ rr = 0 /\ tasks = 0
  /\ pc = [w \in Worker |-> "idle"]
  /\ msg = [w \in Worker |-> NoMsg]
  /\ consumer = [w \in Worker |-> NoConsumer]
  /\ entered = {} /\ done = {} /\ unserved = {} /\ taskless = FALSE

(* Channels. *)

OpenChannel(c) ==
  /\ channels[c] = "new" /\ loop = "idle"
  /\ channels' = [channels EXCEPT ![c] = "open"]
  /\ UNCHANGED <<held, queue, msgs, chosen, tasks, workers, past>>

\* close_channel and ~channel.
CloseChannel(c) ==
  /\ Served(c)
  /\ channels' = [channels EXCEPT ![c] = "closed"]
  /\ held' = [held EXCEPT ![c] = NoTag]
  /\ IF held[c] = NoTag THEN UNCHANGED chosen ELSE RemoveConsumer(held[c])
  /\ UNCHANGED <<queue, msgs, tasks, workers, past>>

(* Requests on a channel. *)

\* Seeded fault: a tag may be used twice.
SubscribeAgain(c, tag, auto) ==
  /\ Served(c) /\ store
  /\ IF group
     THEN /\ SetConsumers(Append(consumers, [tag |-> tag, channel |-> c, auto |-> auto]))
          /\ UNCHANGED <<group, rr>>
          /\ held' = [held EXCEPT ![c] = tag]
     ELSE UNCHANGED chosen /\ held' = [held EXCEPT ![c] = NoTag]
  /\ UNCHANGED <<channels, queue, msgs, tasks, workers, past>>

\* basic_consume of the channel: the channel keeps only its last consumer,
\* and none when the tag is taken.
Subscribe(c, tag, auto) ==
  /\ Served(c) /\ store
  /\ IF group /\ tag \notin Tags
     THEN /\ SetConsumers(Append(consumers, [tag |-> tag, channel |-> c, auto |-> auto]))
          /\ UNCHANGED <<group, rr>>
          /\ held' = [held EXCEPT ![c] = tag]
     ELSE UNCHANGED chosen /\ held' = [held EXCEPT ![c] = NoTag]
  /\ UNCHANGED <<channels, queue, msgs, tasks, workers, past>>

\* basic_cancel, of any tag; the channel keeps its consumer.
Cancel(c, tag) ==
  /\ Served(c) /\ RemoveConsumer(tag)
  /\ UNCHANGED <<clients, queue, msgs, tasks, workers, past>>

\* declare_queue, in two calls.
Declare(c) ==
  /\ Served(c)
  /\ store' = TRUE /\ loop' = "declare"
  /\ UNCHANGED <<clients, msgs, chosen, tasks, workers, past>>

InitQueueConsumer ==
  /\ loop = "declare"
  /\ loop' = "idle" /\ group' = TRUE
  /\ IF group THEN UNCHANGED <<consumers, rr, turns, unserved>>
     ELSE SetConsumers(<<>>) /\ rr' = 0
  /\ UNCHANGED <<clients, store, msgs, tasks, workers, past>>

\* delete_queue, in two calls.
DestroyQueueConsumer(c) ==
  /\ Served(c)
  /\ loop' = "delete" /\ group' = FALSE
  /\ SetConsumers(<<>>) /\ rr' = 0
  /\ UNCHANGED <<clients, store, msgs, tasks, workers, past>>

DeleteQueue ==
  /\ loop = "delete"
  /\ loop' = "idle" /\ store' = FALSE /\ msgs' = <<>>
  /\ done' = done \cup ToSet(msgs)
  /\ UNCHANGED <<clients, chosen, tasks, workers, entered, taskless>>

\* basic_publish to an exchange the queue is bound to.  The message is in the
\* queue before its task is in the pool.
Publish(c, m) ==   \* publish_to_exchange
  /\ Served(c) /\ store /\ m \notin entered /\ tasks < MaxTasks
  /\ loop' = "publish"
  /\ msgs' = Append(msgs, m)
  /\ entered' = entered \cup {m}
  /\ UNCHANGED <<clients, store, chosen, tasks, workers, done, taskless>>

\* Seeded fault: a task is pushed only for a queue that was empty.
PushTaskIfAlone ==
  /\ loop = "publish"
  /\ loop' = "idle"
  /\ tasks' = IF Len(msgs) > 1 THEN tasks ELSE tasks + 1
  /\ UNCHANGED <<clients, store, msgs, chosen, workers, past>>

PushTask ==   \* the loop over the bindings
  /\ loop = "publish"
  /\ loop' = "idle"
  /\ tasks' = tasks + 1
  /\ UNCHANGED <<clients, store, msgs, chosen, workers, past>>

\* A task is pushed for each binding of the exchange, whichever queues took
\* the message: here, for one that this queue did not take.
PublishPast(c) ==
  /\ Served(c) /\ store /\ tasks < MaxTasks
  /\ tasks' = tasks + 1
  /\ UNCHANGED <<clients, queue, msgs, chosen, workers, past>>

\* A dead letter of another queue, or a recovered message: no task.
Arrive(c, m) ==
  /\ Served(c) /\ store /\ m \notin entered
  /\ msgs' = Append(msgs, m)
  /\ entered' = entered \cup {m}
  /\ taskless' = TRUE
  /\ UNCHANGED <<clients, queue, chosen, tasks, workers, done>>

\* basic_ack, and basic_nack without requeue, of a message in the queue.
Ack(c, m) ==
  /\ Served(c) /\ store /\ m \in ToSet(msgs)
  /\ msgs' = Removed(msgs, IdOf[m])
  /\ done' = done \cup (ToSet(msgs) \ ToSet(msgs'))
  /\ UNCHANGED <<clients, queue, chosen, tasks, workers, entered, taskless>>

(* channel::consume on worker w.  A task that finds no message just ends. *)

TakeFront(w) ==   \* front() of basic_consume
  /\ pc[w] = "idle" /\ tasks > 0
  /\ tasks' = tasks - 1
  /\ IF store /\ msgs # <<>>
     THEN /\ pc' = [pc EXCEPT ![w] = "front"]
          /\ msg' = [msg EXCEPT ![w] = Head(msgs)]
          /\ taskless' = (taskless \/ Head(msgs) \in Hands)
     ELSE UNCHANGED <<pc, msg, taskless>>
  /\ UNCHANGED <<clients, queue, msgs, chosen, consumer, entered, done>>

\* Seeded fault: the front is popped, whatever it is by now.
RemoveHead(w) ==
  /\ pc[w] = "front"
  /\ msgs' = IF msgs = <<>> THEN msgs ELSE Tail(msgs)
  /\ pc' = [pc EXCEPT ![w] = "taken"]
  /\ unserved' = IF consumers = <<>> THEN unserved \cup {msg[w]} ELSE unserved
  /\ UNCHANGED <<clients, queue, group, consumers, rr, turns, tasks, msg, consumer, past>>

RemoveTaken(w) ==   \* remove() of basic_consume
  /\ pc[w] = "front"
  /\ msgs' = Removed(msgs, IdOf[msg[w]])
  /\ pc' = [pc EXCEPT ![w] = "taken"]
  /\ unserved' = IF consumers = <<>> THEN unserved \cup {msg[w]} ELSE unserved
  /\ UNCHANGED <<clients, queue, group, consumers, rr, turns, tasks, msg, consumer, past>>

\* choose() when the queue has no consumers: the message is let go.
ChooseNone(w) ==
  /\ pc[w] = "taken" /\ (~group \/ consumers = <<>>)
  /\ pc' = [pc EXCEPT ![w] = "idle"]
  /\ msg' = [msg EXCEPT ![w] = NoMsg]
  /\ UNCHANGED <<clients, queue, msgs, chosen, tasks, consumer, past>>

\* Seeded fault: the index is not advanced.
ChooseSame(w) ==
  LET i == (rr % Len(consumers)) + 1 IN
  /\ pc[w] = "taken" /\ group /\ consumers # <<>>
  /\ pc' = [pc EXCEPT ![w] = "chosen"]
  /\ consumer' = [consumer EXCEPT ![w] = consumers[i]]
  /\ turns' = [turns EXCEPT ![i] = @ + 1]
  /\ UNCHANGED <<clients, queue, msgs, group, consumers, rr, unserved, tasks, msg, past>>

Choose(w) ==   \* rr_choose
  LET i == (rr % Len(consumers)) + 1 IN
  /\ pc[w] = "taken" /\ group /\ consumers # <<>>
  /\ pc' = [pc EXCEPT ![w] = "chosen"]
  /\ consumer' = [consumer EXCEPT ![w] = consumers[i]]
  /\ rr' = (rr + 1) % Len(consumers)
  /\ turns' = [turns EXCEPT ![i] = @ + 1]
  /\ UNCHANGED <<clients, queue, msgs, group, consumers, unserved, tasks, msg, past>>

\* Seeded fault: auto_ack is not looked at, and the locals live on.
DeliverOnly(w) ==
  /\ pc[w] = "chosen"
  /\ done' = done \cup {msg[w]}
  /\ pc' = [pc EXCEPT ![w] = "idle"]
  /\ UNCHANGED <<clients, queue, msgs, chosen, tasks, msg, consumer, entered, taskless>>

\* The callback: consume_cb sends the message to the client.
Deliver(w) ==
  /\ pc[w] = "chosen"
  /\ done' = done \cup {msg[w]}
  /\ IF consumer[w].auto
     THEN pc' = [pc EXCEPT ![w] = "ack"] /\ UNCHANGED <<msg, consumer>>
     ELSE /\ pc' = [pc EXCEPT ![w] = "idle"]
          /\ msg' = [msg EXCEPT ![w] = NoMsg]
          /\ consumer' = [consumer EXCEPT ![w] = NoConsumer]
  /\ UNCHANGED <<clients, queue, msgs, chosen, tasks, entered, taskless>>

AutoAck(w) ==
  /\ pc[w] = "ack"
  /\ msgs' = IF store THEN Removed(msgs, IdOf[msg[w]]) ELSE msgs
  /\ pc' = [pc EXCEPT ![w] = "idle"]
  /\ msg' = [msg EXCEPT ![w] = NoMsg]
  /\ consumer' = [consumer EXCEPT ![w] = NoConsumer]
  /\ UNCHANGED <<clients, queue, chosen, tasks, past>>

Next ==
  \/ \E c \in Channel :
       \/ OpenChannel(c) \/ CloseChannel(c)
       \/ \E r \in Subscriptions : Subscribe(c, r[1], r[2])
       \/ \E tag \in Tag : Cancel(c, tag)
       \/ Declare(c) \/ DestroyQueueConsumer(c) \/ PublishPast(c)
       \/ \E m \in Msg : Publish(c, m) \/ Arrive(c, m) \/ Ack(c, m)
  \/ InitQueueConsumer \/ DeleteQueue \/ PushTask
  \/ \E w \in Worker :
       TakeFront(w) \/ RemoveTaken(w) \/ ChooseNone(w) \/ Choose(w) \/ Deliver(w) \/ AutoAck(w)

Spec == Init /\ [][Next]_vars

---------------------------------------------------------------------------
(* The state of the queue, its consumers and the workers is well formed. *)
TypeOK ==
  /\ channels \in [Channel -> {"new", "open", "closed"}]
  /\ held \in [Channel -> Tag \cup {NoTag}]
  /\ loop \in {"idle", "declare", "delete", "publish"} /\ store \in BOOLEAN /\ group \in BOOLEAN
  /\ msgs \in Seq(Msg) /\ consumers \in Seq(Consumer)
  /\ rr \in Nat /\ tasks \in 0..MaxTasks
  /\ pc \in [Worker -> {"idle", "front", "taken", "chosen", "ack"}]
  /\ msg \in [Worker -> Msg \cup {NoMsg}]
  /\ consumer \in [Worker -> Consumer \cup {NoConsumer}]
  /\ \A w \in Worker : (pc[w] = "idle") <=> (msg[w] = NoMsg)
  /\ \A w \in Worker : IF pc[w] \in {"chosen", "ack"} THEN consumer[w] \in Consumer
                       ELSE consumer[w] = NoConsumer
  /\ entered \subseteq Msg /\ done \cup unserved \subseteq entered
  /\ turns \in [DOMAIN consumers -> Nat]
  /\ taskless \in BOOLEAN

HasUniqueIds ==
  \A m, n \in entered : IdOf[m] # NoId /\ (IdOf[m] = IdOf[n] => m = n)

(* However the workers' calls interleave with each other and with requests, *)
(* a message gets lost only where the queue has no consumer for it.  When   *)
(* all have ids of their own, each one is in the queue, in the hands of a   *)
(* worker, was given to a callback, was removed for a client, or was out of *)
(* the queue with a worker at a moment without any consumer.  Two workers   *)
(* may take the same front; neither then removes the message behind it.     *)
NoneVanishes ==
  HasUniqueIds =>
    entered \subseteq ToSet(msgs) \cup Hands \cup done \cup unserved

(* While the consumers of a queue stay the same each gets its share: the    *)
(* round robin starts anywhere, after any removals, and from there no       *)
(* consumer is chosen twice more often than another.                        *)
FairShare == \A i, j \in DOMAIN turns : turns[i] - turns[j] <= 1

(* Between two requests the virtual host and the consumer manager know the  *)
(* same queue, a queue without manager has no consumer, and no two          *)
(* consumers of a queue answer to one tag, which is how they are removed.   *)
Registered ==
  /\ loop \in {"idle", "publish"} => (store <=> group)
  /\ ~group => consumers = <<>>
  /\ \A i, j \in DOMAIN consumers : consumers[i].tag = consumers[j].tag => i = j

(* A message waits for no other publication: for each one in the queue a   *)
(* task is still to run or about to be pushed, unless messages came without *)
(* publication or two workers took the same front, when a task is spent on  *)
(* nothing and a message may stay with consumers idle.                      *)
TasksSuffice ==
  HasUniqueIds /\ ~taskless =>
    Len(msgs) <= tasks + Cardinality({w \in Worker : pc[w] = "front"})
                 + IF loop = "publish" THEN 1 ELSE 0

===========================================================================
