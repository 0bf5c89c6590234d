------------------------------ MODULE Sessions ------------------------------
(***************************************************************************)
(* What the broker keeps for its clients: the connections of               *)
(* connection_manager (src/src/server/connection.cpp), the channels each   *)
(* opened (channel.cpp), and the consumers that channels subscribed to     *)
(* queues (consumer.cpp), all driven by the requests BrokerServer          *)
(* dispatches (broker_server.cpp).  One event loop serves every            *)
(* connection, so a request is one step; a connection may go at any time.  *)
(* When it goes is the subject of Heartbeat, and what consumers are given  *)
(* that of Delivery.                                                       *)
(***************************************************************************)
EXTENDS Integers, FiniteSets

CONSTANTS
  Conn,    \* TCP connections, each made once
  Cid,     \* channel ids, chosen by clients, used again after a close
  Queue,   \* queue names
  Tag,     \* consumer tags, chosen by clients
  Name,    \* the consumers clients ask for: <<queue, tag>>
  Nobody   \* the null __consumer of a channel

ASSUME SessionsAssumption == Name \subseteq Queue \X Tag /\ Nobody \notin Name

VARIABLES
  conns,    \* __conns: the connections that are up
  made,     \* connections made so far
  open,     \* the channels that are open: <<connection, cid>>
  held,     \* the __consumer of each, of which only queue and tag are used
  queues,   \* the declared queues; each has its queue_consumer
  subs,     \* the consumers; live: its channel exists still, forgotten: that
            \*   was told to consume once more (both are history)
  lost      \* history: <<queue, tag>> cancelled, or deleted with the queue

vars == <<conns, made, open, held, queues, subs, lost>>

Channel == Conn \X Cid
Consumer == [name : Name, channel : Channel, live : BOOLEAN, forgotten : BOOLEAN]
Taken   == {s.name : s \in subs}

---------------------------------------------------------------------------
Init ==
  /\ conns = {} /\ made = {} /\ open = {} /\ queues = {} /\ subs = {} /\ lost = {}
  /\ held = [ch \in Channel |-> Nobody]

\* Seeded fault: the channel goes, its consumer stays.
DestroyOnly(C) ==
  /\ open' = open \ C
  /\ held' = [ch \in Channel |-> IF ch \in C THEN Nobody ELSE held[ch]]
  /\ subs' = {[s EXCEPT !.live = @ /\ s.channel \notin C] : s \in subs}

\* ~channel of the channels C: each removes the name it holds from the
\* consumers, whoever has that name by now.
Destroy(C) ==
  /\ open' = open \ C
  /\ held' = [ch \in Channel |-> IF ch \in C THEN Nobody ELSE held[ch]]
  /\ subs' = {[s EXCEPT !.live = @ /\ s.channel \notin C] :
                s \in {x \in subs : \A ch \in C : held[ch] # x.name}}

(* onConnection: new_connection, delete_connection with its channels. *)

Connect(k) ==
  /\ k \notin made
  /\ made' = made \cup {k} /\ conns' = conns \cup {k}
  /\ UNCHANGED <<open, held, queues, subs, lost>>

\* Seeded fault: the channels of the connection are not destroyed.
DisconnectOnly(k) ==
  /\ k \in conns
  /\ conns' = conns \ {k}
  /\ UNCHANGED <<made, open, held, queues, subs, lost>>

Disconnect(k) ==
  /\ k \in conns
  /\ conns' = conns \ {k}
  /\ Destroy({ch \in open : ch[1] = k})
  /\ UNCHANGED <<made, queues, lost>>

(* Requests.  One for a channel that is not open changes nothing. *)

OpenChannel(k, c) ==
  /\ k \in conns /\ <<k, c>> \notin open
  /\ open' = open \cup {<<k, c>>}
  /\ UNCHANGED <<conns, made, held, queues, subs, lost>>

CloseChannel(ch) ==
  /\ ch \in open
  /\ Destroy({ch})
  /\ UNCHANGED <<conns, made, queues, lost>>

DeclareQueue(ch, q) ==
  /\ ch \in open
  /\ queues' = queues \cup {q}
  /\ UNCHANGED <<conns, made, open, held, subs, lost>>

DeleteQueue(ch, q) ==
  /\ ch \in open
  /\ queues' = queues \ {q}
  /\ subs' = {s \in subs : s.name[1] # q}
  /\ lost' = lost \cup {n \in Taken : n[1] = q}
  /\ UNCHANGED <<conns, made, open, held>>

\* The channel ch is told to consume again: it forgets what it held.
Forgetting(ch) == {[s EXCEPT !.forgotten = @ \/ (s.live /\ s.channel = ch)] : s \in subs}

New(n, ch) == [name |-> n, channel |-> ch, live |-> TRUE, forgotten |-> FALSE]

\* Seeded faults: a channel whose request is refused holds the name it
\* asked for; a tag may be given twice.
ConsumeOrRemember(ch, n) ==
  /\ ch \in open /\ n[1] \in queues
  /\ subs' = Forgetting(ch) \cup (IF n \in Taken THEN {} ELSE {New(n, ch)})
  /\ held' = [held EXCEPT ![ch] = n]
  /\ UNCHANGED <<conns, made, open, queues, lost>>

ConsumeTwice(ch, n) ==
  /\ ch \in open /\ n[1] \in queues
  /\ subs' = Forgetting(ch) \cup {New(n, ch)}
  /\ held' = [held EXCEPT ![ch] = n]
  /\ UNCHANGED <<conns, made, open, queues, lost>>

\* basic_consume: the channel holds its last consumer, and none when the
\* tag is taken.
Consume(ch, n) ==
  /\ ch \in open /\ n[1] \in queues
  /\ subs' = Forgetting(ch) \cup (IF n \in Taken THEN {} ELSE {New(n, ch)})
  /\ held' = [held EXCEPT ![ch] = IF n \in Taken THEN Nobody ELSE n]
  /\ UNCHANGED <<conns, made, open, queues, lost>>

\* basic_cancel: any channel, any name; who holds the name is not told.
Cancel(ch, n) ==
  /\ ch \in open
  /\ subs' = {s \in subs : s.name # n}
  /\ lost' = lost \cup (Taken \cap {n})
  /\ UNCHANGED <<conns, made, open, held, queues>>

Next ==
  \/ \E k \in Conn : Connect(k) \/ Disconnect(k) \/ \E c \in Cid : OpenChannel(k, c)
  \/ \E ch \in Channel :
       \/ CloseChannel(ch)
       \/ \E q \in Queue : DeclareQueue(ch, q) \/ DeleteQueue(ch, q)
       \/ \E n \in Name : Consume(ch, n) \/ Cancel(ch, n)

Spec == Init /\ [][Next]_vars

---------------------------------------------------------------------------
(* The state is well formed: open channels are those of connections that   *)
(* are up, and only they hold consumers.                                   *)
TypeOK ==
  /\ conns \subseteq made /\ made \subseteq Conn
  /\ open \subseteq conns \X Cid
  /\ held \in [Channel -> Name \cup {Nobody}]
  /\ \A ch \in Channel : held[ch] # Nobody => ch \in open
  /\ queues \subseteq Queue /\ subs \subseteq Consumer /\ lost \subseteq Name

(* Between requests the consumers of a queue that is not declared are      *)
(* gone, and a name means one consumer, though names are removed and taken *)
(* again by other channels and connections.                                *)
NamesAreUnique ==
  /\ \A s \in subs : s.name[1] \in queues
  /\ \A s, t \in subs : s.name = t.name => s = t

(* A channel that was told to consume when it did already may leave a      *)
(* consumer behind, with a callback into the channel; no other does,       *)
(* whatever was refused, cancelled, deleted or declared again meanwhile.   *)
ChannelsTakeTheirs == \A s \in subs : s.live \/ s.forgotten

(* The end of a channel or connection costs no other channel its consumer: *)
(* it removes a name, and that can be another's only if its own was lost   *)
(* before to a cancel, of whichever client, or with the queue.             *)
OthersKeepTheirs ==
  [][\A s \in subs : s.live /\ s.channel \in open' /\ s.name \notin lost' =>
       \E t \in subs' : t.name = s.name /\ t.channel = s.channel /\ t.live]_vars

(* What the documents promise and the code does not keep: a client that is *)
(* gone, or closed its channel, leaves no consumer behind.                 *)
NoConsumerOutlivesItsChannel == \A s \in subs : s.live

===========================================================================
