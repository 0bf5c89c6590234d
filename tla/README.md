# A TLA+ model of the mqWORK message broker

mqWORK is a single-node message broker in C++ in the style of AMQP: exchanges
route published messages into queues, consumers subscribe to queues, durable
queues keep their messages in files. This directory holds TLA+ modules
translated from its source, the TLC configurations that check them and proofs
that TLAPS checks. Paths in this file are relative to the repository.

## 1. The system

| Component (source) | State | Operations | What makes it correct |
|---|---|---|---|
| `queue_message` (`src/server/queue_message.hpp`) | `msgs_`, the messages of one queue; the file `<queue>.mqd` and the state of its stream; in each message the offset of its record | constructor, `recovery`, `insert`, `remove`, `get_stats`, `compact` | an offset designates the message's own record; what is waiting in a durable queue survives a crash; order; no message twice |
| `virtual_host` (`src/server/virtual_host.cpp`) | `__queue_messages`, `__exchange_bindings`, the id counter | declare and delete exchanges and queues, bind, unbind, publish, consume, ack, nack, restart | its tables agree; ids are unique; an ack or nack removes the message it names; a dead letter arrives; a deleted queue is gone, a durable one returns after a restart |
| queue manager (`src/common/queue.cpp`) | name to configuration; a mapper that stores nothing | declare (with dead letter configuration), delete, select, exists | redeclaring changes nothing |
| exchange manager (`exchange.hpp`, absent from the repository) | name to type | declare, delete, select, exists | modelled from its use |
| router (`src/server/route.hpp`) | none | `match_route` with the topic matcher | the topic rule of the documents |
| consumer manager (`src/server/consumer.cpp`) | per queue: consumers in order of subscription, round robin index | create, remove, `rr_choose`, init, destroy | each consumer gets its share; a tag is one consumer |
| channel (`src/server/channel.cpp`) | `__consumer`, raw pointers to it in tasks and callbacks | one method per request; `consume` on the pool | no message lost or left behind, with or without consumers; an unacked message is kept; no consumer survives its channel |
| connection, heartbeat (`src/server/connection.cpp`) | connections, their channels, time of last request | new, delete, refresh, `check_timeout` every 5 s for 30 s of silence | a connection's channels and consumers end with it, and only they; silence is noticed, and ends |
| broker server (`src/server/broker_server.cpp`) | owns the others | dispatch: look up connection and channel, refresh, call | requests on unknown connections or channels change nothing |
| thread pool (`src/common/thread_pool.cpp`) | task queue, stop flag, threads | `push`, worker loop, destructor | every accepted task runs, in order; the destructor returns |
| management HTTP (`src/server/management_http.cpp`) | none | `GET stats`, `POST compact` | stats change nothing clients see; compaction loses nothing |
| client (`src/client/client.cpp`) | the connection `g_conn` | commands, a heartbeat every 5 s on a thread of its own | a client that runs is not shut down |

**How they interact.** The muduo event loop thread receives requests; the
broker server finds the channel, which calls the virtual host, the consumer
manager and the pool. `channel::basic_publish` pushes one consume task per
binding of the exchange; a pool thread runs `channel::consume`: take the front
of the queue (`basic_consume` removes it), choose a consumer, call its
callback, which sends, and ack automatically. A timer of the event loop runs
`check_timeout`, which shuts silent connections down. A detached HTTP thread calls
`get_stats` and `compact`. Neither the virtual host's tables nor the messages
of a queue are locked; the file is, by `mtx_`; the consumers, channels,
connections and tasks have mutexes of their own.

**What is hard.** Requests, pool threads and the HTTP thread interleave; the
file and the memory of a store can drift apart, through failed streams, stale
offsets, crashes and the deletion and declaration of a name; one properties
object is handed from queue to queue during routing; consumers come and go
while tasks are under way; a client falls silent in several ways. `PROJECT.json` lists the hazards, each at its line
with the properties that watch it.

**The source as it is.** The commit does not compile as it stands: a letter
is missing before `virtual_host::basic_nack`, `channel::basic_nack` is there
twice, a stray statement stands outside the macro `GET_CONN_CTX`, and the
files of exchanges and messages are absent. The modules model what those
places evidently mean.

## 2. The modules

**QueueStore** is one queue name's store over its whole life. A record of the
file is a slot `[msg, valid, ok]`, an offset is the index of a slot, and `ok`
is FALSE where the length of a record no longer leads to the next one (torn or
overwritten): readers stop there. `good` is the state of the stream. Actions:
`DeclareQueue` (construct and recover), `Insert`, `RemoveById`, `GetStats`,
`Compact`, `DeleteQueue` (the object goes, the file stays; the end of the
process is the same step), `CrashInWrite`. The read that ends `recovery()` sets
failbit and nothing clears it until `get_stats()` or `compact()`; only a file
with a record that cannot be followed may end the loop at bytes that do not parse,
with the stream good. Left out:
errors of `rename` and of opening the temporary file, and the order in which
the operating system writes pages.

**FifoQueue** is the abstract specification the store implements under
`queue <- Payloads(msgs)` and `up <- open`. While the queue is up a message
offered stays until it is taken, one a step, so a `compact()` or `remove()` that
lost another message, or a recovery in the middle of a life, would be no step of
it. None is invented, held twice or overtaken. Only `Close` (deletion, the end
of the process) empties the queue and only `Open` fills it again, with some of
what was ever offered, in its order: messages may then be lost and removed ones
back. It says what survives the code's defects. What a crash brings back
is the subject of `DurableSurvivesCrash` and `CompactedIsCrashSafe`.

**VirtualHost** has exchanges, queues with their dead letter configuration,
bindings and the messages of all queues, one action per operation. The store
of a queue is seen through FifoQueue: declaring a durable queue whose object
is gone may bring back any subsequence of what its file was given. `Deliveries`
is `basic_publish` applied to the selected queues in turn, with the shared
properties object the calls change; since the order of an `unordered_map` is
unspecified, the queue that comes first is a choice. Nack with
`requeue = true` is an early return in the code and so no step.

The ids `generate_id` makes are decimal strings and a client may choose any
string for its message, one of these included. In the model generated ids are
numbers, `ClientId` may contain numbers (`NamesAssumption` keeps only the empty
id out of it), and in `MCVirtualHost` it is `{1}`, the first generated id. The
history field `drawn` of a message tells who chose. `UniqueIds` is about
generated ids among themselves: a client that numbers its messages (as
`test/test_persistence.cpp:69` does) can give two messages one id, and an ack, a
nack or the removal after a delivery then takes whichever comes first.

Consuming removes: `basic_consume` takes the message out when it hands it
out, whatever mode the consumer asked for (the comment at
`virtual_host.cpp:302` calls it automatic acknowledgement). Manual
acknowledgement therefore has no effect on the queue: an ack or nack of a
message that was consumed finds nothing, no dead letter is made of it and nothing
is delivered again. `docs/requirements.md` (lines 96, 113 and 114) and
`test/test_dlq.cpp` (lines 31-45 and 63-72, consume and then nack) say the
opposite. `Consume`, `Ack` and `DeadLetter` model the code, and no property here
states the documents' side; in Delivery a message counts as done when a callback
has it.

**Route** has `match_route` and the topic rule of the documents (`TopicRule`)
over keys as sequences of segments; **RouteLoop** runs the two loops of the
matcher, an iteration a step, with their early returns. Keys that end with a
dot, for which the walk over the string sees one segment fewer, are left out.

**ThreadPool** has the workers, the callers of `push` and the destructor. A
critical section is a step, each notification a step of its own after it;
spurious wakeups happen.

**Maintenance** extends QueueStore with the second thread that works on a
store: the management interface. `insert()` and `remove()` hold `mtx_` only
for the file and change the deque after giving it back; here they are two steps
each, and `MCompact` or `MGetStats` may come between, or the process may end.
`half` is the call underway; a remove keeps its place in the deque, as the
code keeps the iterator. A write through an offset into a file that
`compact()` has replaced hits the middle of some record, its valid field, or the
end (`StaleWrite`). Its properties say which messages are exposed: `late` ones,
whose insert was cut in two, carry an offset into the old file; `undead` ones,
whose remove was cut in two, are written again as valid. Both threads inside
the deque at one instant is undefined and left out.

**Delivery** is one queue with everybody who takes from it: channels, the
consumers and their round robin, and the workers inside `channel::consume`,
where `front()`, `remove()`, `choose()`, the callback and the automatic ack are
separate steps. A publication is two steps, `Publish` for
`publish_to_exchange` and `PushTask` for the loop that pushes its tasks, and a
worker may have taken the message in between. `declare_queue` and
`delete_queue` of the channel call two managers one after the other; the workers may run between the two calls, other
requests may not (one event loop). Two threads inside one call on the unlocked
deque, a queue freed under a worker and a callback on a destroyed channel are
undefined behaviour; the model keeps to the outcomes in which memory stays
intact. `NoneVanishes` names the one way in which the code loses a message with
an id of its own: `unserved` are the messages that a worker had taken
out of the queue when it had no consumer. The documents let such a message wait,
and the code does not; the property is that nothing else loses one. `done` are
the messages given to a callback or removed for a client. `TasksSuffice` counts tasks against messages: the exception it
names, two workers that took the same front, is a flaw of the code, since the
task spent in vain leaves a message behind for the next publication.

**Sessions** is what the broker keeps for its clients: connections, their
channels by cid, and the consumers of all queues, with the requests that change
them. A consumer here is its name (queue and tag) and the channel its callback
belongs to; the channel keeps the name of its last subscription, and
its destructor removes that name, whoever has it by then. `live`,
`forgotten` and `lost` are history: the consumer's channel exists, was told to
consume again, and the name was cancelled or deleted.

**Heartbeat** is one TCP connection seen from both ends, for several clients:
the client with its heartbeat thread and its commands, requests on their way
with their age, and the broker with `__last_active`, the timer and the half
close. Time is discrete; `Tick` moves all clocks and waits for what is due. A
client may be stopped and resumed, exit or crash (`closed`), or vanish with its
host or network (`cut`), losing what is on its way. `shutdown()` closes one
direction only: `link` is then `disconnecting` until the client closes its
own. `silence` saturates above the largest value that is ever compared.

The MC modules give the constants values. Operators marked "Seeded fault" are
plausible mistakes in the code; `PROJECT.json` names for each property of each
passing run the one that breaks it.

## 3. The runs

| Run | Checks | Shows |
|---|---|---|
| `MCQueueStore` | TypeOK, OwnsItsRecord, CompactedIsCrashSafe, ImplementsFifo | the store, over every sequence of calls, crashes and restarts |
| `MCQueueStore_DurableLost` | DurableSurvivesCrash: violated | nothing inserted into a durable queue reaches its file before stats or compact were called |
| `MCVirtualHost` | TypeOK, Integrity, UniqueIds, NackIsAMove | the tables of the broker, its ids and what a nack moves |
| `MCVirtualHost_DeadLetter` | DeadLetterArrives: violated | a rejected message may be nowhere |
| `MCRouteLoop` | LoopInvariant, ReturnsMatchSegments, ObeysTopicRule, Terminates | the loops compute `MatchSegments`; with `#` only last, the topic rule |
| `MCThreadPool` | TypeOK, NoLostWakeup, StartsInOrder, DrainedAtReturn, EveryTaskRuns, DestructorReturns | the pool, its shutdown included |
| `MCMaintenance` | MTypeOK, OnlyLateOffsetsStray, CompactedButTheUndead, StaysFifo | the management thread between the halves of insert and remove |
| `MCDelivery` | TypeOK, NoneVanishes, FairShare, Registered, TasksSuffice | workers against each other and against requests |
| `MCSessions` | TypeOK, NamesAreUnique, ChannelsTakeTheirs, OthersKeepTheirs | whose consumers the end of a channel or connection removes |
| `MCSessions_Dangling` | NoConsumerOutlivesItsChannel: violated | a channel that subscribed twice leaves a consumer behind |
| `MCHeartbeat` | TypeOK, OnlyTheSilentAreShut, SilenceIsNoticed, EndsAreForgotten | the timeout against clients that run, stop, crash and vanish |
| `MCHeartbeat_HalfClose` | TimedOutAreReleased: violated | a connection whose silence exceeded the timeout is shut down by the check and stays for ever when its client is stopped; no message but heartbeats is sent in this run |

Each violated property is something a document, comment or test of the
repository says; the findings in `PROJECT.json` quote it and the code.

Other places where the code does less than the documents say are in the models
and have no run of their own:

- A message whose write failed carries the offset 2^64-1; once `get_stats()`
  has cleared the stream, removing it overwrites the length of the first record
  (`Overwritten` in QueueStore; `queue_message.hpp:141`).
- A fanout to several queues reaches one: `basic_publish` writes the first
  queue's name into the routing key of the shared properties and refuses the
  message for the others (`Deliveries`; `virtual_host.cpp:181`).
- A `#` before the end of a pattern matches exactly one segment
  (`MatchSegments`; `route.hpp:46`).
- A message whose task finds no consumer is thrown away (`ChooseNone`;
  `channel.cpp:53-62`), where `docs/requirements.md:131` lets it wait.
- A message to be acked by hand is kept nowhere after its delivery
  (`RemoveTaken`; `virtual_host.cpp:302`), where `docs/requirements.md:96` calls
  it pending and `test/test_dlq.cpp:69` expects it in the queue.
- A subscription starts no delivery: dead letters, recovered messages and what
  is left of two workers with one front wait for the next publication
  (`Subscribe`, `Arrive`; `channel.cpp:226`), where
  `docs/requirements.md:95` has the backlog delivered at once.
- The end of a channel removes the consumer of another one that has taken the
  same tag, if its own was cancelled or went with a deleted queue (`Destroy`;
  `channel.cpp:34`), where `docs/requirements.md:126` says that a lost
  connection affects no other. `OthersKeepTheirs` names the case.
- A nack of a message without id publishes the first such message and removes
  the front (`DeadLetter`; `virtual_host.cpp:396`).
- Generated ids start over with the process and are not kept from the ids of
  clients, where the comment at `virtual_host.cpp:12` calls them globally unique;
  after a restart they collide with those of recovered messages.
- A deleted queue leaves its file, which the next durable declaration of the name
  recovers (`DeleteQueue`, `OpenQueue`; `virtual_host.cpp:104`), and no queue
  returns after a restart until it is declared again (`Restart`;
  `queue.cpp:62`); `docs/requirements.md:101` says the opposite of both.

**Bounds.** QueueStore: three publications, two of which share a client's id
or carry the empty one, so that removal by id meets namesakes; a file then
holds up to three records, enough for a record before, at and after any
accident, and calls other than publications are unbounded. VirtualHost: two exchanges, two queues,
`MaxPublish = 3` publications or dead letters, enough for two messages in a
queue and the dead letter of the second; the requests offered are the small sets
in `MCVirtualHost`, chosen so that each action has both outcomes. RouteLoop:
keys and patterns of up to three segments over two words and the wildcards,
which meets every exit of both loops. ThreadPool: two workers, two producers,
three tasks: more tasks than workers, and workers left asleep when another is
woken. Delivery: two workers, two channels, two tags, two messages and at most
two tasks waiting when one is published (`MaxTasks`), besides those the workers
run; each channel opens once. Maintenance: three publications with ids of their
own, so that a call can be cut in two with a record before and after its own.
Sessions: two connections with two channels each and three names, two tags on
one queue and one of them on another, so that a name is taken again by a
channel of the same and of another connection; each connection is made once.
Heartbeat: two clients, the least timeout that leaves room for a period and
a delay (`Beat + MaxDelay = Timeout`), a check every tick, one request of a user
on its way besides heartbeats (`MaxLine`; none in `HalfClose`, where the
timeout alone may shut a connection); two clients are enough for two to
expire together. Workers, channels, connections and messages are
interchangeable where a symmetry set says so; no liveness is checked there.

**Fairness.** RouteLoop: weak fairness of the loop, a function running on one
thread. ThreadPool: weak fairness of each worker, of each pending notification
and of the destructor's steps once begun: the operating system runs every
thread that can run, and tasks are assumed to end. Nobody is obliged to submit
or to destroy. Submissions, stop and spurious wakeups are not fair.
Heartbeat: the timer of the broker's loop, the arrival of requests, the
client's heartbeat are weakly fair
(kernels deliver, loops and threads that can run do); a close is, too, and for a
connection cut off it is once the broker has sent its FIN, which the kernel
gives up repeating. Time is strongly fair: `Tick` is disabled while something is
due, and a client that stops and resumes for ever would otherwise stop time.
So is a client's reaction to the end of the stream (`HangUp`): it reads its
socket at some time unless it stays stopped.
Nobody has to type, stop, resume or leave. QueueStore, VirtualHost,
Maintenance, Delivery and Sessions state no fairness: their properties are
safety properties. `CHECK_DEADLOCK FALSE` stands where the system really ends:
a function that returned, a destroyed pool, clients that are all gone.

## 4. The proofs

Each theorem is stated for every value of the constants, under the assumptions
named in the modules. Eight modules hold them; `SequenceLemmas` has what the
others share: what `deque::erase` does to a sequence and its elements, that a
set of numbers has one increasing enumeration, and that a nonempty set of
naturals has a least element. The last stands in for induction, which the
installed provers cannot instantiate: a claim about all lengths is refuted at
its least counterexample.

`QueueStoreProofs` is about the message store, for every set of messages and
every id function, assuming only that `NoMsg` is not a message.

- *Offsets* (`TypeCorrect`, `RecordOwnership`). `OwnsItsRecord` alone is not
  inductive: that an append or a compaction keeps it needs the types of the
  entries and slots, and that recovery establishes it needs that a slot marked
  live holds a message, which is why that conjunct is in `TypeOK`. The two
  together are inductive (`Invariance`). The lemmas follow the data: what
  removing an entry, marking a record, overwriting one and appending one do to
  a file and to the slots memory points at; then one step per action.
- *Order* (`OrderKept`). Memory and the live records of the file are placed in
  the sequence of publications without repetition. Both halves are needed:
  recovery makes memory out of the file, compaction the file out of memory. No
  write ever makes a dead record live, and an append is the newest message.
- *Refinement* (`Refinement`: QueueStore implements FifoQueue). With the order
  at hand a recovered queue is a part of the publications in their order; the
  witness for the function FifoQueue asks for sends a place in the queue to the
  place of its message in the publications. Every other step of an open store is
  `Offer`, `Take` or a stutter.
- *Crashes* (`MirrorCorrect`, `CompactedRecovers`). From a `compact()` on the
  stream is good, every message has a live record, every live record a message,
  and nothing cuts the file short; then the slots memory points at are an
  increasing enumeration of the live records, and there is one.
  `RecoveryIsDetermined` says that there always is one recovery, so that
  `CompactedIsCrashSafe`, which quantifies over recoveries, is not empty.
- *The management thread* (`MaintenanceTypes`, `OnlyLateStray`,
  `StoreStaysFifo`, `OnlyTheUndeadReturn`). `MInv` adds to the order what the
  second half of a call relies on after any number of compactions (`HalfHolds`):
  an insert carries the newest message, not yet in the deque; a remove's place
  still holds the message it marked. `Straight`, that offsets of messages not in
  `late` are right, must cover the entry still in the hands of `insert()`.
  `MExact` is the mirror above with the unsettled messages taken out (`Reflects`):
  an `undead` record may be live without a message or have been marked while
  its message waits.
  `CompactedButTheUndead` compares two queues by which message `Follows` which:
  a filtered sequence would need induction over its length.

`RouteLoopProofs` proves, for every set of keys and patterns (sequences of
segments of any length), that `LoopInvariant` is inductive and that the loops
return `MatchSegments` (`LoopCorrect`, `MatcherCorrect`): VirtualHost may route
with the operator in place of the loops. The invariant carries what a reader of
the second loop needs and its code does not show: a pattern consumed to its end
in the first loop did not end in `#`, or the loop would have returned, so that
an exhausted pattern with key left over is no match. `TopicRuleObeyed`:
where `#` comes last or not at all the matcher obeys the topic rule of the
documents, since a match then takes one segment after the other. That the loops
end is only model-checked.

`ThreadPoolProofs` proves the safety of the pool for any number of workers (at
least one), callers and tasks: `PoolTypes`, `OrderCorrect`, `WakeupCorrect`,
`DrainCorrect`.
`NoLostWakeup` is not inductive alone: a notification that finds nobody waiting
is lost, which is harmless only because the workers that do not wait have not
left either, since a worker leaves a stopped pool with no task in it
(`LeftEmpty`) and nothing is put in it afterwards. `DrainedAtReturn` needs
that, the order of the tasks, that a started task is done or in the hands of a
worker (`StartedAreHeld`), and that the destructor returns last. The
conjunction, `PoolInvariant`, is inductive.

`SessionsProofs` proves, for any number of connections, cids, queues and tags,
the three invariants of Sessions and its action property. None is
inductive alone: a destructor removes a name, so that one must know whose name
a channel holds. The invariant follows the link in both directions. A consumer
that its channel has not forgotten is the one the channel holds
(`HeldUnlessForgotten`), so that the destructor takes it along; and what a
channel holds is a consumer of its own or was lost to a cancel or with its queue
(`HoldersHave`), so that, names being unique, it takes nobody else's. The second
half is itself carried by the action property: a step that takes no other
channel's consumer keeps the link. `SessionsAssumption` says only that the null
consumer is not a name.

`HeartbeatProofs` proves the safety of Heartbeat for any number of connections
and any periods, timeout and delay with `Beat + MaxDelay <= Timeout`
(`InTimeAssumption`; in the code 5 s and 30 s). Both bounds on silence need a
measure that each tick keeps: the silence of a live connection and the time to
the next check add up to at most `Timeout + Check` (`Noticed`); the silence of
a client that runs is at most `Beat` less the time to its next heartbeat, or,
with requests on their way, `Beat` and the age of the oldest (`Punctual`).
That silent connections end at last, `EndsAreForgotten`, is liveness and stays
with TLC.

`DeliveryProofs` proves the five invariants of Delivery, for any number of
workers, channels, consumers and messages. `NoneVanishes` holds by what a worker
knows between two calls: what it holds was in the queue (`Known`), nothing is
there twice (`OnceEach`), so that two workers with the same front remove one
message and a removal by id takes no other. A worker lets a message go only when
it finds no consumer: the message is then in `unserved`, since it was taken out
when there was none or each change that left none put it there (`Waiting`). `FairShare` needs the phase of the
round robin (`InTurn`): since the last change of the consumers there were full
rounds from some consumer on, and one turn more for those between that one and
the next to choose. `TasksSuffice` needs the messages that no worker is about
to take out, and that these are no more than the tasks, the one a publication
is about to push counted (`Covered`, `Coming`); a
publication adds one to both, a worker that starts takes one from both.
`Registered` needs where the event loop is between the two calls of a request
(`Requests`). Each is inductive only in the conjunction, `DeliveryInvariant`.

`VirtualHostProofs` proves the invariants and action properties of VirtualHost,
for any exchanges, queues, keys and requests. `UniqueIds` is not inductive: a
declaration that recovers a file may bring back messages whose ids are not in
any queue. The strengthening (`OwnIds`) gives each queue the ids drawn for it,
in memory and file together, none repeated and none shared with another queue;
so a recovered message meets no other generated id that equals its own. It says
nothing of ids that clients chose, and assumes nothing of them: `NamesAssumption`
only keeps the null names apart from the names. `NackMoves` follows the removal
by id and needs that the copy found by the id and the message removed by it are
the same, namesakes or not; it leaves out the empty id, for which they need not
be.

## 5. What is only model-checked, what is not modelled, what is next

Every invariant, refinement and action property that a passing run checks is
proved (section 4). TLC alone shows the liveness properties on the instances
above, because the provers do not reason about fairness and ENABLED: `Terminates`,
`EveryTaskRuns`, `DestructorReturns`, `EndsAreForgotten`; and the violations,
which a counterexample settles.

Not modelled: parsing and formatting, sockets, what the client prints and
its automatic acks, `queueStatus`, queue arguments, `match_headers` and the
exchange manager's own persistence (not in the repository), queue attributes
nothing acts on (`exclusive`, `auto_delete`, `max_retries`), the outcomes of
data races (two threads in one deque, `g_conn`) and of callbacks into a
destroyed channel.

Next, in this order:

1. The measures behind the liveness properties, as action properties with
   proofs: the cursor of the matcher's second loop always moves on, and after the
   stop the tasks of the pool only become fewer.
2. Delivery with messages without id, whose automatic ack removes another one,
   and with three messages; a composition with ThreadPool, the counter of tasks
   implemented by the pool's queue.
