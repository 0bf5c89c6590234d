---------------------------- MODULE Maintenance ----------------------------
(***************************************************************************)
(* The message store while the management interface works on it: the       *)
(* thread of management_http.cpp calls compact() and get_stats(), which    *)
(* hold the mutex of the store (src/src/server/queue_message.hpp), beside  *)
(* a thread that calls insert() and remove(), which hold it for the file   *)
(* only: the deque is changed after the mutex is given back.  Everything   *)
(* else is the store of QueueStore.  That the two threads touch the deque  *)
(* at the same instant, which is undefined, is left out.                   *)
(***************************************************************************)
EXTENDS QueueStore

VARIABLES
  half,     \* the call that gave the mutex back and is not done: what it
            \*   will insert, or take out and from where, or nothing
  late,     \* history: messages whose insert() compact() came between
  undead    \* history: messages whose remove() compact() came between

mvars == <<vars, half, late, undead>>

Idle == [op |-> "none"]
Underway == IF half = Idle THEN {} ELSE {half.entry.msg}

---------------------------------------------------------------------------
MInit == Init /\ half = Idle /\ late = {} /\ undead = {}

(* insert() into a durable queue; into another it is one step. *)

BeginInsert(m) ==
  /\ open /\ durable /\ half = Idle /\ m \notin ToSet(sent)
  /\ disk' = DiskAfterWrite(m)
  /\ half' = [op |-> "insert", entry |-> Written(m)]
  /\ sent' = Append(sent, m)
  /\ UNCHANGED <<open, durable, msgs, good, compacted, late, undead>>

\* Seeded fault: push_front.
EndInsertAtFront ==
  /\ half # Idle /\ half.op = "insert"
  /\ msgs' = <<half.entry>> \o msgs
  /\ half' = Idle
  /\ UNCHANGED <<open, durable, disk, good, sent, compacted, late, undead>>

EndInsert ==
  /\ half # Idle /\ half.op = "insert"
  /\ msgs' = Append(msgs, half.entry)
  /\ half' = Idle
  /\ UNCHANGED <<open, durable, disk, good, sent, compacted, late, undead>>

(* remove(). *)

\* An offset into a file that compact() replaced: the write hits the middle
\* of some record, or its valid field, or ends up behind the last one.
StaleWrite ==
  \/ \E i \in DOMAIN disk : disk' = Overwritten(i) \/ disk' = MarkedInvalid(i)
  \/ disk' = Append(disk, Junk)

IsStale(e) == e.slot > 0 /\ ~(e.slot \in DOMAIN disk /\ disk[e.slot].msg = e.msg)

\* Seeded fault: the record is not marked.
BeginRemoveUnmarked(id) ==
  /\ open /\ half = Idle
  /\ \E k \in DOMAIN msgs :
       /\ Takes(id, k)
       /\ half' = [op |-> "remove", entry |-> msgs[k], place |-> k]
  /\ UNCHANGED <<vars, late, undead>>

BeginRemove(id) ==
  /\ open /\ half = Idle
  /\ \E k \in DOMAIN msgs :
       /\ Takes(id, k)
       /\ IF good /\ IsStale(msgs[k]) THEN StaleWrite
          ELSE disk' = DiskAfterInvalidate(msgs[k])
       /\ half' = [op |-> "remove", entry |-> msgs[k], place |-> k]
  /\ UNCHANGED <<open, durable, msgs, good, sent, compacted, late, undead>>

EndRemove ==
  /\ half # Idle /\ half.op = "remove"
  /\ msgs' = RemoveAt(msgs, half.place)
  /\ half' = Idle
  /\ UNCHANGED <<open, durable, disk, good, sent, compacted, late, undead>>

(* The management interface, at any moment. *)

\* Seeded fault: compact() reads the new file back into the deque, as
\* recovery() does, while a remove() still has its position in the old one.
MCompactReloading ==
  /\ open
  /\ msgs' \in Recoveries(disk)
  /\ disk' = [i \in DOMAIN msgs' |-> Slot(msgs'[i].msg, msgs'[i].valid)]
  /\ good' = TRUE /\ compacted' = TRUE
  /\ UNCHANGED <<open, durable, sent, half, late, undead>>

MCompact ==
  /\ Compact
  /\ late' = IF half # Idle /\ half.op = "insert" THEN late \cup Underway ELSE late
  /\ undead' = IF half # Idle /\ half.op = "remove" THEN undead \cup Underway ELSE undead
  /\ UNCHANGED half

MGetStats == GetStats /\ UNCHANGED <<half, late, undead>>

(* The rest of the store's life; the process may die between two halves. *)

MDeclareQueue(d) == DeclareQueue(d) /\ UNCHANGED <<half, late, undead>>

InsertTransient(m) == ~durable /\ half = Idle /\ Insert(m) /\ UNCHANGED <<half, late, undead>>

MCrashInWrite(m) == half = Idle /\ CrashInWrite(m) /\ UNCHANGED <<half, late, undead>>

Stop == DeleteQueue /\ half' = Idle /\ UNCHANGED <<late, undead>>

MNext ==
  \/ \E m \in Msg : BeginInsert(m) \/ InsertTransient(m) \/ MCrashInWrite(m)
  \/ \E id \in Ids : BeginRemove(id)
  \/ EndInsert \/ EndRemove \/ MCompact \/ MGetStats \/ Stop
  \/ \E d \in BOOLEAN : MDeclareQueue(d)

MSpec == MInit /\ [][MNext]_mvars

---------------------------------------------------------------------------
(* The state is well formed, and a call that is underway is of this store. *)
MTypeOK ==
  /\ TypeOK
  /\ \/ half = Idle
     \/ open /\ half \in [op : {"insert"}, entry : EntryType]
     \/ open /\ half \in [op : {"remove"}, entry : EntryType, place : DOMAIN msgs]
  /\ late \cup undead \subseteq ToSet(sent)

(* Only a message whose insert() was cut in two by a compact() ever has an *)
(* offset into the wrong record: whatever else the two threads do at once, *)
(* no remove() marks the record of another message.                        *)
OnlyLateOffsetsStray ==
  \A i \in DOMAIN msgs : msgs[i].slot > 0 /\ msgs[i].msg \notin late =>
    /\ msgs[i].slot \in DOMAIN disk
    /\ disk[msgs[i].slot].msg = msgs[i].msg

(* As long as no insert() was cut in two, the file of a compacted store is *)
(* the queue but for the messages whose remove() is underway or was cut in *)
(* two: a crash brings back nothing else that was removed, loses none and  *)
(* leaves them in their order.                                             *)
Follows(q, m, n) == \E i, j \in DOMAIN q : i <= j /\ q[i].msg = m /\ q[j].msg = n

CompactedButTheUndead ==
  open /\ durable /\ compacted /\ late = {} =>
    \A s \in Recoveries(disk) :
      \A m, n \in Msg \ (undead \cup Underway) : Follows(s, m, n) <=> Follows(msgs, m, n)

(* Over all these interleavings the store stays a queue: while it is open  *)
(* it loses nothing but what a remove() takes, compact() or not, and what  *)
(* it holds is in the order of publication, nothing twice.                 *)
Shown == INSTANCE FifoQueue WITH
  up    <- open,
  queue <- Payloads(msgs),
  sent  <- IF half # Idle /\ half.op = "insert" THEN Front(sent) ELSE sent
StaysFifo == Shown!Spec

===========================================================================
