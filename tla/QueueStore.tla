---------------------------- MODULE QueueStore ----------------------------
(***************************************************************************)
(* The message store of ONE queue name: class queue_message and its data   *)
(* file <base_dir>/<queue>.mqd (src/src/server/queue_message.hpp), over    *)
(* the life of the name: the queue is declared, used, deleted, declared    *)
(* again, and the broker may crash in between.  Calls are atomic here; how *)
(* the calls of several threads interleave is the subject of Delivery.     *)
(*                                                                         *)
(* Data abstraction.  A record of the file is a slot                       *)
(*    [msg |-> m, valid |-> v, ok |-> b]                                   *)
(* and a file offset is the index of a slot.  ok is FALSE when the record  *)
(* header cannot be followed any more (overwritten length, torn tail): the *)
(* readers stop there.  length() = 0 is slot = 0 and the offset that       *)
(* tellp() = -1 leaves in a message is slot = Bad.                         *)
(***************************************************************************)
EXTENDS Integers, SequencesExt

CONSTANTS Msg,      \* published messages: one value per publication
          IdOf(_),  \* the id property a publication carries
          NoId,     \* the empty id string
          NoMsg     \* marks bytes of the file that are no message at all

ASSUME NoMsgAssumption == NoMsg \notin Msg

Ids == {IdOf(m) : m \in Msg}

Never == 0    \* the offset of a message that was never written
Bad   == -1   \* the offset of a message whose write found a failed stream

VARIABLES
  open,       \* the queue_message object exists (its queue is declared)
  durable,    \* the queue was declared durable
  msgs,       \* msgs_: messages in memory, oldest first
  disk,       \* the records of the .mqd file
  good,       \* file_.good(): neither failbit nor badbit is set
  sent,       \* history: publications, in the order they were inserted
  compacted   \* history: compact() ran since this object was created

vars == <<open, durable, msgs, disk, good, sent, compacted>>

Entry(m, v, s) == [msg |-> m, valid |-> v, slot |-> s]
Slot(m, v)     == [msg |-> m, valid |-> v, ok |-> TRUE]
Junk           == [msg |-> NoMsg, valid |-> "", ok |-> FALSE]

EntryType == [msg : Msg, valid : {"", "1"}, slot : Int]
SlotType  == [msg : Msg \cup {NoMsg}, valid : {"", "0", "1"}, ok : BOOLEAN]

\* What a sequential reader of file d can reach, and what recovery keeps.
Readable(d) == {i \in DOMAIN d : \A j \in 1..i : d[j].ok}
LiveOrNot(d) == Readable(d)   \* seeded fault: the valid field is not tested
Live(d)     == {i \in Readable(d) : d[i].valid = "1"}

\* The increasing enumerations of a finite set S of slots (there is one).
Enumerations(S) ==
  {f \in [1..Cardinality(S) -> S] :
     /\ \A i, j \in DOMAIN f : i < j => f[i] < f[j]
     /\ \A x \in S : \E i \in DOMAIN f : f[i] = x}

\* What recovery() of file d puts in memory (a set with one element).
Recoveries(d) ==
  {[i \in DOMAIN f |-> Entry(d[f[i]].msg, d[f[i]].valid, f[i])] : f \in Enumerations(Live(d))}

Payloads(s) == [i \in DOMAIN s |-> s[i].msg]

---------------------------------------------------------------------------
(* write_persistent: set_valid("1") first; the offset and length are set   *)
(* whether or not the stream takes the record.                             *)
Written(m)   == Entry(m, "1", IF good THEN Len(disk) + 1 ELSE Bad)
DiskAfterWrite(m) == IF good THEN Append(disk, Slot(m, "1")) ELSE disk

(* invalidate_persistent overwrites the record of e in place with the same *)
(* payload marked "0".  At a Bad offset the target offset() + 4 wraps      *)
(* around to byte 3 of the file, the length field of the first record.  A  *)
(* payload whose valid field was never set grows by that field, over the   *)
(* length field that follows or, at the end, past the end of the file.     *)
Overwritten(i) ==
  IF i \in DOMAIN disk THEN [disk EXCEPT ![i].ok = FALSE] ELSE Append(disk, Junk)

MarkedInvalid(i) == [disk EXCEPT ![i].valid = "0"]

DiskAfterInvalidate(e) ==
  IF ~good \/ e.slot = Never   THEN disk
  ELSE IF e.slot = Bad          THEN Overwritten(1)
  ELSE IF e.valid = ""          THEN Overwritten(e.slot + 1)
  ELSE MarkedInvalid(e.slot)

---------------------------------------------------------------------------
Init ==
  /\ open = FALSE /\ durable = FALSE /\ good = FALSE /\ compacted = FALSE
  /\ msgs = <<>> /\ disk = <<>> /\ sent = <<>>

\* virtual_host::declare_queue for an undeclared name: construct the store
\* (opens or creates the file) and, for a durable queue, recover.  A read
\* at the end of the file, or into a record that is not all there, leaves
\* failbit set in file_; bytes that do not parse end the loop without.
DeclareQueue(d) ==
  /\ ~open
  /\ open' = TRUE
  /\ durable' = d
  /\ good' \in IF ~d THEN {TRUE}
               ELSE IF Readable(disk) = DOMAIN disk THEN {FALSE} ELSE BOOLEAN
  /\ compacted' = FALSE
  /\ IF d THEN msgs' \in Recoveries(disk) ELSE msgs' = <<>>
  /\ UNCHANGED <<disk, sent>>

\* Seeded fault: a message goes to the wrong end of the deque.
InsertAtFront(m) ==
  /\ open
  /\ m \notin ToSet(sent)
  /\ sent' = Append(sent, m)
  /\ disk' = IF durable THEN DiskAfterWrite(m) ELSE disk
  /\ msgs' = <<IF durable THEN Written(m) ELSE Entry(m, "", Never)>> \o msgs
  /\ UNCHANGED <<open, durable, good, compacted>>

\* insert(): the result of write_persistent is ignored.
Insert(m) ==
  /\ open
  /\ m \notin ToSet(sent)
  /\ sent' = Append(sent, m)
  /\ IF durable
     THEN /\ disk' = DiskAfterWrite(m)
          /\ msgs' = Append(msgs, Written(m))
     ELSE /\ disk' = disk
          /\ msgs' = Append(msgs, Entry(m, "", Never))
  /\ UNCHANGED <<open, durable, good, compacted>>

\* remove(id) takes the k-th message: the front for an empty id, else the
\* first one with that id.
Takes(id, k) ==
  IF id = NoId THEN k = 1
  ELSE /\ IdOf(msgs[k].msg) = id
       /\ \A j \in 1..(k - 1) : IdOf(msgs[j].msg) # id

RemoveById(id) ==
  /\ open
  /\ \E k \in DOMAIN msgs :
       /\ Takes(id, k)
       /\ disk' = DiskAfterInvalidate(msgs[k])
       /\ msgs' = RemoveAt(msgs, k)
  /\ UNCHANGED <<open, durable, good, sent, compacted>>

\* get_stats(): scans the file, then file_.clear().
GetStats ==
  /\ open
  /\ good' = TRUE
  /\ UNCHANGED <<open, durable, msgs, disk, sent, compacted>>

\* Seeded faults: the messages keep their offsets in the old file; the
\* stream is not reopened on the new one.
CompactKeepsOffsets ==
  /\ open
  /\ disk' = [i \in DOMAIN msgs |-> Slot(msgs[i].msg, msgs[i].valid)]
  /\ good' = TRUE
  /\ compacted' = TRUE
  /\ UNCHANGED <<open, durable, msgs, sent>>

CompactWithoutReopen ==
  /\ open
  /\ disk' = [i \in DOMAIN msgs |-> Slot(msgs[i].msg, msgs[i].valid)]
  /\ msgs' = [i \in DOMAIN msgs |-> [msgs[i] EXCEPT !.slot = i]]
  /\ compacted' = TRUE
  /\ UNCHANGED <<open, durable, good, sent>>

\* compact(): writes the messages in memory to a new file, payload as it
\* is, renames it over the old one and reopens the stream.
Compact ==
  /\ open
  /\ disk' = [i \in DOMAIN msgs |-> Slot(msgs[i].msg, msgs[i].valid)]
  /\ msgs' = [i \in DOMAIN msgs |-> [msgs[i] EXCEPT !.slot = i]]
  /\ good' = TRUE
  /\ compacted' = TRUE
  /\ UNCHANGED <<open, durable, sent>>

\* The object goes away, with what it had in memory.  The file stays.
Drop ==
  /\ open' = FALSE
  /\ durable' = FALSE
  /\ good' = FALSE
  /\ compacted' = FALSE
  /\ msgs' = <<>>

\* virtual_host::delete_queue, and the end of the broker process.
DeleteQueue == open /\ Drop /\ UNCHANGED <<disk, sent>>

\* The process dies inside write_persistent, part of the record written.
CrashInWrite(m) ==
  /\ open /\ durable /\ good
  /\ m \notin ToSet(sent)
  /\ sent' = Append(sent, m)
  /\ disk' = Append(disk, [Slot(m, "1") EXCEPT !.ok = FALSE])
  /\ Drop

Next ==
  \/ \E d \in BOOLEAN : DeclareQueue(d)
  \/ \E m \in Msg : Insert(m) \/ CrashInWrite(m)
  \/ \E id \in Ids : RemoveById(id)
  \/ GetStats
  \/ Compact
  \/ DeleteQueue

Spec == Init /\ [][Next]_vars

---------------------------------------------------------------------------
(* The state of a store is well formed. *)
TypeOK ==
  /\ open \in BOOLEAN /\ durable \in BOOLEAN /\ good \in BOOLEAN
  /\ compacted \in BOOLEAN
  /\ msgs \in Seq(EntryType)
  /\ disk \in Seq(SlotType)
  /\ \A i \in DOMAIN disk : disk[i].valid = "1" => disk[i].msg \in Msg
  /\ sent \in Seq(Msg)

(* An offset kept in memory always designates the record of its own        *)
(* message, in the order of the queue: invalidate_persistent never marks   *)
(* another message's record through a stale offset, whatever sequence of   *)
(* recovery, insert, remove and compact calls came before.                 *)
OwnsItsRecord ==
  /\ \A i \in DOMAIN msgs : msgs[i].slot > 0 =>
       /\ msgs[i].slot \in DOMAIN disk
       /\ disk[msgs[i].slot].msg = msgs[i].msg
  /\ \A i, j \in DOMAIN msgs :
       i < j /\ msgs[i].slot > 0 /\ msgs[j].slot > 0 => msgs[i].slot < msgs[j].slot

(* Once compact() has run on a durable queue, the file and the memory of   *)
(* the store agree: a crash at any later point gives back exactly the      *)
(* messages that were queued, in their order, and none that was removed.   *)
CompactedIsCrashSafe ==
  open /\ durable /\ compacted =>
    \A s \in Recoveries(disk) : Payloads(s) = Payloads(msgs)

(* What the design promises and the code does not keep. *)

(* Every message waiting in a durable queue would be back after a crash.   *)
DurableSurvivesCrash ==
  open /\ durable => \A s \in Recoveries(disk) :
    \A i \in DOMAIN msgs : msgs[i].msg \in ToSet(Payloads(s))

---------------------------------------------------------------------------
Fifo == INSTANCE FifoQueue WITH up <- open, queue <- Payloads(msgs), sent <- sent

(* The store implements the abstract queue: while it is open it loses      *)
(* nothing but what a remove() takes out, one message a call, and over all *)
(* file accidents, crashes and restarts it holds no message twice, invents *)
(* none and keeps the order of publication.                                *)
ImplementsFifo == Fifo!Spec

===========================================================================
