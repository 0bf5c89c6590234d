-------------------------- MODULE QueueStoreProofs --------------------------
(***************************************************************************)
(* Theorems about the message store of queue_message.hpp, for every set of *)
(* messages and every assignment of ids.  First the store whose calls are  *)
(* atomic (QueueStore): its types and that no offset kept in memory ever   *)
(* designates another message's record; that memory and file keep order   *)
(* of publication, and with it that the store implements FifoQueue; that   *)
(* after a compact() the file mirrors memory, so that a crash loses        *)
(* nothing.  Then the store beside the management thread (Maintenance),    *)
(* where compact() and get_stats() come between the halves of insert() and *)
(* remove(): which of these facts survive, and for which messages.         *)
(***************************************************************************)
EXTENDS Maintenance, SequenceLemmas

---------------------------------------------------------------------------
(* The stray and the in-place writes leave a file of records: no record
   moves, none becomes live and none is taken away. *)
FileOf(d) == d \in Seq(SlotType) /\ \A i \in DOMAIN d : d[i].valid = "1" => d[i].msg \in Msg

KeepsRecords(d) ==
  /\ Len(disk) <= Len(d)
  /\ \A i \in DOMAIN disk : d[i].msg = disk[i].msg

LEMMA OverwrittenProperties ==
  ASSUME FileOf(disk), NEW i \in Int
  PROVE  FileOf(Overwritten(i)) /\ KeepsRecords(Overwritten(i))
<1>0. Len(disk) \in Nat /\ DOMAIN disk = 1..Len(disk) /\ \A j \in DOMAIN disk : disk[j] \in SlotType
  BY LenProperties, ElementOfSeq DEF FileOf
<1>1. CASE i \in DOMAIN disk
  <2> DEFINE r == [disk[i] EXCEPT !.ok = FALSE]
  <2>1. r \in SlotType /\ r.msg = disk[i].msg /\ r.valid = disk[i].valid
    BY <1>0, <1>1 DEF SlotType
  <2>2. Overwritten(i) = [disk EXCEPT ![i] = r]
    BY <1>1 DEF Overwritten
  <2> HIDE DEF r
  <2>3. /\ [disk EXCEPT ![i] = r] \in Seq(SlotType)
        /\ Len([disk EXCEPT ![i] = r]) = Len(disk)
        /\ \A j \in 1..Len(disk) : [disk EXCEPT ![i] = r][j] = IF j = i THEN r ELSE disk[j]
    BY <1>0, <1>1, <2>1, ExceptSeq DEF FileOf
  <2> DEFINE d == [disk EXCEPT ![i] = r]
  <2>4. DOMAIN d = 1..Len(disk)
    BY <2>3, LenProperties
  <2> HIDE DEF d
  <2> QED
    BY <1>0, <2>1, <2>2, <2>3, <2>4 DEF FileOf, KeepsRecords, d
<1>2. CASE i \notin DOMAIN disk
  <2>1. Junk \in SlotType /\ Junk.valid # "1"
    BY DEF Junk, SlotType
  <2>2. Overwritten(i) = Append(disk, Junk)
    BY <1>2 DEF Overwritten
  <2> HIDE DEF Junk
  <2> QED
    BY <1>0, <2>1, <2>2, AppendProperties, LenProperties DEF FileOf, KeepsRecords
<1> QED
  BY <1>1, <1>2

LEMMA MarkedInvalidProperties ==
  ASSUME FileOf(disk), NEW i \in Int
  PROVE  FileOf(MarkedInvalid(i)) /\ KeepsRecords(MarkedInvalid(i))
<1>0. Len(disk) \in Nat /\ DOMAIN disk = 1..Len(disk) /\ \A j \in DOMAIN disk : disk[j] \in SlotType
  BY LenProperties, ElementOfSeq DEF FileOf
<1>1. CASE i \in DOMAIN disk
  <2> DEFINE r == [disk[i] EXCEPT !.valid = "0"]
             d == [disk EXCEPT ![i] = r]
  <2>1. r \in SlotType /\ r.msg = disk[i].msg /\ r.valid = "0"
    BY <1>0, <1>1 DEF SlotType
  <2>2. MarkedInvalid(i) = d
    BY <1>1 DEF MarkedInvalid
  <2> HIDE DEF r
  <2>3. d \in Seq(SlotType) /\ Len(d) = Len(disk) /\ DOMAIN d = 1..Len(disk)
        /\ \A j \in 1..Len(disk) : d[j] = IF j = i THEN r ELSE disk[j]
    BY <1>0, <1>1, <2>1, ExceptSeq, LenProperties DEF FileOf
  <2> HIDE DEF d
  <2> QED
    BY <1>0, <2>1, <2>2, <2>3 DEF FileOf, KeepsRecords
<1>2. CASE i \notin DOMAIN disk
  <2>1. MarkedInvalid(i) = disk
    BY <1>0, <1>2, ExceptSeq DEF MarkedInvalid, FileOf
  <2> QED
    BY <1>0, <2>1 DEF KeepsRecords
<1> QED
  BY <1>1, <1>2

LEMMA InvalidateProperties ==
  ASSUME FileOf(disk), NEW e \in EntryType
  PROVE  FileOf(DiskAfterInvalidate(e)) /\ KeepsRecords(DiskAfterInvalidate(e))
<1>1. FileOf(disk) /\ KeepsRecords(disk)
  BY LenProperties DEF KeepsRecords, FileOf
<1>2. e.slot \in Int
  BY DEF EntryType
<1>3. e.slot + 1 \in Int /\ 1 \in Int
  BY <1>2
<1> QED
  BY <1>1, <1>2, <1>3, OverwrittenProperties, MarkedInvalidProperties DEF DiskAfterInvalidate

LEMMA WriteProperties ==
  ASSUME FileOf(disk), NEW r \in SlotType, r.msg \in Msg
  PROVE  FileOf(Append(disk, r)) /\ KeepsRecords(Append(disk, r))
         /\ Len(Append(disk, r)) = Len(disk) + 1 /\ Append(disk, r)[Len(disk) + 1] = r
<1>0. Len(disk) \in Nat /\ DOMAIN disk = 1..Len(disk)
  BY LenProperties DEF FileOf
<1> QED
  BY <1>0, AppendProperties, LenProperties DEF FileOf, KeepsRecords

---------------------------------------------------------------------------
LEMMA EntryProperties ==
  \A v \in {"", "1"} : \A m \in Msg, s \in Int :
     Entry(m, v, s) \in EntryType /\ Entry(m, v, s).msg = m /\ Entry(m, v, s).slot = s
  BY DEF Entry, EntryType

LEMMA EntryFields ==
  \A e \in EntryType : e.msg \in Msg /\ e.valid \in {"", "1"} /\ e.slot \in Int
  BY DEF EntryType

LEMMA SlotProperties ==
  \A m \in Msg, v \in {"", "1"} :
     Slot(m, v) \in SlotType /\ Slot(m, v).msg = m /\ Slot(m, v).valid = v
  BY DEF Slot, SlotType

LEMMA MovedEntry ==
  ASSUME NEW e \in EntryType, NEW i \in Int
  PROVE  /\ [e EXCEPT !.slot = i] \in EntryType
         /\ [e EXCEPT !.slot = i].msg = e.msg
         /\ [e EXCEPT !.slot = i].slot = i
  BY DEF EntryType

(* The two conjuncts of the ownership invariant, of a queue and a file. *)
Owns(q, d) ==
  \A i \in DOMAIN q : q[i].slot > 0 => q[i].slot \in DOMAIN d /\ d[q[i].slot].msg = q[i].msg

SlotsIncrease(q) ==
  \A i, j \in DOMAIN q :
    i < j /\ q[i].slot > 0 /\ q[j].slot > 0 => q[i].slot < q[j].slot

(* Recovery keeps what is marked "1", so that is how its entries are marked. *)
LEMMA RecoveriesAre ==
  ASSUME NEW d
  PROVE  Recoveries(d) = {[i \in DOMAIN f |-> Entry(d[f[i]].msg, "1", f[i])]
                          : f \in Enumerations(Live(d))}
<1>1. ASSUME NEW f \in Enumerations(Live(d))
      PROVE  [i \in DOMAIN f |-> Entry(d[f[i]].msg, d[f[i]].valid, f[i])]
             = [i \in DOMAIN f |-> Entry(d[f[i]].msg, "1", f[i])]
  <2>1. \A i \in DOMAIN f : f[i] \in Live(d)
    BY DEF Enumerations
  <2> QED
    BY <2>1 DEF Live
<1> QED
  BY <1>1 DEF Recoveries

(* Recovery gives a queue of records of the file, in the order of the file. *)
LEMMA RecoveryProperties ==
  ASSUME NEW d, FileOf(d), NEW q \in Recoveries(d)
  PROVE  q \in Seq(EntryType) /\ Owns(q, d) /\ SlotsIncrease(q)
<1> DEFINE S == Live(d)
<1>0. Len(d) \in Nat /\ DOMAIN d = 1..Len(d)
  BY LenProperties DEF FileOf
<1>1. S \subseteq 1..Len(d) /\ \A i \in S : d[i].msg \in Msg
  BY <1>0 DEF Live, Readable, FileOf
<1>2. Cardinality(S) \in Nat
  <2>1. IsFiniteSet(1..Len(d))
    BY <1>0, 1 \in Int, FS_Interval
  <2>2. IsFiniteSet(S)
    BY <1>1, <2>1, FS_Subset
  <2> QED
    BY <2>2, FS_CardinalityType
<1> HIDE DEF S
<1>3. PICK f \in Enumerations(S) : q = [i \in DOMAIN f |-> Entry(d[f[i]].msg, "1", f[i])]
  BY RecoveriesAre DEF S
<1>4. /\ f \in [1..Cardinality(S) -> S]
      /\ \A i, j \in DOMAIN f : i < j => f[i] < f[j]
  BY <1>3 DEF Enumerations
<1>5. DOMAIN f = 1..Cardinality(S) /\ \A i \in DOMAIN f : f[i] \in S
  BY <1>4
<1>6. DOMAIN q = DOMAIN f /\ \A i \in DOMAIN f : q[i] = Entry(d[f[i]].msg, "1", f[i])
  BY <1>3
<1>7. \A i \in DOMAIN f : /\ q[i] \in EntryType
                          /\ q[i].slot = f[i] /\ q[i].msg = d[f[i]].msg
                          /\ f[i] \in DOMAIN d
  <2> SUFFICES ASSUME NEW i \in DOMAIN f
               PROVE  /\ q[i] \in EntryType
                      /\ q[i].slot = f[i] /\ q[i].msg = d[f[i]].msg
                      /\ f[i] \in DOMAIN d
    OBVIOUS
  <2>1. f[i] \in 1..Len(d) /\ d[f[i]].msg \in Msg
    BY <1>1, <1>5
  <2> QED
    <3>1. PICK m \in Msg : m = d[f[i]].msg
      BY <2>1
    <3>2. PICK n \in Int : n = f[i]
      BY <2>1, <1>0
    <3>3. q[i] = Entry(m, "1", n)
      BY <1>6, <3>1, <3>2
    <3>4. \A mm \in Msg, s \in Int :
            Entry(mm, "1", s) \in EntryType /\ Entry(mm, "1", s).msg = mm /\ Entry(mm, "1", s).slot = s
      BY EntryProperties
    <3>5. Entry(m, "1", n) \in EntryType /\ Entry(m, "1", n).msg = m /\ Entry(m, "1", n).slot = n
      BY <3>4, Zenon
    <3> QED
      BY <3>1, <3>2, <3>3, <3>5, <2>1, <1>0
<1>8. q \in Seq(EntryType)
  <2>1. q = [i \in 1..Cardinality(S) |-> q[i]]
    BY <1>3, <1>5
  <2> QED
    BY <2>1, <1>2, <1>5, <1>7, IsASeq
<1>9. Owns(q, d)
  BY <1>6, <1>7 DEF Owns
<1>10. SlotsIncrease(q)
  BY <1>4, <1>6, <1>7 DEF SlotsIncrease
<1> QED
  BY <1>8, <1>9, <1>10

LEMMA OwnsKept ==
  ASSUME FileOf(disk), NEW d, FileOf(d), KeepsRecords(d), NEW q, Owns(q, disk)
  PROVE  Owns(q, d)
<1>1. /\ Len(disk) \in Nat /\ DOMAIN disk = 1..Len(disk)
      /\ Len(d) \in Nat /\ DOMAIN d = 1..Len(d)
  BY LenProperties DEF FileOf
<1>2. DOMAIN disk \subseteq DOMAIN d
  BY <1>1 DEF KeepsRecords
<1> QED
  BY <1>2 DEF KeepsRecords, Owns

LEMMA OwnsAfterAppend ==
  ASSUME NEW q \in Seq(EntryType), NEW d, FileOf(d), Owns(q, d), SlotsIncrease(q),
         NEW e \in EntryType,
         e.slot > 0 => /\ e.slot \in DOMAIN d /\ d[e.slot].msg = e.msg
                       /\ \A i \in DOMAIN q : q[i].slot < e.slot
  PROVE  Append(q, e) \in Seq(EntryType) /\ Owns(Append(q, e), d) /\ SlotsIncrease(Append(q, e))
<1> DEFINE r == Append(q, e)
<1>1. Len(q) \in Nat /\ DOMAIN q = 1..Len(q)
  BY LenProperties
<1>2. /\ r \in Seq(EntryType) /\ DOMAIN r = 1..(Len(q) + 1)
      /\ \A i \in 1..Len(q) : r[i] = q[i]
      /\ r[Len(q) + 1] = e
  BY <1>1, AppendProperties, LenProperties
<1> HIDE DEF r
<1>3. \A i \in DOMAIN r : (i \in DOMAIN q /\ r[i] = q[i]) \/ (i = Len(q) + 1 /\ r[i] = e)
  BY <1>1, <1>2
<1>4. Owns(r, d)
  BY <1>3 DEF Owns
<1>5. SlotsIncrease(r)
  <2> SUFFICES ASSUME NEW i \in DOMAIN r, NEW j \in DOMAIN r,
                      i < j, r[i].slot > 0, r[j].slot > 0
               PROVE  r[i].slot < r[j].slot
    BY DEF SlotsIncrease
  <2>1. i \in DOMAIN q /\ r[i] = q[i]
    BY <1>1, <1>2
  <2>2. CASE j \in DOMAIN q /\ r[j] = q[j]
    BY <2>1, <2>2 DEF SlotsIncrease
  <2>3. CASE j = Len(q) + 1 /\ r[j] = e
    BY <2>1, <2>3
  <2> QED
    BY <1>3, <2>2, <2>3
<1> QED
  BY <1>2, <1>4, <1>5 DEF r

LEMMA OwnsAfterRemoveAt ==
  ASSUME NEW q \in Seq(EntryType), NEW d, Owns(q, d), SlotsIncrease(q), NEW k \in DOMAIN q
  PROVE  RemoveAt(q, k) \in Seq(EntryType) /\ Owns(RemoveAt(q, k), d) /\ SlotsIncrease(RemoveAt(q, k))
<1> DEFINE r == RemoveAt(q, k)
           g(i) == IF i < k THEN i ELSE i + 1
<1>1. Len(q) \in Nat /\ DOMAIN q = 1..Len(q) /\ k \in 1..Len(q)
  BY LenProperties
<1>2. /\ r \in Seq(EntryType) /\ DOMAIN r = 1..(Len(q) - 1)
      /\ \A i \in 1..(Len(q) - 1) : r[i] = IF i < k THEN q[i] ELSE q[i + 1]
  BY <1>1, RemoveAtProperties, LenProperties
<1> HIDE DEF r
<1>3. \A i \in DOMAIN r : g(i) \in DOMAIN q /\ r[i] = q[g(i)]
  BY <1>1, <1>2
<1>4. \A i, j \in DOMAIN r : i < j => g(i) < g(j)
  BY <1>1, <1>2
<1> HIDE DEF g
<1>5. Owns(r, d)
  BY <1>3 DEF Owns
<1>6. SlotsIncrease(r)
  BY <1>3, <1>4 DEF SlotsIncrease
<1> QED
  BY <1>2, <1>5, <1>6 DEF r

(* compact() renumbers the queue: the k-th message is the k-th record. *)
LEMMA CompactProperties ==
  ASSUME NEW q \in Seq(EntryType),
         NEW d, d = [i \in DOMAIN q |-> Slot(q[i].msg, q[i].valid)],
         NEW r, r = [i \in DOMAIN q |-> [q[i] EXCEPT !.slot = i]]
  PROVE  FileOf(d) /\ r \in Seq(EntryType) /\ Owns(r, d) /\ SlotsIncrease(r)
<1>0. Len(q) \in Nat /\ DOMAIN q = 1..Len(q) /\ \A i \in 1..Len(q) : q[i] \in EntryType
  BY LenProperties, ElementOfSeq
<1>1. ASSUME NEW i \in 1..Len(q)
      PROVE  /\ d[i] \in SlotType /\ d[i].msg = q[i].msg /\ d[i].msg \in Msg
             /\ r[i] \in EntryType /\ r[i].msg = q[i].msg /\ r[i].slot = i
  <2>1. d[i] = Slot(q[i].msg, q[i].valid) /\ r[i] = [q[i] EXCEPT !.slot = i]
    BY <1>0
  <2>2. q[i].msg \in Msg /\ q[i].valid \in {"", "1"}
    BY <1>0, EntryFields, Zenon
  <2>3. d[i] \in SlotType /\ d[i].msg = q[i].msg
    <3>1. Slot(q[i].msg, q[i].valid) \in SlotType /\ Slot(q[i].msg, q[i].valid).msg = q[i].msg
      BY <2>2, SlotProperties, Zenon
    <3> QED
      BY <2>1, <3>1, Zenon
  <2>4. r[i] \in EntryType /\ r[i].msg = q[i].msg /\ r[i].slot = i
    <3>1. i \in Int
      OBVIOUS
    <3> QED
      BY <1>0, <2>1, <3>1, MovedEntry, Zenon
  <2> QED
    BY <2>2, <2>3, <2>4
<1>2. DOMAIN d = 1..Len(q) /\ DOMAIN r = 1..Len(q)
  BY <1>0
<1>3. d \in Seq(SlotType) /\ r \in Seq(EntryType)
  <2>1. d = [i \in 1..Len(q) |-> d[i]] /\ r = [i \in 1..Len(q) |-> r[i]]
    BY <1>0
  <2>2. [i \in 1..Len(q) |-> d[i]] \in Seq(SlotType)
    BY <1>0, <1>1, IsASeq
  <2>3. [i \in 1..Len(q) |-> r[i]] \in Seq(EntryType)
    BY <1>0, <1>1, IsASeq
  <2> QED
    BY <2>1, <2>2, <2>3
<1>4. FileOf(d)
  BY <1>1, <1>2, <1>3 DEF FileOf
<1>5. Owns(r, d) /\ SlotsIncrease(r)
  <2>1. \A i \in DOMAIN r : i \in DOMAIN d /\ r[i].slot = i /\ d[i].msg = r[i].msg
    BY <1>1, <1>2
  <2>2. Owns(r, d)
    <3>1. SUFFICES ASSUME NEW i \in DOMAIN r
                   PROVE  r[i].slot \in DOMAIN d /\ d[r[i].slot].msg = r[i].msg
      BY <3>1, Zenon DEF Owns
    <3> QED
      BY <2>1, Zenon
  <2>3. SlotsIncrease(r)
    BY <2>1, Zenon DEF SlotsIncrease
  <2> QED
    BY <2>2, <2>3
<1> QED
  BY <1>3, <1>4, <1>5

LEMMA EmptyQueue == <<>> \in Seq(EntryType) /\ SlotsIncrease(<<>>) /\ \A d : Owns(<<>>, d)
<1>1. <<>> \in Seq(EntryType) /\ DOMAIN << >> = {}
  BY EmptySeq, LenProperties
<1> QED
  BY <1>1 DEF SlotsIncrease, Owns

---------------------------------------------------------------------------
(* TypeOK and OwnsItsRecord are inductive together: invalidate_persistent
   leaves a file of records only because offsets are offsets of records. *)
Inv == TypeOK /\ OwnsItsRecord

(* What each operation has to establish of the queue and of the file. *)
GoodPair(q, d) == q \in Seq(EntryType) /\ FileOf(d) /\ Owns(q, d) /\ SlotsIncrease(q)

LEMMA InvMeans == Inv => GoodPair(msgs, disk)
  BY DEF Inv, TypeOK, OwnsItsRecord, GoodPair, FileOf, Owns, SlotsIncrease

LEMMA InvFollows ==
  ASSUME GoodPair(msgs', disk'),
         open' \in BOOLEAN, durable' \in BOOLEAN, good' \in BOOLEAN, compacted' \in BOOLEAN,
         sent' \in Seq(Msg)
  PROVE  Inv'
  BY DEF Inv, TypeOK, OwnsItsRecord, GoodPair, FileOf, Owns, SlotsIncrease

LEMMA InsertKeeps ==
  ASSUME Inv, NEW m \in Msg, Insert(m)
  PROVE  Inv'
<1>1. GoodPair(msgs, disk)
  BY InvMeans
<1>2. sent' \in Seq(Msg)
  BY AppendProperties DEF Inv, TypeOK, Insert
<1>3. Len(disk) \in Nat /\ DOMAIN disk = 1..Len(disk) /\ \A i \in DOMAIN msgs : msgs[i] \in EntryType
  BY <1>1, LenProperties, ElementOfSeq DEF GoodPair, FileOf
<1>4. CASE durable
  <2>1. disk' = DiskAfterWrite(m) /\ msgs' = Append(msgs, Written(m))
    BY <1>4 DEF Insert
  <2>2. CASE good
    <3> DEFINE e == Entry(m, "1", Len(disk) + 1)
               r == Slot(m, "1")
    <3>1. e \in EntryType /\ e.msg = m /\ e.slot = Len(disk) + 1
      <4>1. Len(disk) + 1 \in Int
        BY <1>3
      <4> QED
        BY <4>1, EntryProperties, Zenon
    <3>2. r \in SlotType /\ r.msg = m
      BY SlotProperties, Zenon
    <3>3. disk' = Append(disk, r) /\ msgs' = Append(msgs, e)
      BY <2>1, <2>2 DEF DiskAfterWrite, Written
    <3> HIDE DEF e, r
    <3>4. /\ FileOf(disk') /\ KeepsRecords(disk')
          /\ Len(disk') = Len(disk) + 1 /\ disk'[Len(disk) + 1] = r
      BY <1>1, <3>2, <3>3, WriteProperties DEF GoodPair
    <3>5. Owns(msgs, disk')
      BY <1>1, <3>4, OwnsKept DEF GoodPair
    <3>6. e.slot \in DOMAIN disk' /\ disk'[e.slot].msg = e.msg
      BY <1>3, <3>1, <3>2, <3>4, LenProperties DEF FileOf
    <3>7. \A i \in DOMAIN msgs : msgs[i].slot < e.slot
      <4> SUFFICES ASSUME NEW i \in DOMAIN msgs
                   PROVE  msgs[i].slot < e.slot
        OBVIOUS
      <4>1. msgs[i].slot \in Int
        BY <1>3, EntryFields
      <4>2. msgs[i].slot > 0 => msgs[i].slot \in 1..Len(disk)
        BY <1>1, <1>3 DEF GoodPair, Owns
      <4> QED
        BY <4>1, <4>2, <1>3, <3>1
    <3>8. GoodPair(msgs', disk')
      BY <1>1, <3>1, <3>3, <3>4, <3>5, <3>6, <3>7, OwnsAfterAppend DEF GoodPair
    <3> QED
      BY <3>8, <1>2, InvFollows DEF Inv, TypeOK, Insert
  <2>3. CASE ~good
    <3> DEFINE e == Entry(m, "1", -1)
    <3>1. e \in EntryType /\ e.slot = -1
      <4>1. -1 \in Int
        OBVIOUS
      <4> QED
        BY <4>1, EntryProperties, Zenon
    <3>2. disk' = disk /\ msgs' = Append(msgs, e)
      BY <2>1, <2>3 DEF DiskAfterWrite, Written, Bad
    <3> HIDE DEF e
    <3>3. ~(e.slot > 0)
      BY <3>1
    <3>4. GoodPair(msgs', disk')
      BY <1>1, <3>1, <3>2, <3>3, OwnsAfterAppend DEF GoodPair
    <3> QED
      BY <3>4, <1>2, InvFollows DEF Inv, TypeOK, Insert
  <2> QED
    BY <2>2, <2>3
<1>5. CASE ~durable
  <2> DEFINE e == Entry(m, "", 0)
  <2>1. e \in EntryType /\ e.slot = 0
    <3>1. 0 \in Int
      OBVIOUS
    <3> QED
      BY <3>1, EntryProperties, Zenon
  <2>2. disk' = disk /\ msgs' = Append(msgs, e)
    BY <1>5 DEF Insert, Never
  <2> HIDE DEF e
  <2>3. ~(e.slot > 0)
    BY <2>1
  <2>4. GoodPair(msgs', disk')
    BY <1>1, <2>1, <2>2, <2>3, OwnsAfterAppend DEF GoodPair
  <2> QED
    BY <2>4, <1>2, InvFollows DEF Inv, TypeOK, Insert
<1> QED
  BY <1>4, <1>5

LEMMA RemoveKeeps ==
  ASSUME Inv, NEW id, RemoveById(id)
  PROVE  Inv'
<1>1. GoodPair(msgs, disk)
  BY InvMeans
<1>2. PICK k \in DOMAIN msgs : /\ disk' = DiskAfterInvalidate(msgs[k])
                               /\ msgs' = RemoveAt(msgs, k)
  BY DEF RemoveById
<1>3. msgs[k] \in EntryType
  BY <1>1, <1>2, LenProperties, ElementOfSeq DEF GoodPair
<1>4. FileOf(disk') /\ KeepsRecords(disk')
  BY <1>1, <1>2, <1>3, InvalidateProperties DEF GoodPair
<1>5. Owns(msgs, disk')
  BY <1>1, <1>4, OwnsKept DEF GoodPair
<1>6. GoodPair(msgs', disk')
  BY <1>1, <1>2, <1>4, <1>5, OwnsAfterRemoveAt DEF GoodPair
<1> QED
  BY <1>6, InvFollows DEF Inv, TypeOK, RemoveById

LEMMA InvStep == Inv /\ [Next]_vars => Inv'
<1> SUFFICES ASSUME Inv, [Next]_vars
             PROVE  Inv'
  OBVIOUS
<1>1. GoodPair(msgs, disk)
  BY InvMeans
<1>2. ASSUME NEW d \in BOOLEAN, DeclareQueue(d)
      PROVE  Inv'
  <2>1. GoodPair(msgs', disk')
    BY <1>1, <1>2, RecoveryProperties, EmptyQueue DEF GoodPair, DeclareQueue
  <2> QED
    BY <1>2, <2>1, InvFollows DEF Inv, TypeOK, DeclareQueue
<1>3. ASSUME NEW m \in Msg, CrashInWrite(m)
      PROVE  Inv'
  <2> DEFINE r == [Slot(m, "1") EXCEPT !.ok = FALSE]
  <2>1. r \in SlotType /\ r.msg = m
    BY DEF Slot, SlotType
  <2>2. disk' = Append(disk, r) /\ msgs' = <<>> /\ sent' = Append(sent, m)
    BY <1>3 DEF CrashInWrite, Drop
  <2> HIDE DEF r
  <2>3. FileOf(disk') /\ sent' \in Seq(Msg)
    BY <1>1, <2>1, <2>2, WriteProperties, AppendProperties DEF GoodPair, Inv, TypeOK
  <2>4. GoodPair(msgs', disk')
    BY <2>2, <2>3, EmptyQueue DEF GoodPair
  <2> QED
    BY <1>3, <2>3, <2>4, InvFollows DEF Inv, TypeOK, CrashInWrite, Drop
<1>4. CASE GetStats
  BY <1>1, <1>4, InvFollows DEF Inv, TypeOK, GetStats
<1>5. CASE Compact
  <2>1. GoodPair(msgs', disk')
    BY <1>1, <1>5, CompactProperties DEF GoodPair, Compact
  <2> QED
    BY <1>5, <2>1, InvFollows DEF Inv, TypeOK, Compact
<1>6. CASE DeleteQueue
  <2>1. GoodPair(msgs', disk')
    BY <1>1, <1>6, EmptyQueue DEF GoodPair, DeleteQueue, Drop
  <2> QED
    BY <1>6, <2>1, InvFollows DEF Inv, TypeOK, DeleteQueue, Drop
<1>7. CASE UNCHANGED vars
  BY <1>1, <1>7, InvFollows DEF Inv, TypeOK, vars
<1> QED
  BY <1>2, <1>3, <1>4, <1>5, <1>6, <1>7, InsertKeeps, RemoveKeeps DEF Next

LEMMA InvInit == Init => Inv
  <1> SUFFICES ASSUME Init PROVE Inv
    OBVIOUS
  <1>1. msgs \in Seq(EntryType) /\ disk \in Seq(SlotType) /\ sent \in Seq(Msg)
        /\ DOMAIN msgs = {} /\ DOMAIN disk = {}
    BY EmptySeq, LenProperties DEF Init
  <1> QED
    BY <1>1 DEF Init, Inv, TypeOK, OwnsItsRecord

THEOREM Invariance == Spec => []Inv
  BY InvInit, InvStep, PTL DEF Spec

(* The store is well typed in every reachable state: no operation, in any
   order, leaves a record or an offset that is not one. *)
THEOREM TypeCorrect == Spec => []TypeOK
  BY Invariance, PTL DEF Inv

(* Every offset in memory designates the record of its own message, in the
   order of the queue, through recovery, insert, remove and compact. *)
THEOREM RecordOwnership == Spec => []OwnsItsRecord
  BY Invariance, PTL DEF Inv

---------------------------------------------------------------------------
(* The messages in memory and the live records of the file are in the order *)
(* of publication.  The records that are not live need not be: nothing      *)
(* makes them live again.                                                   *)
Before(s, m, n) == \E i, j \in DOMAIN s : i < j /\ s[i] = m /\ s[j] = n

Placed(q, s) ==
  /\ \A i \in DOMAIN q : q[i].msg \in ToSet(s)
  /\ \A i, j \in DOMAIN q : i < j => Before(s, q[i].msg, q[j].msg)

PlacedLive(d, s) ==
  /\ \A i \in DOMAIN d : d[i].valid = "1" => d[i].msg \in ToSet(s)
  /\ \A i, j \in DOMAIN d :
       i < j /\ d[i].valid = "1" /\ d[j].valid = "1" => Before(s, d[i].msg, d[j].msg)

InOrder ==
  /\ \A i, j \in DOMAIN sent : sent[i] = sent[j] => i = j
  /\ Placed(msgs, sent) /\ PlacedLive(disk, sent)

\* No record of d is live that was not.
NoNewLive(d) ==
  \A i \in DOMAIN d : d[i].valid = "1" =>
    i \in DOMAIN disk /\ disk[i].valid = "1" /\ d[i].msg = disk[i].msg

LEMMA MarkedInvalidIs ==
  ASSUME FileOf(disk), NEW i \in DOMAIN disk
  PROVE  /\ DOMAIN MarkedInvalid(i) = DOMAIN disk
         /\ \A j \in DOMAIN disk :
              /\ MarkedInvalid(i)[j].msg = disk[j].msg /\ MarkedInvalid(i)[j].ok = disk[j].ok
              /\ MarkedInvalid(i)[j].valid = IF j = i THEN "0" ELSE disk[j].valid
<1>1. \A j \in DOMAIN disk : disk[j] \in SlotType
  BY ElementsOfSeq DEF FileOf
<1> DEFINE r == [disk[i] EXCEPT !.valid = "0"]
<1>2. r.msg = disk[i].msg /\ r.ok = disk[i].ok /\ r.valid = "0"
  BY <1>1 DEF SlotType
<1>3. MarkedInvalid(i) = [disk EXCEPT ![i] = r]
  BY DEF MarkedInvalid
<1> HIDE DEF r
<1>4. DOMAIN MarkedInvalid(i) = DOMAIN disk
      /\ \A j \in DOMAIN disk : MarkedInvalid(i)[j] = IF j = i THEN r ELSE disk[j]
  BY <1>3
<1> QED
  BY <1>2, <1>4

LEMMA OverwrittenNotLive ==
  ASSUME FileOf(disk), NEW i \in Int
  PROVE  NoNewLive(Overwritten(i))
<1>0. Len(disk) \in Nat /\ DOMAIN disk = 1..Len(disk) /\ \A j \in DOMAIN disk : disk[j] \in SlotType
  BY ElementsOfSeq DEF FileOf
<1>1. CASE i \in DOMAIN disk
  <2> DEFINE r == [disk[i] EXCEPT !.ok = FALSE]
  <2>1. r.msg = disk[i].msg /\ r.valid = disk[i].valid
    BY <1>0, <1>1 DEF SlotType
  <2>2. Overwritten(i) = [disk EXCEPT ![i] = r]
    BY <1>1 DEF Overwritten
  <2> HIDE DEF r
  <2>3. DOMAIN Overwritten(i) = DOMAIN disk
        /\ \A j \in DOMAIN disk : Overwritten(i)[j] = IF j = i THEN r ELSE disk[j]
    BY <2>2
  <2> QED
    BY <2>1, <2>3 DEF NoNewLive
<1>2. CASE i \notin DOMAIN disk
  <2>1. Junk \in SlotType /\ Junk.valid # "1"
    BY DEF Junk, SlotType
  <2>2. Overwritten(i) = Append(disk, Junk)
    BY <1>2 DEF Overwritten
  <2> HIDE DEF Junk
  <2>3. /\ DOMAIN Overwritten(i) = 1..(Len(disk) + 1)
        /\ \A j \in 1..Len(disk) : Overwritten(i)[j] = disk[j]
        /\ Overwritten(i)[Len(disk) + 1] = Junk
    BY <2>1, <2>2, AppendProperties, LenProperties DEF FileOf
  <2> QED
    BY <1>0, <2>1, <2>3 DEF NoNewLive
<1> QED
  BY <1>1, <1>2

LEMMA InvalidatedNotLive ==
  ASSUME FileOf(disk), NEW e \in EntryType
  PROVE  NoNewLive(DiskAfterInvalidate(e))
<1>1. NoNewLive(disk)
  BY DEF NoNewLive
<1>a. e.slot \in Int
  BY EntryFields
<1>2. e.slot \in Int /\ e.slot + 1 \in Int /\ 1 \in Int
  BY <1>a
<1>3. NoNewLive(MarkedInvalid(e.slot))
  <2>1. CASE e.slot \in DOMAIN disk
    BY <2>1, MarkedInvalidIs DEF NoNewLive
  <2>2. CASE e.slot \notin DOMAIN disk
    <3>1. MarkedInvalid(e.slot) = disk
      BY <2>2, LenProperties, ExceptSeq DEF MarkedInvalid, FileOf
    <3> QED
      BY <1>1, <3>1
  <2> QED
    BY <2>1, <2>2
<1> QED
  BY <1>1, <1>2, <1>3, OverwrittenNotLive DEF DiskAfterInvalidate

\* More publications leave the order as it is; the new one is the last.
LEMMA BeforeAppend ==
  ASSUME NEW s \in Seq(Msg), NEW m \in Msg
  PROVE  /\ \A a, b : Before(s, a, b) => Before(Append(s, m), a, b)
         /\ \A a \in ToSet(s) : Before(Append(s, m), a, m)
         /\ ToSet(s) \subseteq ToSet(Append(s, m)) /\ m \in ToSet(Append(s, m))
<1>1. /\ Len(s) \in Nat /\ DOMAIN s = 1..Len(s) /\ DOMAIN Append(s, m) = 1..(Len(s) + 1)
      /\ \A i \in 1..Len(s) : Append(s, m)[i] = s[i]
      /\ Append(s, m)[Len(s) + 1] = m
  BY AppendProperties, LenProperties
<1>2. ASSUME NEW a, NEW b, Before(s, a, b) PROVE Before(Append(s, m), a, b)
  BY <1>1, <1>2 DEF Before
<1>3. ASSUME NEW a \in ToSet(s) PROVE Before(Append(s, m), a, m)
  <2>1. PICK i \in DOMAIN s : s[i] = a
    BY DEF ToSet
  <2>2. i < Len(s) + 1 /\ i \in 1..(Len(s) + 1) /\ Len(s) + 1 \in 1..(Len(s) + 1)
    BY <1>1
  <2> QED
    BY <1>1, <2>1, <2>2 DEF Before
<1>4. ToSet(Append(s, m)) = ToSet(s) \cup {m}
  BY ToSetAppend
<1> QED
  BY <1>2, <1>3, <1>4

LEMMA PlacedAppend ==
  ASSUME NEW s \in Seq(Msg), NEW q \in Seq(EntryType), Placed(q, s), NEW e \in EntryType
  PROVE  Placed(Append(q, e), Append(s, e.msg)) /\ Placed(q, Append(s, e.msg))
<1> DEFINE m == e.msg
           t == Append(s, m)
           r == Append(q, e)
<1>1. m \in Msg
  BY EntryFields
<1>2. /\ \A a, b : Before(s, a, b) => Before(t, a, b)
      /\ \A a \in ToSet(s) : Before(t, a, m)
      /\ ToSet(s) \subseteq ToSet(t) /\ m \in ToSet(t)
  BY <1>1, BeforeAppend
<1>3. /\ Len(q) \in Nat /\ DOMAIN q = 1..Len(q) /\ DOMAIN r = 1..(Len(q) + 1)
      /\ \A i \in 1..Len(q) : r[i] = q[i]
      /\ r[Len(q) + 1] = e
  BY AppendProperties, LenProperties
<1> HIDE DEF t, r
<1>4. ASSUME NEW i \in DOMAIN r, NEW j \in DOMAIN r, i < j
      PROVE  Before(t, r[i].msg, r[j].msg)
  <2>1. i \in DOMAIN q /\ r[i] = q[i]
    BY <1>3, <1>4
  <2>2. CASE j \in DOMAIN q
    BY <1>2, <1>3, <1>4, <2>1, <2>2 DEF Placed
  <2>3. CASE j = Len(q) + 1
    BY <1>2, <1>3, <2>1, <2>3 DEF Placed
  <2> QED
    BY <1>3, <2>2, <2>3
<1>5. \A i \in DOMAIN r : r[i].msg \in ToSet(t)
  BY <1>2, <1>3 DEF Placed
<1>6. Placed(r, t)
  BY <1>4, <1>5 DEF Placed
<1>7. Placed(q, t)
  BY <1>2 DEF Placed
<1> QED
  BY <1>6, <1>7 DEF r, t

LEMMA PlacedLiveAppend ==
  ASSUME NEW s \in Seq(Msg), FileOf(disk), PlacedLive(disk, s),
         NEW r \in SlotType, r.msg \in Msg
  PROVE  /\ PlacedLive(Append(disk, r), Append(s, r.msg))
         /\ PlacedLive(disk, Append(s, r.msg))
<1> DEFINE m == r.msg
           t == Append(s, m)
           d == Append(disk, r)
<1>2. /\ \A a, b : Before(s, a, b) => Before(t, a, b)
      /\ \A a \in ToSet(s) : Before(t, a, m)
      /\ ToSet(s) \subseteq ToSet(t) /\ m \in ToSet(t)
  BY BeforeAppend
<1>3. /\ Len(disk) \in Nat /\ DOMAIN disk = 1..Len(disk) /\ DOMAIN d = 1..(Len(disk) + 1)
      /\ \A i \in 1..Len(disk) : d[i] = disk[i]
      /\ d[Len(disk) + 1] = r
  BY AppendProperties, LenProperties DEF FileOf
<1> HIDE DEF t, d
<1>4. ASSUME NEW i \in DOMAIN d, NEW j \in DOMAIN d, i < j, d[i].valid = "1", d[j].valid = "1"
      PROVE  Before(t, d[i].msg, d[j].msg)
  <2>1. i \in DOMAIN disk /\ d[i] = disk[i]
    BY <1>3, <1>4
  <2>2. CASE j \in DOMAIN disk
    BY <1>2, <1>3, <1>4, <2>1, <2>2 DEF PlacedLive
  <2>3. CASE j = Len(disk) + 1
    BY <1>2, <1>3, <1>4, <2>1, <2>3 DEF PlacedLive
  <2> QED
    BY <1>3, <2>2, <2>3
<1>5. \A i \in DOMAIN d : d[i].valid = "1" => d[i].msg \in ToSet(t)
  BY <1>2, <1>3 DEF PlacedLive
<1>6. PlacedLive(d, t)
  BY <1>4, <1>5 DEF PlacedLive
<1>7. PlacedLive(disk, t)
  BY <1>2 DEF PlacedLive
<1> QED
  BY <1>6, <1>7 DEF d, t

LEMMA PlacedRemoveAt ==
  ASSUME NEW s, NEW q \in Seq(EntryType), Placed(q, s), NEW k \in DOMAIN q
  PROVE  Placed(RemoveAt(q, k), s)
<1> DEFINE r == RemoveAt(q, k)
           g(i) == IF i < k THEN i ELSE i + 1
<1>1. Len(q) \in Nat /\ DOMAIN q = 1..Len(q) /\ k \in 1..Len(q)
  BY LenProperties
<1>2. /\ DOMAIN r = 1..(Len(q) - 1)
      /\ \A i \in 1..(Len(q) - 1) : r[i] = IF i < k THEN q[i] ELSE q[i + 1]
  BY RemoveAtPlaces
<1> HIDE DEF r
<1>3. \A i \in DOMAIN r : g(i) \in DOMAIN q /\ r[i] = q[g(i)]
  BY <1>1, <1>2
<1>4. \A i, j \in DOMAIN r : i < j => g(i) < g(j)
  BY <1>1, <1>2
<1> HIDE DEF g
<1>5. Placed(r, s)
  BY <1>3, <1>4 DEF Placed
<1> QED
  BY <1>5 DEF r

LEMMA PlacedLess ==
  ASSUME NEW s, FileOf(disk), PlacedLive(disk, s), NEW d, NoNewLive(d)
  PROVE  PlacedLive(d, s)
  BY DEF PlacedLive, NoNewLive

(* Recovery keeps the order of the file. *)
LEMMA PlacedRecovery ==
  ASSUME NEW s, NEW d, FileOf(d), PlacedLive(d, s), NEW q \in Recoveries(d)
  PROVE  Placed(q, s)
<1> DEFINE S == Live(d)
<1>1. \A i \in S : i \in DOMAIN d /\ d[i].valid = "1" /\ d[i].msg \in ToSet(s)
  BY DEF Live, Readable, PlacedLive
<1> HIDE DEF S
<1>2. PICK f \in Enumerations(S) : q = [i \in DOMAIN f |-> Entry(d[f[i]].msg, "1", f[i])]
  BY RecoveriesAre DEF S
<1>3. /\ f \in [1..Cardinality(S) -> S]
      /\ \A i, j \in DOMAIN f : i < j => f[i] < f[j]
  BY <1>2 DEF Enumerations
<1>4. DOMAIN q = DOMAIN f /\ \A i \in DOMAIN f : f[i] \in S /\ q[i].msg = d[f[i]].msg
  BY <1>2, <1>3 DEF Entry
<1> QED
  BY <1>1, <1>3, <1>4 DEF Placed, PlacedLive

LEMMA CompactPlaces ==
  ASSUME NEW s, NEW q \in Seq(EntryType), Placed(q, s),
         NEW d, d = [i \in DOMAIN q |-> Slot(q[i].msg, q[i].valid)],
         NEW r, r = [i \in DOMAIN q |-> [q[i] EXCEPT !.slot = i]]
  PROVE  Placed(r, s) /\ PlacedLive(d, s)
<1>1. DOMAIN d = DOMAIN q /\ DOMAIN r = DOMAIN q /\ \A i \in DOMAIN q : q[i] \in EntryType
  BY ElementsOfSeq
<1>2. \A i \in DOMAIN q : d[i].msg = q[i].msg /\ r[i].msg = q[i].msg
  BY <1>1 DEF Slot, EntryType
<1> QED
  BY <1>1, <1>2 DEF Placed, PlacedLive

LEMMA EmptyPlaced == \A s : Placed(<<>>, s)
<1>1. DOMAIN << >> = {}
  BY EmptySeq, LenProperties
<1> QED
  BY <1>1 DEF Placed

SentOnce(s) == \A i, j \in DOMAIN s : s[i] = s[j] => i = j

LEMMA SentOnceAppend ==
  ASSUME NEW s \in Seq(Msg), SentOnce(s), NEW m \in Msg, m \notin ToSet(s)
  PROVE  SentOnce(Append(s, m))
<1> DEFINE t == Append(s, m)
<1>1. /\ Len(s) \in Nat /\ DOMAIN s = 1..Len(s) /\ DOMAIN t = 1..(Len(s) + 1)
      /\ \A i \in 1..Len(s) : t[i] = s[i]
      /\ t[Len(s) + 1] = m
  BY AppendProperties, LenProperties
<1> HIDE DEF t
<1>2. \A i \in DOMAIN s : s[i] # m
  BY DEF ToSet
<1>3. \A i \in DOMAIN t : (i \in DOMAIN s /\ t[i] = s[i]) \/ (i = Len(s) + 1 /\ t[i] = m)
  BY <1>1
<1>4. SentOnce(t)
  BY <1>2, <1>3 DEF SentOnce
<1> QED
  BY <1>4 DEF t

LEMMA InOrderMeans ==
  InOrder <=> SentOnce(sent) /\ Placed(msgs, sent) /\ PlacedLive(disk, sent)
  BY DEF InOrder, SentOnce

LEMMA InOrderFollows ==
  ASSUME SentOnce(sent'), Placed(msgs', sent'), PlacedLive(disk', sent')
  PROVE  InOrder'
  BY DEF InOrder, SentOnce

LEMMA InsertsOne ==
  ASSUME FileOf(disk), NEW m \in Msg, Insert(m)
  PROVE  \E e \in EntryType : e.msg = m /\ msgs' = Append(msgs, e)
<1>1. Len(disk) + 1 \in Int /\ -1 \in Int /\ 0 \in Int
  <2>1. Len(disk) \in Nat
    BY LenProperties DEF FileOf
  <2> QED
    BY <2>1
<1>2. Entry(m, "1", Len(disk) + 1) \in EntryType /\ Entry(m, "1", Len(disk) + 1).msg = m
  BY <1>1, EntryProperties, Zenon
<1>3. Entry(m, "1", -1) \in EntryType /\ Entry(m, "1", -1).msg = m
  BY <1>1, EntryProperties, Zenon
<1>4. Entry(m, "", 0) \in EntryType /\ Entry(m, "", 0).msg = m
  BY <1>1, EntryProperties, Zenon
<1>5. CASE durable /\ good
  BY <1>2, <1>5 DEF Insert, Written
<1>6. CASE durable /\ ~good
  BY <1>3, <1>6 DEF Insert, Written, Bad
<1>7. CASE ~durable
  BY <1>4, <1>7 DEF Insert, Never
<1> QED
  BY <1>5, <1>6, <1>7

LEMMA InsertOrdered ==
  ASSUME TypeOK, InOrder, NEW m \in Msg, Insert(m)
  PROVE  InOrder'
<1>1. /\ FileOf(disk) /\ msgs \in Seq(EntryType)
      /\ sent \in Seq(Msg) /\ m \notin ToSet(sent) /\ sent' = Append(sent, m)
      /\ SentOnce(sent) /\ Placed(msgs, sent) /\ PlacedLive(disk, sent)
  BY InOrderMeans DEF FileOf, TypeOK, Insert
<1>2. SentOnce(sent')
  BY <1>1, SentOnceAppend
<1>3. PICK e \in EntryType : e.msg = m /\ msgs' = Append(msgs, e)
  BY <1>1, InsertsOne
<1>4. Placed(msgs', sent')
  <2>1. Placed(Append(msgs, e), Append(sent, e.msg))
    BY <1>1, PlacedAppend
  <2> QED
    BY <2>1, <1>1, <1>3
<1>5. PICK r \in SlotType : r.msg = m /\ r = Slot(m, "1")
  BY SlotProperties, Zenon
<1>6. disk' = Append(disk, r) \/ disk' = disk
  BY <1>5 DEF Insert, DiskAfterWrite
<1>7. PlacedLive(disk', sent')
  <2>1. PlacedLive(Append(disk, r), Append(sent, r.msg)) /\ PlacedLive(disk, Append(sent, r.msg))
    BY <1>1, <1>5, PlacedLiveAppend
  <2> QED
    BY <2>1, <1>1, <1>5, <1>6
<1> QED
  BY <1>2, <1>4, <1>7, InOrderFollows

LEMMA RemoveOrdered ==
  ASSUME TypeOK, InOrder, NEW id, RemoveById(id)
  PROVE  InOrder'
<1>1. /\ FileOf(disk) /\ msgs \in Seq(EntryType) /\ sent' = sent
      /\ SentOnce(sent) /\ Placed(msgs, sent) /\ PlacedLive(disk, sent)
  BY InOrderMeans DEF FileOf, TypeOK, RemoveById
<1>2. PICK k \in DOMAIN msgs : /\ disk' = DiskAfterInvalidate(msgs[k])
                               /\ msgs' = RemoveAt(msgs, k)
  BY DEF RemoveById
<1>3. msgs[k] \in EntryType
  BY <1>1, ElementsOfSeq
<1>4. Placed(msgs', sent')
  <2>1. Placed(RemoveAt(msgs, k), sent)
    BY <1>1, PlacedRemoveAt
  <2> QED
    BY <2>1, <1>1, <1>2
<1>5. PlacedLive(disk', sent')
  <2>1. NoNewLive(DiskAfterInvalidate(msgs[k]))
    BY <1>1, <1>3, InvalidatedNotLive
  <2>2. PlacedLive(DiskAfterInvalidate(msgs[k]), sent)
    BY <1>1, <2>1, PlacedLess
  <2> QED
    BY <2>2, <1>1, <1>2
<1> QED
  BY <1>1, <1>4, <1>5, InOrderFollows

LEMMA OrderStep == TypeOK /\ InOrder /\ [Next]_vars => InOrder'
<1> SUFFICES ASSUME TypeOK, InOrder, [Next]_vars
             PROVE  InOrder'
  OBVIOUS
<1>1. /\ FileOf(disk) /\ msgs \in Seq(EntryType) /\ sent \in Seq(Msg)
      /\ SentOnce(sent) /\ Placed(msgs, sent) /\ PlacedLive(disk, sent)
      /\ Placed(<<>>, sent)
  BY InOrderMeans, EmptyPlaced DEF FileOf, TypeOK
<1>2. ASSUME NEW d \in BOOLEAN, DeclareQueue(d)
      PROVE  InOrder'
  <2>1. disk' = disk /\ sent' = sent
    BY <1>2 DEF DeclareQueue
  <2>2. CASE msgs' \in Recoveries(disk)
    <3>1. Placed(msgs', sent)
      BY <1>1, <2>2, PlacedRecovery
    <3> QED
      BY <1>1, <2>1, <3>1, InOrderFollows
  <2>3. CASE msgs' = <<>>
    BY <1>1, <2>1, <2>3, InOrderFollows
  <2> QED
    BY <1>2, <2>2, <2>3 DEF DeclareQueue
<1>3. ASSUME NEW m \in Msg, CrashInWrite(m)
      PROVE  InOrder'
  <2>0. PICK r : r = [Slot(m, "1") EXCEPT !.ok = FALSE]
    OBVIOUS
  <2>1. r \in SlotType /\ r.msg = m
    BY <2>0 DEF Slot, SlotType
  <2>2. /\ disk' = Append(disk, r) /\ msgs' = <<>> /\ sent' = Append(sent, m)
        /\ m \notin ToSet(sent)
    BY <1>3, <2>0 DEF CrashInWrite, Drop
  <2>3. PlacedLive(Append(disk, r), Append(sent, r.msg))
    BY <1>1, <2>1, PlacedLiveAppend
  <2>4. SentOnce(Append(sent, m))
    BY <1>1, <2>2, SentOnceAppend
  <2> QED
    BY <2>1, <2>2, <2>3, <2>4, EmptyPlaced, InOrderFollows
<1>4. CASE GetStats
  BY <1>1, <1>4, InOrderFollows DEF GetStats
<1>5. CASE Compact
  <2>1. PICK d, r : /\ d = [i \in DOMAIN msgs |-> Slot(msgs[i].msg, msgs[i].valid)]
                    /\ r = [i \in DOMAIN msgs |-> [msgs[i] EXCEPT !.slot = i]]
    OBVIOUS
  <2>2. disk' = d /\ msgs' = r /\ sent' = sent
    BY <1>5, <2>1 DEF Compact
  <2>3. Placed(r, sent) /\ PlacedLive(d, sent)
    BY <1>1, <2>1, CompactPlaces
  <2> QED
    BY <1>1, <2>2, <2>3, InOrderFollows
<1>6. CASE DeleteQueue
  BY <1>1, <1>6, InOrderFollows DEF DeleteQueue, Drop
<1>7. CASE UNCHANGED vars
  BY <1>1, <1>7, InOrderFollows DEF vars
<1> QED
  BY <1>2, <1>3, <1>4, <1>5, <1>6, <1>7, InsertOrdered, RemoveOrdered DEF Next

LEMMA OrderInit == Init => InOrder
<1> SUFFICES ASSUME Init PROVE InOrder
  OBVIOUS
<1>1. DOMAIN << >> = {}
  BY EmptySeq, LenProperties
<1> QED
  BY <1>1 DEF Init, InOrder, Placed, PlacedLive

(* Memory and file are in the order of publication, in every reachable
   state. *)
THEOREM OrderKept == Spec => []InOrder
<1>1. Inv /\ InOrder /\ [Next]_vars => InOrder'
  BY OrderStep DEF Inv
<1> QED
  BY <1>1, OrderInit, Invariance, PTL DEF Spec

---------------------------------------------------------------------------
(* The store implements FifoQueue, reading the payloads off the messages.  *)
LEMMA PayloadsAre ==
  ASSUME NEW q \in Seq(EntryType)
  PROVE  /\ Payloads(q) \in Seq(Msg) /\ Len(Payloads(q)) = Len(q)
         /\ DOMAIN Payloads(q) = DOMAIN q
         /\ \A i \in DOMAIN q : Payloads(q)[i] = q[i].msg
<1>1. Len(q) \in Nat /\ DOMAIN q = 1..Len(q) /\ \A i \in DOMAIN q : q[i] \in EntryType
  BY ElementsOfSeq
<1>2. \A i \in 1..Len(q) : q[i].msg \in Msg
  BY <1>1, EntryFields
<1>3. Payloads(q) = [i \in 1..Len(q) |-> q[i].msg]
  BY <1>1 DEF Payloads
<1>4. [i \in 1..Len(q) |-> q[i].msg] \in Seq(Msg)
  BY <1>1, <1>2, IsASeq
<1>5. Payloads(q) \in Seq(Msg) /\ DOMAIN Payloads(q) = 1..Len(q)
  BY <1>3, <1>4
<1>6. Len(Payloads(q)) = Len(q)
  BY <1>1, <1>5, LenProperties
<1> QED
  BY <1>1, <1>3, <1>5, <1>6

LEMMA PayloadsEmpty == Payloads(<<>>) = <<>>
<1>1. Payloads(<<>>) \in Seq(Msg) /\ Len(Payloads(<<>>)) = Len(<<>>)
  BY EmptyQueue, PayloadsAre
<1> QED
  BY <1>1, EmptySeq, LenProperties, SeqEqual

LEMMA PayloadsAppend ==
  ASSUME NEW q \in Seq(EntryType), NEW e \in EntryType
  PROVE  Payloads(Append(q, e)) = Append(Payloads(q), e.msg)
<1>1. PICK r, p : r = Append(q, e) /\ p = Payloads(q)
  OBVIOUS
<1>2. /\ r \in Seq(EntryType) /\ Len(r) = Len(q) + 1
      /\ \A i \in 1..Len(q) : r[i] = q[i]
      /\ r[Len(q) + 1] = e
  BY <1>1, AppendProperties
<1>3. Len(q) \in Nat /\ DOMAIN q = 1..Len(q) /\ DOMAIN r = 1..(Len(q) + 1)
  BY <1>2, LenProperties
<1>4. p \in Seq(Msg) /\ Len(p) = Len(q) /\ \A i \in DOMAIN q : p[i] = q[i].msg
  BY <1>1, PayloadsAre
<1>5. /\ Payloads(r) \in Seq(Msg) /\ Len(Payloads(r)) = Len(q) + 1
      /\ \A i \in 1..(Len(q) + 1) : Payloads(r)[i] = r[i].msg
  BY <1>2, <1>3, PayloadsAre
<1>6. e.msg \in Msg
  BY EntryFields
<1>7. /\ Append(p, e.msg) \in Seq(Msg) /\ Len(Append(p, e.msg)) = Len(q) + 1
      /\ \A i \in 1..Len(q) : Append(p, e.msg)[i] = p[i]
      /\ Append(p, e.msg)[Len(q) + 1] = e.msg
  BY <1>4, <1>6, AppendProperties
<1>8. ASSUME NEW i \in 1..(Len(q) + 1)
      PROVE  Payloads(r)[i] = Append(p, e.msg)[i]
  <2>1. CASE i \in 1..Len(q)
    BY <2>1, <1>2, <1>3, <1>4, <1>5, <1>7
  <2>2. CASE i = Len(q) + 1
    BY <2>2, <1>2, <1>5, <1>7
  <2>3. Len(q) \in Nat
    BY <1>3
  <2>4. i \in 1..Len(q) \/ i = Len(q) + 1
    BY <2>3
  <2> QED
    BY <2>1, <2>2, <2>4
<1>9. Payloads(r) = Append(p, e.msg)
  BY <1>5, <1>7, <1>8, SeqEqual
<1> QED
  BY <1>1, <1>9

LEMMA PayloadsRemoveAt ==
  ASSUME NEW q \in Seq(EntryType), NEW k \in DOMAIN q
  PROVE  Payloads(RemoveAt(q, k)) = RemoveAt(Payloads(q), k)
<1>1. PICK r, p : r = RemoveAt(q, k) /\ p = Payloads(q)
  OBVIOUS
<1>2. Len(q) \in Nat /\ DOMAIN q = 1..Len(q)
  BY LenProperties
<1>3. /\ r \in Seq(EntryType) /\ Len(r) = Len(q) - 1 /\ DOMAIN r = 1..(Len(q) - 1)
      /\ \A i \in 1..(Len(q) - 1) : r[i] = IF i < k THEN q[i] ELSE q[i + 1]
  BY <1>1, RemoveAtPlaces
<1>4. /\ p \in Seq(Msg) /\ Len(p) = Len(q) /\ k \in DOMAIN p
      /\ \A i \in DOMAIN q : p[i] = q[i].msg
  BY <1>1, PayloadsAre
<1>5. /\ Payloads(r) \in Seq(Msg) /\ Len(Payloads(r)) = Len(q) - 1
      /\ \A i \in 1..(Len(q) - 1) : Payloads(r)[i] = r[i].msg
  BY <1>3, PayloadsAre
<1>6. /\ RemoveAt(p, k) \in Seq(Msg) /\ Len(RemoveAt(p, k)) = Len(q) - 1
      /\ \A i \in 1..(Len(q) - 1) : RemoveAt(p, k)[i] = IF i < k THEN p[i] ELSE p[i + 1]
  BY <1>4, RemoveAtPlaces
<1>7. ASSUME NEW i \in 1..(Len(q) - 1)
      PROVE  Payloads(r)[i] = RemoveAt(p, k)[i]
  <2>1. i \in DOMAIN q /\ i + 1 \in DOMAIN q
    BY <1>2
  <2>2. CASE i < k
    BY <2>1, <2>2, <1>3, <1>4, <1>5, <1>6
  <2>3. CASE ~(i < k)
    BY <2>1, <2>3, <1>3, <1>4, <1>5, <1>6
  <2> QED
    BY <2>2, <2>3
<1>8. Payloads(r) = RemoveAt(p, k)
  BY <1>5, <1>6, <1>7, SeqEqual
<1> QED
  BY <1>1, <1>8

\* A queue placed in a sequence of publications is a part of it.
PartOf(t, s) ==
  \E f \in [DOMAIN t -> DOMAIN s] :
    /\ \A i, j \in DOMAIN t : i < j => f[i] < f[j]
    /\ \A i \in DOMAIN t : t[i] = s[f[i]]

LEMMA PlacedIsPart ==
  ASSUME NEW s \in Seq(Msg), SentOnce(s), NEW q \in Seq(EntryType), Placed(q, s)
  PROVE  PartOf(Payloads(q), s)
<1>1. PICK p : p = Payloads(q)
  OBVIOUS
<1>2. DOMAIN p = DOMAIN q /\ \A i \in DOMAIN q : p[i] = q[i].msg
  BY <1>1, PayloadsAre
<1>3. PICK f : f = [i \in DOMAIN q |-> CHOOSE k \in DOMAIN s : s[k] = p[i]]
  OBVIOUS
<1>4. ASSUME NEW i \in DOMAIN q
      PROVE  f[i] \in DOMAIN s /\ s[f[i]] = p[i]
  <2>1. p[i] \in ToSet(s)
    BY <1>2 DEF Placed
  <2>2. \E k \in DOMAIN s : s[k] = p[i]
    BY <2>1, ElementsOfSeq
  <2> QED
    BY <1>3, <2>2
<1>5. ASSUME NEW i \in DOMAIN q, NEW j \in DOMAIN q, i < j
      PROVE  f[i] < f[j]
  <2>1. Before(s, p[i], p[j])
    BY <1>2, <1>5 DEF Placed
  <2>2. PICK k \in DOMAIN s, l \in DOMAIN s : k < l /\ s[k] = p[i] /\ s[l] = p[j]
    BY <2>1 DEF Before
  <2>3. f[i] = k /\ f[j] = l
    BY <1>4, <2>2 DEF SentOnce
  <2> QED
    BY <2>2, <2>3
<1>6. f \in [DOMAIN p -> DOMAIN s]
  BY <1>2, <1>3, <1>4
<1>7. PartOf(p, s)
  BY <1>2, <1>4, <1>5, <1>6 DEF PartOf
<1> QED
  BY <1>1, <1>7

LEMMA FifoInit == Init => Fifo!Init
<1>1. Payloads(<<>>) = <<>>
  BY PayloadsEmpty
<1> QED
  BY <1>1 DEF Init, Fifo!Init

(* Every step of the store is a step of the abstract queue or none. *)
LEMMA FifoStep == Inv /\ InOrder /\ InOrder' /\ Inv' /\ [Next]_vars
                    => [Fifo!Next]_<<open, Payloads(msgs), sent>>
<1> SUFFICES ASSUME Inv, InOrder, InOrder', Inv', [Next]_vars
             PROVE  [Fifo!Next]_<<open, Payloads(msgs), sent>>
  OBVIOUS
<1>1. /\ FileOf(disk) /\ msgs \in Seq(EntryType) /\ sent \in Seq(Msg)
      /\ SentOnce(sent) /\ Placed(msgs, sent)
      /\ msgs' \in Seq(EntryType) /\ Placed(msgs', sent')
  BY InvMeans, InOrderMeans DEF GoodPair, Inv, TypeOK, InOrder
<1>2. Payloads(<<>>) = <<>>
  BY PayloadsEmpty
<1>3. (Payloads(msgs))' = Payloads(msgs')
  BY DEF Payloads
<1>4. ASSUME NEW m \in Msg, Insert(m)
      PROVE  Fifo!Offer(m)
  <2>1. PICK e \in EntryType : e.msg = m /\ msgs' = Append(msgs, e)
    BY <1>1, <1>4, InsertsOne
  <2>2. Payloads(msgs') = Append(Payloads(msgs), m)
    BY <1>1, <2>1, PayloadsAppend
  <2>3. m \notin ToSet(sent) /\ sent' = Append(sent, m) /\ open /\ open' = open
    BY <1>4 DEF Insert
  <2> QED
    BY <1>3, <2>2, <2>3 DEF Fifo!Offer, Fifo!ToSet, ToSet
<1>5. ASSUME NEW m \in Msg, CrashInWrite(m)
      PROVE  Fifo!OfferAndCrash(m)
  <2>1. /\ m \notin ToSet(sent) /\ sent' = Append(sent, m) /\ msgs' = <<>>
        /\ open /\ open' = FALSE
    BY <1>5 DEF CrashInWrite, Drop
  <2> QED
    BY <1>2, <1>3, <2>1 DEF Fifo!OfferAndCrash, Fifo!ToSet, ToSet
<1>6. ASSUME NEW id \in Ids, RemoveById(id)
      PROVE  \E k \in DOMAIN Payloads(msgs) : Fifo!Take(k)
  <2>1. /\ open /\ open' = open /\ sent' = sent
        /\ \E k \in DOMAIN msgs : msgs' = RemoveAt(msgs, k)
    BY <1>6 DEF RemoveById
  <2>4. PICK k \in DOMAIN msgs : msgs' = RemoveAt(msgs, k)
    BY <2>1
  <2>2. Payloads(msgs') = RemoveAt(Payloads(msgs), k) /\ k \in DOMAIN Payloads(msgs)
    BY <1>1, <2>4, PayloadsRemoveAt, PayloadsAre
  <2>3. Fifo!Take(k)
    BY <1>3, <2>1, <2>2 DEF Fifo!Take, Fifo!RemoveAt, RemoveAt
  <2> QED
    BY <2>2, <2>3
<1>7. ASSUME NEW d \in BOOLEAN, DeclareQueue(d)
      PROVE  Fifo!Open
  <2>1. sent' = sent /\ Fifo!IsSubSequence(Payloads(msgs'), sent)
    BY <1>1, <1>7, PlacedIsPart DEF DeclareQueue, PartOf, Fifo!IsSubSequence
  <2>2. ~open /\ open' = TRUE
    BY <1>7 DEF DeclareQueue
  <2> QED
    BY <1>3, <2>1, <2>2 DEF Fifo!Open
<1>8. ASSUME DeleteQueue
      PROVE  Fifo!Close
  BY <1>2, <1>3, <1>8 DEF DeleteQueue, Drop, Fifo!Close
<1>9. ASSUME Compact
      PROVE  UNCHANGED <<open, Payloads(msgs), sent>>
  <2>1. /\ sent' = sent /\ open' = open
        /\ msgs' = [i \in DOMAIN msgs |-> [msgs[i] EXCEPT !.slot = i]]
    BY <1>9 DEF Compact
  <2>2. \A i \in DOMAIN msgs : [msgs[i] EXCEPT !.slot = i].msg = msgs[i].msg
    <3>1. \A i \in DOMAIN msgs : msgs[i] \in EntryType
      BY <1>1, ElementsOfSeq
    <3> QED
      BY <3>1 DEF EntryType
  <2>3. Payloads(msgs') = Payloads(msgs)
    BY <2>1, <2>2 DEF Payloads
  <2> QED
    BY <1>3, <2>1, <2>3
<1>10. ASSUME GetStats \/ UNCHANGED vars
       PROVE  UNCHANGED <<open, Payloads(msgs), sent>>
  <2>1. sent' = sent /\ msgs' = msgs /\ open' = open
    BY <1>10 DEF GetStats, vars
  <2> QED
    BY <1>3, <2>1
<1> QED
  BY <1>4, <1>5, <1>6, <1>7, <1>8, <1>9, <1>10 DEF Next, Fifo!Next

(* The store implements the abstract queue for every set of messages and
   every assignment of ids: no message twice, none invented, none overtaken. *)
THEOREM Refinement == Spec => ImplementsFifo
<1>1. Inv /\ InOrder /\ InOrder' /\ Inv' /\ [Next]_vars => [Fifo!Next]_<<open, Payloads(msgs), sent>>
  BY FifoStep
<1> QED
  BY <1>1, FifoInit, Invariance, OrderKept, PTL DEF Spec, ImplementsFifo, Fifo!Spec

---------------------------------------------------------------------------
(* After compact() the live records of the file are those of the messages  *)
(* in memory: nothing cuts the file short, each message has its record and *)
(* no other record is live.                                                *)
Mirrored(q, d) ==
  /\ \A i \in DOMAIN d : d[i].ok
  /\ \A i \in DOMAIN q : q[i].slot > 0
  /\ \A i \in DOMAIN d : d[i].valid = "1" <=> \E j \in DOMAIN q : q[j].slot = i

AllMarked(q) == \A i \in DOMAIN q : q[i].valid = "1"

Exact ==
  /\ open /\ durable => AllMarked(msgs)
  /\ open /\ durable /\ compacted => good /\ Mirrored(msgs, disk)

LEMMA WrittenEntry ==
  \A m \in Msg, n \in Int :
    /\ Entry(m, "1", n) \in EntryType
    /\ Entry(m, "1", n).slot = n /\ Entry(m, "1", n).valid = "1"
  BY DEF Entry, EntryType

LEMMA WrittenSlot ==
  \A m \in Msg : Slot(m, "1") \in SlotType /\ Slot(m, "1").ok /\ Slot(m, "1").valid = "1"
  BY DEF Slot, SlotType

\* A write at the end of the file: one more message, one more record.
LEMMA MirroredAppend ==
  ASSUME NEW q \in Seq(EntryType), NEW d, FileOf(d), Mirrored(q, d), Owns(q, d),
         NEW e \in EntryType, e.slot = Len(d) + 1,
         NEW r \in SlotType, r.ok, r.valid = "1"
  PROVE  Mirrored(Append(q, e), Append(d, r))
<1>1. PICK p, c : p = Append(q, e) /\ c = Append(d, r)
  OBVIOUS
<1>2. /\ Len(q) \in Nat /\ DOMAIN q = 1..Len(q) /\ DOMAIN p = 1..(Len(q) + 1)
      /\ \A i \in 1..Len(q) : p[i] = q[i]
      /\ p[Len(q) + 1] = e
  BY <1>1, AppendProperties, LenProperties
<1>3. /\ Len(d) \in Nat /\ DOMAIN d = 1..Len(d) /\ DOMAIN c = 1..(Len(d) + 1)
      /\ \A i \in 1..Len(d) : c[i] = d[i]
      /\ c[Len(d) + 1] = r
  BY <1>1, AppendProperties, LenProperties DEF FileOf
<1>4. \A i \in DOMAIN p : (i \in DOMAIN q /\ p[i] = q[i]) \/ (i = Len(q) + 1 /\ p[i] = e)
  BY <1>2
<1>5. \A i \in DOMAIN c : (i \in DOMAIN d /\ c[i] = d[i]) \/ (i = Len(d) + 1 /\ c[i] = r)
  BY <1>3
<1>6. \A i \in DOMAIN c : c[i].ok
  BY <1>5 DEF Mirrored
<1>7. \A i \in DOMAIN p : p[i].slot > 0
  <2>1. Len(d) + 1 > 0
    BY <1>3
  <2> QED
    BY <1>4, <2>1 DEF Mirrored
<1>8. ASSUME NEW i \in DOMAIN c
      PROVE  c[i].valid = "1" <=> \E j \in DOMAIN p : p[j].slot = i
  <2>1. CASE i \in DOMAIN d /\ c[i] = d[i]
    <3>1. c[i].valid = "1" <=> \E j \in DOMAIN q : q[j].slot = i
      BY <2>1 DEF Mirrored
    <3>2. (\E j \in DOMAIN q : q[j].slot = i) => \E j \in DOMAIN p : p[j].slot = i
      BY <1>2
    <3>3. i # Len(d) + 1
      BY <2>1, <1>3
    <3>4. (\E j \in DOMAIN p : p[j].slot = i) => \E j \in DOMAIN q : q[j].slot = i
      BY <1>4, <3>3
    <3> QED
      BY <3>1, <3>2, <3>4
  <2>2. CASE i = Len(d) + 1 /\ c[i] = r
    <3>1. Len(q) + 1 \in DOMAIN p
      BY <1>2
    <3> QED
      BY <1>2, <2>2, <3>1
  <2> QED
    BY <1>5, <2>1, <2>2
<1>9. Mirrored(p, c)
  BY <1>6, <1>7, <1>8 DEF Mirrored
<1> QED
  BY <1>1, <1>9

\* The record of the message that leaves is marked, and no other.
LEMMA MirroredRemoveAt ==
  ASSUME NEW q \in Seq(EntryType), FileOf(disk), Mirrored(q, disk),
         Owns(q, disk), SlotsIncrease(q), NEW k \in DOMAIN q
  PROVE  Mirrored(RemoveAt(q, k), MarkedInvalid(q[k].slot))
<1>1. PICK p, s, c : p = RemoveAt(q, k) /\ s = q[k].slot /\ c = MarkedInvalid(s)
  OBVIOUS
<1>2. Len(q) \in Nat /\ DOMAIN q = 1..Len(q) /\ k \in 1..Len(q)
  BY LenProperties
<1>4. s \in DOMAIN disk
  BY <1>1 DEF Mirrored, Owns
<1>5. /\ DOMAIN c = DOMAIN disk
      /\ \A j \in DOMAIN disk : /\ c[j].ok = disk[j].ok
                                /\ c[j].valid = IF j = s THEN "0" ELSE disk[j].valid
  BY <1>1, <1>4, MarkedInvalidIs
<1>6. \A i \in DOMAIN q : q[i].slot \in Int /\ q[i].slot > 0
  <2>1. \A i \in DOMAIN q : q[i] \in EntryType
    BY ElementsOfSeq
  <2> QED
    BY <2>1, EntryFields DEF Mirrored
<1>7. \A i \in DOMAIN q : i # k => q[i].slot # s
  BY <1>1, <1>2, <1>6 DEF SlotsIncrease
<1>8. \A i \in DOMAIN p : \E j \in DOMAIN q : j # k /\ p[i] = q[j]
  BY <1>1, RemoveAtElements
<1>9. \A j \in DOMAIN q : j # k => \E i \in DOMAIN p : p[i] = q[j]
  BY <1>1, RemoveAtElements
<1>10. \A i \in DOMAIN c : c[i].ok
  BY <1>5 DEF Mirrored
<1>11. \A i \in DOMAIN p : p[i].slot > 0
  BY <1>6, <1>8
<1>12. ASSUME NEW i \in DOMAIN c
       PROVE  c[i].valid = "1" <=> \E j \in DOMAIN p : p[j].slot = i
  <2>1. CASE i = s
    <3>1. c[i].valid # "1"
      BY <1>4, <1>5, <2>1
    <3>2. \A j \in DOMAIN p : p[j].slot # i
      BY <1>7, <1>8, <2>1
    <3> QED
      BY <3>1, <3>2
  <2>2. CASE i # s
    <3>1. c[i].valid = "1" <=> \E j \in DOMAIN q : q[j].slot = i
      BY <1>5, <2>2 DEF Mirrored
    <3>2. (\E j \in DOMAIN q : q[j].slot = i) => \E j \in DOMAIN p : p[j].slot = i
      BY <1>1, <1>9, <2>2
    <3>3. (\E j \in DOMAIN p : p[j].slot = i) => \E j \in DOMAIN q : q[j].slot = i
      BY <1>8
    <3> QED
      BY <3>1, <3>2, <3>3
  <2> QED
    BY <2>1, <2>2
<1>13. Mirrored(p, c)
  BY <1>10, <1>11, <1>12 DEF Mirrored
<1> QED
  BY <1>1, <1>13

LEMMA CompactMirrors ==
  ASSUME NEW q \in Seq(EntryType), AllMarked(q),
         NEW d, d = [i \in DOMAIN q |-> Slot(q[i].msg, q[i].valid)],
         NEW r, r = [i \in DOMAIN q |-> [q[i] EXCEPT !.slot = i]]
  PROVE  Mirrored(r, d) /\ AllMarked(r)
<1>0. Len(q) \in Nat /\ DOMAIN q = 1..Len(q) /\ \A i \in DOMAIN q : q[i] \in EntryType
  BY ElementsOfSeq
<1>1. DOMAIN d = DOMAIN q /\ DOMAIN r = DOMAIN q
  OBVIOUS
<1>2. \A i \in DOMAIN q : d[i].ok /\ d[i].valid = "1"
  BY DEF Slot, AllMarked
<1>3. \A i \in DOMAIN q : r[i].slot = i /\ r[i].valid = "1"
  BY <1>0 DEF EntryType, AllMarked
<1>4. \A i \in DOMAIN q : i > 0
  BY <1>0
<1>5. Mirrored(r, d)
  BY <1>1, <1>2, <1>3, <1>4 DEF Mirrored
<1>6. AllMarked(r)
  BY <1>1, <1>3 DEF AllMarked
<1> QED
  BY <1>5, <1>6

LEMMA RecoveryMarked ==
  ASSUME NEW d, NEW q \in Recoveries(d)
  PROVE  AllMarked(q)
<1>1. PICK f \in Enumerations(Live(d)) : q = [i \in DOMAIN f |-> Entry(d[f[i]].msg, "1", f[i])]
  BY RecoveriesAre
<1> QED
  BY <1>1 DEF AllMarked, Entry

LEMMA MarkedAppend ==
  ASSUME NEW q \in Seq(EntryType), AllMarked(q), NEW e \in EntryType, e.valid = "1"
  PROVE  AllMarked(Append(q, e))
<1>1. /\ Len(q) \in Nat /\ DOMAIN q = 1..Len(q) /\ DOMAIN Append(q, e) = 1..(Len(q) + 1)
      /\ \A i \in 1..Len(q) : Append(q, e)[i] = q[i]
      /\ Append(q, e)[Len(q) + 1] = e
  BY AppendProperties, LenProperties
<1>2. \A i \in DOMAIN Append(q, e) : i \in DOMAIN q \/ i = Len(q) + 1
  BY <1>1
<1> QED
  BY <1>1, <1>2 DEF AllMarked

LEMMA MarkedRemoveAt ==
  ASSUME NEW q \in Seq(EntryType), AllMarked(q), NEW k \in DOMAIN q
  PROVE  AllMarked(RemoveAt(q, k))
<1>1. PICK p : p = RemoveAt(q, k)
  OBVIOUS
<1>2. Len(q) \in Nat /\ DOMAIN q = 1..Len(q)
  BY LenProperties
<1>3. /\ DOMAIN p = 1..(Len(q) - 1)
      /\ \A i \in 1..(Len(q) - 1) : p[i] = IF i < k THEN q[i] ELSE q[i + 1]
  BY <1>1, RemoveAtPlaces
<1>4. \A i \in DOMAIN p : i \in DOMAIN q /\ i + 1 \in DOMAIN q /\ (p[i] = q[i] \/ p[i] = q[i + 1])
  BY <1>2, <1>3
<1>5. AllMarked(p)
  BY <1>4 DEF AllMarked
<1> QED
  BY <1>1, <1>5

LEMMA ExactFollows ==
  ASSUME open' /\ durable' => AllMarked(msgs'),
         open' /\ durable' /\ compacted' => good' /\ Mirrored(msgs', disk')
  PROVE  Exact'
  BY DEF Exact, AllMarked, Mirrored

LEMMA InsertExact ==
  ASSUME Inv, Exact, NEW m \in Msg, Insert(m)
  PROVE  Exact'
<1>1. /\ GoodPair(msgs, disk) /\ FileOf(disk) /\ msgs \in Seq(EntryType) /\ Owns(msgs, disk)
      /\ open /\ open' /\ durable' = durable /\ compacted' = compacted /\ good' = good
  BY InvMeans DEF GoodPair, Insert
<1>2. CASE ~durable
  BY <1>1, <1>2, ExactFollows
<1>3. CASE durable
  <2>1. Len(disk) \in Nat
    BY <1>1, LenProperties DEF FileOf
  <2>2. PICK n \in Int : n = IF good THEN Len(disk) + 1 ELSE -1
    BY <2>1
  <2>3. PICK e : e = Entry(m, "1", n)
    OBVIOUS
  <2>4. e \in EntryType /\ e.slot = n /\ e.valid = "1"
    BY <2>3, WrittenEntry, Zenon
  <2>5. PICK r : r = Slot(m, "1")
    OBVIOUS
  <2>6. r \in SlotType /\ r.ok /\ r.valid = "1"
    BY <2>5, WrittenSlot, Zenon
  <2>7. msgs' = Append(msgs, e) /\ (good => disk' = Append(disk, r))
    BY <1>3, <2>2, <2>3, <2>5 DEF Insert, Written, DiskAfterWrite, Bad
  <2>8. AllMarked(msgs')
    <3>1. AllMarked(Append(msgs, e))
      BY <1>1, <1>3, <2>4, MarkedAppend DEF Exact
    <3> QED
      BY <2>7, <3>1
  <2>9. ASSUME compacted PROVE good' /\ Mirrored(msgs', disk')
    <3>1. good /\ Mirrored(msgs, disk)
      BY <1>1, <1>3, <2>9 DEF Exact
    <3>2. e.slot = Len(disk) + 1
      BY <2>2, <2>4, <3>1
    <3>3. Mirrored(Append(msgs, e), Append(disk, r))
      BY <1>1, <2>4, <2>6, <3>1, <3>2, MirroredAppend
    <3> QED
      BY <1>1, <2>7, <3>1, <3>3
  <2> QED
    BY <1>1, <2>8, <2>9, ExactFollows
<1> QED
  BY <1>2, <1>3

LEMMA RemoveExact ==
  ASSUME Inv, Exact, NEW id, RemoveById(id)
  PROVE  Exact'
<1>1. /\ FileOf(disk) /\ msgs \in Seq(EntryType) /\ Owns(msgs, disk) /\ SlotsIncrease(msgs)
      /\ open /\ open' /\ durable' = durable /\ compacted' = compacted /\ good' = good
  BY InvMeans DEF GoodPair, RemoveById
<1>2. CASE ~durable
  BY <1>1, <1>2, ExactFollows
<1>3. CASE durable
  <2>1. PICK k \in DOMAIN msgs : /\ disk' = DiskAfterInvalidate(msgs[k])
                                 /\ msgs' = RemoveAt(msgs, k)
    BY DEF RemoveById
  <2>2. AllMarked(msgs)
    BY <1>1, <1>3 DEF Exact
  <2>3. AllMarked(msgs')
    <3>1. AllMarked(RemoveAt(msgs, k))
      BY <1>1, <2>2, MarkedRemoveAt
    <3> QED
      BY <2>1, <3>1
  <2>4. ASSUME compacted PROVE good' /\ Mirrored(msgs', disk')
    <3>1. good /\ Mirrored(msgs, disk)
      BY <1>1, <1>3, <2>4 DEF Exact
    <3>2. msgs[k].slot > 0 /\ msgs[k].valid = "1"
      BY <2>2, <3>1 DEF AllMarked, Mirrored
    <3>3. disk' = MarkedInvalid(msgs[k].slot)
      BY <2>1, <3>1, <3>2 DEF DiskAfterInvalidate, Never, Bad
    <3>4. Mirrored(RemoveAt(msgs, k), MarkedInvalid(msgs[k].slot))
      BY <1>1, <3>1, MirroredRemoveAt
    <3> QED
      BY <1>1, <2>1, <3>1, <3>3, <3>4
  <2> QED
    BY <1>1, <2>3, <2>4, ExactFollows
<1> QED
  BY <1>2, <1>3

LEMMA ExactStep == Inv /\ Exact /\ [Next]_vars => Exact'
<1> SUFFICES ASSUME Inv, Exact, [Next]_vars
             PROVE  Exact'
  OBVIOUS
<1>1. FileOf(disk) /\ msgs \in Seq(EntryType)
  BY InvMeans DEF GoodPair
<1>2. ASSUME NEW d \in BOOLEAN, DeclareQueue(d)
      PROVE  Exact'
  <2>1. compacted' = FALSE /\ durable' = d /\ (d => msgs' \in Recoveries(disk))
    BY <1>2 DEF DeclareQueue
  <2>2. d => AllMarked(msgs')
    BY <2>1, RecoveryMarked
  <2> QED
    BY <2>1, <2>2, ExactFollows
<1>3. ASSUME NEW m \in Msg, CrashInWrite(m)
      PROVE  Exact'
  <2>1. ~open'
    BY <1>3 DEF CrashInWrite, Drop
  <2> QED
    BY <2>1, ExactFollows
<1>4. CASE GetStats
  BY <1>4, ExactFollows DEF GetStats, Exact
<1>5. CASE Compact
  <2>1. PICK d, r : /\ d = [i \in DOMAIN msgs |-> Slot(msgs[i].msg, msgs[i].valid)]
                    /\ r = [i \in DOMAIN msgs |-> [msgs[i] EXCEPT !.slot = i]]
    OBVIOUS
  <2>2. disk' = d /\ msgs' = r /\ good' = TRUE /\ open /\ open' = open /\ durable' = durable
    BY <1>5, <2>1 DEF Compact
  <2>3. durable => Mirrored(r, d) /\ AllMarked(r)
    BY <1>1, <2>1, <2>2, CompactMirrors DEF Exact
  <2> QED
    BY <2>2, <2>3, ExactFollows
<1>6. CASE DeleteQueue
  <2>1. ~open'
    BY <1>6 DEF DeleteQueue, Drop
  <2> QED
    BY <2>1, ExactFollows
<1>7. CASE UNCHANGED vars
  BY <1>7, ExactFollows DEF vars, Exact
<1> QED
  BY <1>2, <1>3, <1>4, <1>5, <1>6, <1>7, InsertExact, RemoveExact DEF Next

\* A recovery of a file that mirrors memory gives back what memory holds.
LEMMA MirroredRecovers ==
  ASSUME NEW q \in Seq(EntryType), NEW d, FileOf(d), Mirrored(q, d), Owns(q, d),
         SlotsIncrease(q), NEW s \in Recoveries(d)
  PROVE  Payloads(s) = Payloads(q)
<1>1. Len(q) \in Nat /\ DOMAIN q = 1..Len(q) /\ \A i \in DOMAIN q : q[i] \in EntryType
  BY ElementsOfSeq
<1>2. Len(d) \in Nat /\ DOMAIN d = 1..Len(d)
  BY LenProperties DEF FileOf
<1>3. PICK S : S = Live(d)
  OBVIOUS
<1>4. S \subseteq 1..Len(d) /\ \A i \in DOMAIN d : i \in S <=> d[i].valid = "1"
  <2>1. ASSUME NEW i \in DOMAIN d PROVE i \in Readable(d)
    <3>1. \A j \in 1..i : j \in DOMAIN d
      BY <1>2
    <3>2. \A j \in 1..i : d[j].ok
      BY <3>1 DEF Mirrored
    <3> QED
      BY <3>2 DEF Readable
  <2>2. Readable(d) = DOMAIN d
    BY <2>1 DEF Readable
  <2> QED
    BY <1>2, <1>3, <2>2 DEF Live
<1>5. PICK f \in Enumerations(S) : s = [i \in DOMAIN f |-> Entry(d[f[i]].msg, "1", f[i])]
  BY <1>3, RecoveriesAre
<1>6. PICK m : m = Cardinality(S)
  OBVIOUS
<1>7. m \in Nat
  <2>1. IsFiniteSet(1..Len(d))
    BY <1>2, 1 \in Int, FS_Interval
  <2>2. IsFiniteSet(S)
    BY <1>4, <2>1, FS_Subset
  <2> QED
    BY <1>6, <2>2, FS_CardinalityType
<1>8. Enumerates(f, m, S)
  BY <1>5, <1>6 DEF Enumerations, Enumerates, Increasing
<1>9. PICK g : g = [i \in 1..Len(q) |-> q[i].slot]
  OBVIOUS
<1>10. Enumerates(g, Len(q), S)
  <2>1. \A i \in 1..Len(q) : g[i] = q[i].slot /\ q[i].slot > 0 /\ q[i].slot \in DOMAIN d
    BY <1>1, <1>9 DEF Mirrored, Owns
  <2>2. \A i \in 1..Len(q) : g[i] \in S
    BY <1>1, <1>4, <2>1 DEF Mirrored
  <2>3. g \in [1..Len(q) -> S]
    BY <1>9, <2>2
  <2>4. Increasing(g)
    BY <1>1, <1>9, <2>1 DEF SlotsIncrease, Increasing
  <2>5. ASSUME NEW x \in S PROVE \E i \in 1..Len(q) : g[i] = x
    <3>1. x \in DOMAIN d /\ d[x].valid = "1"
      BY <1>2, <1>4
    <3>2. PICK i \in DOMAIN q : q[i].slot = x
      BY <3>1 DEF Mirrored
    <3> QED
      BY <1>1, <2>1, <3>2
  <2> QED
    BY <2>3, <2>4, <2>5 DEF Enumerates
<1>11. m = Len(q) /\ f = g
  <2>1. S \in SUBSET Int
    BY <1>2, <1>4
  <2> QED
    BY <1>1, <1>7, <1>8, <1>10, <2>1, OneEnumeration
<1>12. DOMAIN s = 1..Len(q) /\ \A i \in 1..Len(q) : s[i].msg = q[i].msg
  <2>1. DOMAIN f = 1..Len(q) /\ \A i \in 1..Len(q) : f[i] = q[i].slot
    BY <1>9, <1>11
  <2>2. \A i \in 1..Len(q) : d[q[i].slot].msg = q[i].msg
    BY <1>1 DEF Mirrored, Owns
  <2>3. \A i \in 1..Len(q) : s[i].msg = d[f[i]].msg
    BY <1>5, <2>1 DEF Entry
  <2> QED
    BY <1>5, <2>1, <2>2, <2>3
<1> QED
  BY <1>1, <1>12 DEF Payloads

(* The file mirrors the memory of a store that has been compacted. *)
THEOREM MirrorCorrect == Spec => []Exact
<1>1. Init => Exact
  BY DEF Init, Exact
<1>2. Inv /\ Exact /\ [Next]_vars => Exact'
  BY ExactStep
<1> QED
  BY <1>1, <1>2, Invariance, PTL DEF Spec

(* Once compact() has run on a durable queue, a crash gives back exactly the
   messages that were queued, in their order. *)
THEOREM CompactedRecovers == Spec => []CompactedIsCrashSafe
<1>1. Inv /\ Exact => CompactedIsCrashSafe
  <2> SUFFICES ASSUME Inv, Exact, open, durable, compacted, NEW s \in Recoveries(disk)
               PROVE  Payloads(s) = Payloads(msgs)
    BY DEF CompactedIsCrashSafe
  <2>1. GoodPair(msgs, disk) /\ Mirrored(msgs, disk)
    BY InvMeans DEF Exact
  <2> QED
    BY <2>1, MirroredRecovers DEF GoodPair
<1> QED
  BY <1>1, Invariance, MirrorCorrect, PTL

(* A file has one recovery: its live records in their order. *)
LEMMA OneRecovery ==
  ASSUME NEW d, FileOf(d)
  PROVE  \E q : Recoveries(d) = {q}
<1>1. Len(d) \in Nat /\ DOMAIN d = 1..Len(d)
  BY LenProperties DEF FileOf
<1>2. PICK S : S = Live(d)
  OBVIOUS
<1>3. S \in SUBSET (1..Len(d)) /\ S \in SUBSET Int
  BY <1>1, <1>2 DEF Live, Readable
<1>4. PICK n \in Nat : \E f : Enumerates(f, n, S)
  BY <1>1, <1>3, EnumerationExists
<1>5. PICK f : Enumerates(f, n, S)
  BY <1>4
<1>6. n = Cardinality(S)
  <2>1. /\ f \in [1..n -> S] /\ Increasing(f) /\ DOMAIN f = 1..n
        /\ \A x \in S : \E i \in 1..n : f[i] = x
    BY <1>5 DEF Enumerates
  <2>2. ASSUME NEW i \in 1..n, NEW j \in 1..n, f[i] = f[j] PROVE i = j
    <3>1. f[i] \in S
      BY <2>1
    <3>2. f[i] \in Int
      BY <1>3, <3>1
    <3>3. ~(f[i] < f[i])
      BY <3>2
    <3>4. ~(i < j) /\ ~(j < i)
      BY <2>1, <2>2, <3>3 DEF Increasing
    <3> QED
      BY <3>4
  <2>3. f \in Bijection(1..n, S)
    BY <2>1, <2>2, Fun_IsBij
  <2>4. ExistsBijection(1..n, S)
    BY <2>3 DEF ExistsBijection
  <2> QED
    BY <2>4, FS_CountingElements
<1>7. Enumerations(S) = {f}
  <2>1. f \in Enumerations(S)
    BY <1>5, <1>6 DEF Enumerations, Enumerates, Increasing
  <2>2. ASSUME NEW g \in Enumerations(S) PROVE g = f
    <3>1. Enumerates(g, n, S)
      BY <1>6 DEF Enumerations, Enumerates, Increasing
    <3> QED
      BY <1>3, <1>5, <3>1, OneEnumeration
  <2> QED
    BY <2>1, <2>2
<1>8. Recoveries(d) = {[i \in DOMAIN f |-> Entry(d[f[i]].msg, "1", f[i])]}
  BY <1>2, <1>7, RecoveriesAre
<1> QED
  BY <1>8

(* In every reachable state the file has one recovery, torn and overwritten
   records included: what is said of all its recoveries is said of a crash
   that can happen. *)
THEOREM RecoveryIsDetermined == Spec => [](\E q : Recoveries(disk) = {q})
<1>1. Inv => \E q : Recoveries(disk) = {q}
  <2> SUFFICES ASSUME Inv PROVE \E q : Recoveries(disk) = {q}
    OBVIOUS
  <2>1. FileOf(disk)
    BY InvMeans DEF GoodPair
  <2> QED
    BY <2>1, OneRecovery
<1> QED
  BY <1>1, Invariance, PTL

---------------------------------------------------------------------------
(* The store beside the management thread (module Maintenance).  The order *)
(* of publication is kept as before.  Offsets are right except those of    *)
(* the messages in late; of the call that is underway the invariant says   *)
(* what its second half relies on, compact() having come between or not.   *)
Inserting == half # Idle /\ half.op = "insert"
Removing  == half # Idle /\ half.op = "remove"

Straight(q, d, L) ==
  \A i \in DOMAIN q : q[i].slot > 0 /\ q[i].msg \notin L =>
    q[i].slot \in DOMAIN d /\ d[q[i].slot].msg = q[i].msg

HalfHolds ==
  /\ Inserting =>
       /\ sent # <<>> /\ half.entry.msg = sent[Len(sent)]
       /\ \A i \in DOMAIN msgs : msgs[i].msg # half.entry.msg
       /\ half.entry.slot > 0 /\ half.entry.msg \notin late =>
            /\ half.entry.slot \in DOMAIN disk
            /\ disk[half.entry.slot].msg = half.entry.msg
  /\ Removing => half.entry.msg = msgs[half.place].msg

MInv == MTypeOK /\ InOrder /\ Straight(msgs, disk, late) /\ HalfHolds

\* What kind of call is underway, by its type.
HalfOf(h, q) ==
  \/ h = Idle
  \/ h \in [op : {"insert"}, entry : EntryType]
  \/ h \in [op : {"remove"}, entry : EntryType, place : DOMAIN q]

LEMMA HalfKinds ==
  ASSUME MTypeOK
  PROVE  /\ HalfOf(half, msgs)
         /\ half # Idle => open /\ half.entry \in EntryType /\ (Inserting \/ Removing)
         /\ Removing => half.place \in DOMAIN msgs
         /\ ~(Inserting /\ Removing)
<1>1. HalfOf(half, msgs) /\ (half # Idle => open)
  BY DEF MTypeOK, HalfOf
<1>2. CASE half = Idle
  BY <1>1, <1>2 DEF Inserting, Removing
<1>3. CASE half \in [op : {"insert"}, entry : EntryType]
  BY <1>1, <1>3 DEF Inserting, Removing
<1>4. CASE half \in [op : {"remove"}, entry : EntryType, place : DOMAIN msgs]
  BY <1>1, <1>4 DEF Inserting, Removing
<1> QED
  BY <1>1, <1>2, <1>3, <1>4 DEF HalfOf

LEMMA MInvMeans ==
  ASSUME MInv
  PROVE  /\ TypeOK /\ FileOf(disk) /\ msgs \in Seq(EntryType) /\ sent \in Seq(Msg)
         /\ SentOnce(sent) /\ Placed(msgs, sent) /\ PlacedLive(disk, sent)
         /\ Straight(msgs, disk, late) /\ late \cup undead \subseteq ToSet(sent)
  BY InOrderMeans DEF MInv, MTypeOK, TypeOK, FileOf

LEMMA MInvFollows ==
  ASSUME open' \in BOOLEAN, durable' \in BOOLEAN, good' \in BOOLEAN, compacted' \in BOOLEAN,
         msgs' \in Seq(EntryType), FileOf(disk'), sent' \in Seq(Msg),
         HalfOf(half', msgs'), half' # Idle => open',
         late' \cup undead' \subseteq ToSet(sent'),
         Straight(msgs', disk', late'), HalfHolds', InOrder'
  PROVE  MInv'
<1>1. TypeOK'
  BY DEF TypeOK, FileOf
<1>2. /\ \/ half' = Idle
         \/ open' /\ half' \in [op : {"insert"}, entry : EntryType]
         \/ open' /\ half' \in [op : {"remove"}, entry : EntryType, place : DOMAIN msgs']
  BY DEF HalfOf
<1>3. MTypeOK'
  BY <1>1, <1>2 DEF MTypeOK, Idle, EntryType
<1>4. (Straight(msgs, disk, late))'
  BY DEF Straight
<1> QED
  BY <1>3, <1>4 DEF MInv

LEMMA StraightKept ==
  ASSUME FileOf(disk), NEW d, FileOf(d), KeepsRecords(d), NEW q, NEW L, Straight(q, disk, L)
  PROVE  Straight(q, d, L)
<1>1. /\ Len(disk) \in Nat /\ DOMAIN disk = 1..Len(disk)
      /\ Len(d) \in Nat /\ DOMAIN d = 1..Len(d)
  BY LenProperties DEF FileOf
<1>2. DOMAIN disk \subseteq DOMAIN d
  BY <1>1 DEF KeepsRecords
<1> QED
  BY <1>2 DEF KeepsRecords, Straight

LEMMA StraightAppend ==
  ASSUME NEW q \in Seq(EntryType), NEW d, NEW L, Straight(q, d, L), NEW e \in EntryType,
         e.slot > 0 /\ e.msg \notin L => e.slot \in DOMAIN d /\ d[e.slot].msg = e.msg
  PROVE  Append(q, e) \in Seq(EntryType) /\ Straight(Append(q, e), d, L)
<1>1. PICK r : r = Append(q, e)
  OBVIOUS
<1>2. /\ r \in Seq(EntryType) /\ Len(q) \in Nat /\ DOMAIN q = 1..Len(q)
      /\ DOMAIN r = 1..(Len(q) + 1)
      /\ \A i \in 1..Len(q) : r[i] = q[i]
      /\ r[Len(q) + 1] = e
  BY <1>1, AppendProperties, LenProperties
<1>3. \A i \in DOMAIN r : (i \in DOMAIN q /\ r[i] = q[i]) \/ (i = Len(q) + 1 /\ r[i] = e)
  BY <1>2
<1>4. Straight(r, d, L)
  BY <1>3 DEF Straight
<1> QED
  BY <1>1, <1>2, <1>4

LEMMA StraightRemoveAt ==
  ASSUME NEW q \in Seq(EntryType), NEW d, NEW L, Straight(q, d, L), NEW k \in DOMAIN q
  PROVE  RemoveAt(q, k) \in Seq(EntryType) /\ Straight(RemoveAt(q, k), d, L)
<1>1. PICK r : r = RemoveAt(q, k)
  OBVIOUS
<1>2. Len(q) \in Nat /\ DOMAIN q = 1..Len(q)
  BY LenProperties
<1>3. /\ r \in Seq(EntryType) /\ DOMAIN r = 1..(Len(q) - 1)
      /\ \A i \in 1..(Len(q) - 1) : r[i] = IF i < k THEN q[i] ELSE q[i + 1]
  BY <1>1, RemoveAtPlaces
<1>4. \A i \in DOMAIN r : i \in DOMAIN q /\ i + 1 \in DOMAIN q /\ (r[i] = q[i] \/ r[i] = q[i + 1])
  BY <1>2, <1>3
<1>5. Straight(r, d, L)
  BY <1>4 DEF Straight
<1> QED
  BY <1>1, <1>3, <1>5

\* The write of remove(), wherever it goes.
LEMMA StaleWriteProperties ==
  ASSUME FileOf(disk), StaleWrite
  PROVE  FileOf(disk') /\ KeepsRecords(disk') /\ NoNewLive(disk')
<1>0. DOMAIN disk \subseteq Int
  BY LenProperties DEF FileOf
<1>1. ASSUME NEW i \in DOMAIN disk, disk' = Overwritten(i)
      PROVE  FileOf(disk') /\ KeepsRecords(disk') /\ NoNewLive(disk')
  <2>1. i \in Int
    BY <1>0
  <2>2. /\ FileOf(Overwritten(i)) /\ KeepsRecords(Overwritten(i))
        /\ NoNewLive(Overwritten(i))
    BY <2>1, OverwrittenProperties, OverwrittenNotLive
  <2> QED
    BY <1>1, <2>2
<1>2. ASSUME NEW i \in DOMAIN disk, disk' = MarkedInvalid(i)
      PROVE  FileOf(disk') /\ KeepsRecords(disk') /\ NoNewLive(disk')
  <2>1. i \in Int
    BY <1>0
  <2>2. FileOf(MarkedInvalid(i)) /\ KeepsRecords(MarkedInvalid(i))
    BY <2>1, MarkedInvalidProperties
  <2>3. NoNewLive(MarkedInvalid(i))
    BY MarkedInvalidIs DEF NoNewLive
  <2> QED
    BY <1>2, <2>2, <2>3
<1>3. ASSUME disk' = Append(disk, Junk)
      PROVE  FileOf(disk') /\ KeepsRecords(disk') /\ NoNewLive(disk')
  <2>1. Len(disk) + 1 \in Int /\ Len(disk) + 1 \notin DOMAIN disk
    BY LenProperties DEF FileOf
  <2>2. Overwritten(Len(disk) + 1) = Append(disk, Junk)
    BY <2>1 DEF Overwritten
  <2>3. /\ FileOf(Overwritten(Len(disk) + 1)) /\ KeepsRecords(Overwritten(Len(disk) + 1))
        /\ NoNewLive(Overwritten(Len(disk) + 1))
    BY <2>1, OverwrittenProperties, OverwrittenNotLive
  <2> QED
    BY <1>3, <2>2, <2>3
<1> QED
  BY <1>1, <1>2, <1>3 DEF StaleWrite

\* The last publication comes after all that are in the queue.
LEMMA PlacedLast ==
  ASSUME NEW s \in Seq(Msg), s # <<>>, NEW q \in Seq(EntryType), Placed(q, s),
         NEW e \in EntryType, e.msg = s[Len(s)], \A i \in DOMAIN q : q[i].msg # e.msg
  PROVE  Placed(Append(q, e), s)
<1>1. PICK r : r = Append(q, e)
  OBVIOUS
<1>2. /\ Len(q) \in Nat /\ DOMAIN q = 1..Len(q) /\ DOMAIN r = 1..(Len(q) + 1)
      /\ \A i \in 1..Len(q) : r[i] = q[i]
      /\ r[Len(q) + 1] = e
  BY <1>1, AppendProperties, LenProperties
<1>3. Len(s) \in Nat /\ Len(s) > 0 /\ DOMAIN s = 1..Len(s) /\ Len(s) \in DOMAIN s
  <2>1. Len(s) \in Nat \ {0} /\ DOMAIN s = 1..Len(s)
    BY EmptySeq, LenProperties
  <2> QED
    BY <2>1
<1>4. ASSUME NEW i \in DOMAIN q PROVE Before(s, q[i].msg, e.msg)
  <2>1. PICK k \in DOMAIN s : s[k] = q[i].msg
    BY ElementsOfSeq DEF Placed
  <2>2. k # Len(s)
    BY <2>1
  <2>3. k < Len(s)
    BY <1>3, <2>2
  <2> QED
    BY <1>3, <2>1, <2>3 DEF Before
<1>5. ASSUME NEW i \in DOMAIN r, NEW j \in DOMAIN r, i < j
      PROVE  Before(s, r[i].msg, r[j].msg)
  <2>1. i \in DOMAIN q /\ r[i] = q[i]
    BY <1>2, <1>5
  <2>2. CASE j \in DOMAIN q
    BY <1>2, <1>5, <2>1, <2>2 DEF Placed
  <2>3. CASE j = Len(q) + 1
    BY <1>2, <1>4, <2>1, <2>3
  <2> QED
    BY <1>2, <2>2, <2>3
<1>6. e.msg \in ToSet(s)
  BY <1>3, ElementsOfSeq
<1>7. \A i \in DOMAIN r : r[i].msg \in ToSet(s)
  BY <1>2, <1>6 DEF Placed
<1>8. Placed(r, s)
  BY <1>5, <1>7 DEF Placed
<1> QED
  BY <1>1, <1>8

\* The steps of the management and of the life of the queue are steps of
\* the store: the order of publication is kept by them.
LEMMA StoreStepOrdered ==
  ASSUME MInv, Next
  PROVE  InOrder'
<1>1. TypeOK /\ InOrder
  BY MInvMeans DEF MInv
<1> QED
  BY <1>1, OrderStep

LEMMA BeginInsertKeeps ==
  ASSUME MInv, NEW m \in Msg, BeginInsert(m)
  PROVE  MInv'
<1>1. /\ TypeOK /\ FileOf(disk) /\ msgs \in Seq(EntryType) /\ sent \in Seq(Msg)
      /\ SentOnce(sent) /\ Placed(msgs, sent) /\ PlacedLive(disk, sent)
      /\ Straight(msgs, disk, late) /\ late \cup undead \subseteq ToSet(sent)
  BY MInvMeans
<1>2. /\ open /\ m \notin ToSet(sent) /\ disk' = DiskAfterWrite(m)
      /\ half' = [op |-> "insert", entry |-> Written(m)] /\ sent' = Append(sent, m)
      /\ UNCHANGED <<open, durable, msgs, good, compacted, late, undead>>
  BY DEF BeginInsert
<1>3. Len(disk) \in Nat /\ DOMAIN disk = 1..Len(disk)
  BY <1>1, LenProperties DEF FileOf
<1>4. PICK n \in Int : n = IF good THEN Len(disk) + 1 ELSE -1
  BY <1>3
<1>5. PICK e \in EntryType : e = Entry(m, "1", n) /\ e.msg = m /\ e.slot = n
  <2>1. \A mm \in Msg, s \in Int :
          /\ Entry(mm, "1", s) \in EntryType
          /\ Entry(mm, "1", s).msg = mm /\ Entry(mm, "1", s).slot = s
    BY EntryProperties
  <2>2. Entry(m, "1", n) \in EntryType /\ Entry(m, "1", n).msg = m /\ Entry(m, "1", n).slot = n
    BY <2>1, Zenon
  <2> QED
    BY <2>2, Zenon
<1>6. e = Written(m)
  BY <1>4, <1>5 DEF Written, Bad
<1>7. PICK r \in SlotType : r = Slot(m, "1") /\ r.msg = m
  BY SlotProperties, Zenon
<1>8. /\ FileOf(Append(disk, r)) /\ KeepsRecords(Append(disk, r))
      /\ Len(Append(disk, r)) = Len(disk) + 1 /\ Append(disk, r)[Len(disk) + 1] = r
  BY <1>1, <1>7, WriteProperties
<1>9. disk' = (IF good THEN Append(disk, r) ELSE disk)
  BY <1>2, <1>7 DEF DiskAfterWrite
<1>10. FileOf(disk') /\ KeepsRecords(disk')
  BY <1>1, <1>3, <1>8, <1>9 DEF KeepsRecords
<1>11. Straight(msgs', disk', late')
  <2>1. Straight(msgs, disk', late)
    BY <1>1, <1>10, StraightKept
  <2> QED
    BY <1>2, <2>1
<1>12. ToSet(sent') = ToSet(sent) \cup {m} /\ sent' \in Seq(Msg)
  <2>1. ToSet(Append(sent, m)) = ToSet(sent) \cup {m} /\ Append(sent, m) \in Seq(Msg)
    BY <1>1, ToSetAppend, AppendProperties
  <2> QED
    BY <1>2, <2>1
<1>13. InOrder'
  <2>1. SentOnce(Append(sent, m))
    BY <1>1, <1>2, SentOnceAppend
  <2>2. Placed(msgs, Append(sent, e.msg))
    BY <1>1, PlacedAppend
  <2>3. PlacedLive(Append(disk, r), Append(sent, r.msg)) /\ PlacedLive(disk, Append(sent, r.msg))
    BY <1>1, <1>7, PlacedLiveAppend
  <2>4. SentOnce(sent') /\ Placed(msgs', sent') /\ PlacedLive(disk', sent')
    BY <1>2, <1>5, <1>7, <1>9, <2>1, <2>2, <2>3
  <2> QED
    BY <2>4, InOrderFollows
<1>14. HalfHolds'
  <2>1. half'.op = "insert" /\ half'.entry = e
    BY <1>2, <1>6
  <2>2. sent' # <<>> /\ sent'[Len(sent')] = m
    <3>1. Len(Append(sent, m)) = Len(sent) + 1 /\ Append(sent, m)[Len(sent) + 1] = m
      BY <1>1, AppendProperties
    <3>2. Len(sent) \in Nat /\ Len(<<>>) = 0
      BY <1>1, LenProperties
    <3>3. Len(sent) + 1 # 0
      BY <3>2
    <3> QED
      BY <1>2, <3>1, <3>2, <3>3
  <2>3. \A i \in DOMAIN msgs : msgs[i].msg # m
    BY <1>1, <1>2 DEF Placed
  <2>4. e.slot > 0 => e.slot \in DOMAIN disk' /\ disk'[e.slot].msg = m
    <3>1. CASE good
      <4>1. disk' = Append(disk, r) /\ e.slot = Len(disk) + 1
        BY <1>4, <1>5, <1>9, <3>1
      <4>2. DOMAIN disk' = 1..(Len(disk) + 1) /\ disk'[Len(disk) + 1] = r
        BY <1>8, <1>10, <4>1, LenProperties DEF FileOf
      <4> QED
        BY <1>3, <1>7, <4>1, <4>2
    <3>2. CASE ~good
      <4>1. e.slot = -1
        BY <1>4, <1>5, <3>2
      <4> QED
        BY <4>1
    <3> QED
      BY <3>1, <3>2
  <2> QED
    BY <1>2, <1>5, <2>1, <2>2, <2>3, <2>4 DEF HalfHolds, Inserting, Removing
<1>15. half' \in [op : {"insert"}, entry : EntryType]
  BY <1>2, <1>6
<1> QED
  BY <1>1, <1>2, <1>10, <1>11, <1>12, <1>13, <1>14, <1>15, MInvFollows DEF HalfOf, TypeOK

LEMMA EndInsertKeeps ==
  ASSUME MInv, EndInsert
  PROVE  MInv' /\ Inserting
<1>1. /\ TypeOK /\ FileOf(disk) /\ msgs \in Seq(EntryType) /\ sent \in Seq(Msg)
      /\ SentOnce(sent) /\ Placed(msgs, sent) /\ PlacedLive(disk, sent)
      /\ Straight(msgs, disk, late) /\ late \cup undead \subseteq ToSet(sent)
  BY MInvMeans
<1>2. /\ Inserting /\ msgs' = Append(msgs, half.entry) /\ half' = Idle
      /\ UNCHANGED <<open, durable, disk, good, sent, compacted, late, undead>>
  BY DEF EndInsert, Inserting
<1>3. half.entry \in EntryType
  BY <1>2, HalfKinds DEF MInv, Inserting
<1>4. /\ sent # <<>> /\ half.entry.msg = sent[Len(sent)]
      /\ \A i \in DOMAIN msgs : msgs[i].msg # half.entry.msg
      /\ half.entry.slot > 0 /\ half.entry.msg \notin late =>
           half.entry.slot \in DOMAIN disk /\ disk[half.entry.slot].msg = half.entry.msg
  BY <1>2 DEF MInv, HalfHolds
<1>5. PICK e \in EntryType : e = half.entry
  BY <1>3
<1>6. Append(msgs, e) \in Seq(EntryType) /\ Straight(Append(msgs, e), disk, late)
  BY <1>1, <1>4, <1>5, StraightAppend
<1>7. Placed(Append(msgs, e), sent)
  BY <1>1, <1>4, <1>5, PlacedLast
<1>8. InOrder'
  BY <1>1, <1>2, <1>5, <1>7, InOrderFollows
<1>9. HalfHolds'
  BY <1>2 DEF HalfHolds, Inserting, Removing
<1> QED
  BY <1>1, <1>2, <1>5, <1>6, <1>8, <1>9, MInvFollows DEF HalfOf, TypeOK

LEMMA BeginRemoveKeeps ==
  ASSUME MInv, NEW id, BeginRemove(id)
  PROVE  MInv'
<1>1. /\ TypeOK /\ FileOf(disk) /\ msgs \in Seq(EntryType) /\ sent \in Seq(Msg)
      /\ SentOnce(sent) /\ Placed(msgs, sent) /\ PlacedLive(disk, sent)
      /\ Straight(msgs, disk, late) /\ late \cup undead \subseteq ToSet(sent)
  BY MInvMeans
<1>2. PICK k \in DOMAIN msgs :
        /\ IF good /\ IsStale(msgs[k]) THEN StaleWrite
           ELSE disk' = DiskAfterInvalidate(msgs[k])
        /\ half' = [op |-> "remove", entry |-> msgs[k], place |-> k]
  BY DEF BeginRemove
<1>3. open /\ UNCHANGED <<open, durable, msgs, good, sent, compacted, late, undead>>
  BY DEF BeginRemove
<1>4. msgs[k] \in EntryType
  BY <1>1, ElementsOfSeq
<1>5. FileOf(disk') /\ KeepsRecords(disk') /\ NoNewLive(disk')
  <2>1. CASE StaleWrite
    BY <1>1, <2>1, StaleWriteProperties
  <2>2. CASE disk' = DiskAfterInvalidate(msgs[k])
    <3>1. /\ FileOf(DiskAfterInvalidate(msgs[k])) /\ KeepsRecords(DiskAfterInvalidate(msgs[k]))
          /\ NoNewLive(DiskAfterInvalidate(msgs[k]))
      BY <1>1, <1>4, InvalidateProperties, InvalidatedNotLive
    <3> QED
      BY <2>2, <3>1
  <2> QED
    BY <1>2, <2>1, <2>2
<1>6. Straight(msgs', disk', late')
  <2>1. Straight(msgs, disk', late)
    BY <1>1, <1>5, StraightKept
  <2> QED
    BY <1>3, <2>1
<1>7. InOrder'
  <2>1. PlacedLive(disk', sent)
    BY <1>1, <1>5, PlacedLess
  <2> QED
    BY <1>1, <1>3, <2>1, InOrderFollows
<1>8. half'.op = "remove" /\ half'.entry = msgs[k] /\ half'.place = k
  BY <1>2
<1>9. HalfHolds'
  BY <1>3, <1>8 DEF HalfHolds, Inserting, Removing
<1>10. half' \in [op : {"remove"}, entry : EntryType, place : DOMAIN msgs]
  BY <1>2, <1>4
<1> QED
  BY <1>1, <1>3, <1>5, <1>6, <1>7, <1>9, <1>10, MInvFollows DEF HalfOf, TypeOK

LEMMA EndRemoveKeeps ==
  ASSUME MInv, EndRemove
  PROVE  MInv'
<1>1. /\ TypeOK /\ FileOf(disk) /\ msgs \in Seq(EntryType) /\ sent \in Seq(Msg)
      /\ SentOnce(sent) /\ Placed(msgs, sent) /\ PlacedLive(disk, sent)
      /\ Straight(msgs, disk, late) /\ late \cup undead \subseteq ToSet(sent)
  BY MInvMeans
<1>2. /\ Removing /\ msgs' = RemoveAt(msgs, half.place) /\ half' = Idle
      /\ UNCHANGED <<open, durable, disk, good, sent, compacted, late, undead>>
  BY DEF EndRemove, Removing
<1>3. PICK k \in DOMAIN msgs : k = half.place
  BY <1>2, HalfKinds DEF MInv
<1>4. RemoveAt(msgs, k) \in Seq(EntryType) /\ Straight(RemoveAt(msgs, k), disk, late)
  BY <1>1, StraightRemoveAt
<1>5. Placed(RemoveAt(msgs, k), sent)
  BY <1>1, PlacedRemoveAt
<1>6. InOrder'
  BY <1>1, <1>2, <1>3, <1>5, InOrderFollows
<1>7. HalfHolds'
  BY <1>2 DEF HalfHolds, Inserting, Removing
<1> QED
  BY <1>1, <1>2, <1>3, <1>4, <1>6, <1>7, MInvFollows DEF HalfOf, TypeOK

LEMMA MCompactKeeps ==
  ASSUME MInv, MCompact
  PROVE  MInv'
<1>1. /\ TypeOK /\ FileOf(disk) /\ msgs \in Seq(EntryType) /\ sent \in Seq(Msg)
      /\ SentOnce(sent) /\ Placed(msgs, sent) /\ PlacedLive(disk, sent)
      /\ Straight(msgs, disk, late) /\ late \cup undead \subseteq ToSet(sent)
  BY MInvMeans
<1>2. PICK d, r : /\ d = [i \in DOMAIN msgs |-> Slot(msgs[i].msg, msgs[i].valid)]
                  /\ r = [i \in DOMAIN msgs |-> [msgs[i] EXCEPT !.slot = i]]
  OBVIOUS
<1>3. /\ disk' = d /\ msgs' = r /\ good' = TRUE /\ compacted' = TRUE
      /\ open /\ UNCHANGED <<open, durable, sent, half>>
  BY <1>2 DEF MCompact, Compact
<1>4. FileOf(d) /\ r \in Seq(EntryType) /\ Owns(r, d)
  BY <1>1, <1>2, CompactProperties
<1>5. DOMAIN r = DOMAIN msgs /\ \A i \in DOMAIN msgs : r[i].msg = msgs[i].msg
  <2>1. \A i \in DOMAIN msgs : msgs[i] \in EntryType
    BY <1>1, ElementsOfSeq
  <2> QED
    BY <1>2, <2>1 DEF EntryType
<1>6. Straight(r, d, late')
  BY <1>4 DEF Owns, Straight
<1>7. InOrder'
  BY StoreStepOrdered DEF MCompact, Next
<1>8. half # Idle => half.entry.msg \in ToSet(sent)
  <2>1. ASSUME Inserting PROVE half.entry.msg \in ToSet(sent)
    <3>1. sent # <<>> /\ half.entry.msg = sent[Len(sent)]
      BY <2>1 DEF MInv, HalfHolds
    <3>2. Len(sent) \in DOMAIN sent
      <4>1. Len(sent) \in Nat \ {0} /\ DOMAIN sent = 1..Len(sent)
        BY <1>1, <3>1, EmptySeq, LenProperties
      <4> QED
        BY <4>1
    <3> QED
      BY <1>1, <3>1, <3>2, ElementsOfSeq
  <2>2. ASSUME Removing PROVE half.entry.msg \in ToSet(sent)
    <3>1. half.entry.msg = msgs[half.place].msg /\ half.place \in DOMAIN msgs
      BY <2>2, HalfKinds DEF MInv, HalfHolds
    <3> QED
      BY <1>1, <3>1 DEF Placed
  <2> QED
    BY <2>1, <2>2, HalfKinds DEF MInv
<1>9. late' \cup undead' \subseteq ToSet(sent')
  BY <1>1, <1>3, <1>8 DEF MCompact, Underway
<1>10. Inserting => half.entry.msg \in late'
  BY DEF MCompact, Underway, Inserting
<1>11. HalfHolds'
  <2>1. Inserting => /\ sent # <<>> /\ half.entry.msg = sent[Len(sent)]
                     /\ \A i \in DOMAIN r : r[i].msg # half.entry.msg
    BY <1>5 DEF MInv, HalfHolds
  <2>2. Removing => half.entry.msg = r[half.place].msg
    BY <1>5, HalfKinds DEF MInv, HalfHolds
  <2> QED
    BY <1>3, <1>10, <2>1, <2>2 DEF HalfHolds, Inserting, Removing
<1>12. HalfOf(half', msgs') /\ (half' # Idle => open')
  BY <1>3, <1>5, HalfKinds DEF HalfOf, MInv
<1> QED
  BY <1>1, <1>3, <1>4, <1>6, <1>7, <1>9, <1>11, <1>12, MInvFollows DEF TypeOK

\* The steps in which no call is underway, or that end it.
LEMMA IdleSteps ==
  ASSUME MInv, MNext, half' = Idle, UNCHANGED <<late, undead>>,
         msgs' \in Seq(EntryType), FileOf(disk'), Straight(msgs', disk', late'), Next
  PROVE  MInv'
<1>1. /\ TypeOK /\ sent \in Seq(Msg) /\ late \cup undead \subseteq ToSet(sent)
  BY MInvMeans
<1>2. InOrder'
  BY StoreStepOrdered
<1>3. HalfHolds'
  BY DEF HalfHolds, Inserting, Removing
<1>4. /\ open' \in BOOLEAN /\ durable' \in BOOLEAN /\ good' \in BOOLEAN
      /\ compacted' \in BOOLEAN
  BY <1>1 DEF TypeOK, Next, DeclareQueue, Insert, CrashInWrite, Drop, RemoveById, GetStats,
              Compact, DeleteQueue
<1>5. sent' \in Seq(Msg) /\ ToSet(sent) \subseteq ToSet(sent')
  <2>1. CASE sent' = sent
    BY <1>1, <2>1
  <2>2. ASSUME NEW m \in Msg, sent' = Append(sent, m)
        PROVE  sent' \in Seq(Msg) /\ ToSet(sent) \subseteq ToSet(sent')
    <3>1. ToSet(Append(sent, m)) = ToSet(sent) \cup {m} /\ Append(sent, m) \in Seq(Msg)
      BY <1>1, ToSetAppend, AppendProperties
    <3> QED
      BY <2>2, <3>1
  <2> QED
    BY <2>1, <2>2 DEF Next, DeclareQueue, Insert, CrashInWrite, RemoveById, GetStats,
                      Compact, DeleteQueue
<1>6. late' \cup undead' \subseteq ToSet(sent')
  BY <1>1, <1>5
<1>7. HalfOf(half', msgs')
  BY DEF HalfOf
<1> QED
  BY <1>2, <1>3, <1>4, <1>5, <1>6, <1>7, MInvFollows

LEMMA MInvStep == MInv /\ [MNext]_mvars => MInv'
<1> SUFFICES ASSUME MInv, [MNext]_mvars
             PROVE  MInv'
  OBVIOUS
<1>1. /\ TypeOK /\ FileOf(disk) /\ msgs \in Seq(EntryType) /\ sent \in Seq(Msg)
      /\ Straight(msgs, disk, late) /\ late \cup undead \subseteq ToSet(sent)
  BY MInvMeans
<1>2. <<>> \in Seq(EntryType) /\ \A d : Straight(<<>>, d, late)
  <2>1. <<>> \in Seq(EntryType) /\ DOMAIN << >> = {}
    BY EmptySeq, LenProperties
  <2> QED
    BY <2>1 DEF Straight
<1>3. half # Idle => open
  BY HalfKinds DEF MInv
<1>4. ASSUME NEW d \in BOOLEAN, MDeclareQueue(d)
      PROVE  MInv'
  <2>1. DeclareQueue(d) /\ half' = Idle /\ UNCHANGED <<late, undead>> /\ disk' = disk
    BY <1>3, <1>4 DEF MDeclareQueue, DeclareQueue
  <2>2. msgs' \in Seq(EntryType) /\ Straight(msgs', disk, late)
    <3>1. CASE msgs' \in Recoveries(disk)
      <4>1. msgs' \in Seq(EntryType) /\ Owns(msgs', disk)
        BY <1>1, <3>1, RecoveryProperties
      <4> QED
        BY <4>1 DEF Owns, Straight
    <3>2. CASE msgs' = <<>>
      BY <1>2, <3>2
    <3> QED
      BY <2>1, <3>1, <3>2 DEF DeclareQueue
  <2> QED
    BY <1>1, <1>4, <2>1, <2>2, IdleSteps DEF MNext, Next
<1>5. ASSUME NEW m \in Msg, InsertTransient(m)
      PROVE  MInv'
  <2>1. Insert(m) /\ half' = Idle /\ UNCHANGED <<late, undead>> /\ disk' = disk
    BY <1>5 DEF InsertTransient, Insert
  <2>2. PICK e \in EntryType : e = Entry(m, "", 0) /\ e.slot = 0
    <3>1. 0 \in Int
      OBVIOUS
    <3>2. Entry(m, "", 0) \in EntryType /\ Entry(m, "", 0).slot = 0
      BY <3>1, EntryProperties, Zenon
    <3> QED
      BY <3>2, Zenon
  <2>3. msgs' = Append(msgs, e)
    BY <1>5, <2>2 DEF InsertTransient, Insert, Never
  <2>4. ~(e.slot > 0)
    <3>1. e.slot = 0
      BY <2>2
    <3> QED
      BY <3>1
  <2>5. Append(msgs, e) \in Seq(EntryType) /\ Straight(Append(msgs, e), disk, late)
    BY <1>1, <2>4, StraightAppend
  <2> QED
    BY <1>1, <1>5, <2>1, <2>3, <2>5, IdleSteps DEF MNext, Next
<1>6. ASSUME NEW m \in Msg, MCrashInWrite(m)
      PROVE  MInv'
  <2>1. PICK r : r = [Slot(m, "1") EXCEPT !.ok = FALSE]
    OBVIOUS
  <2>2. r \in SlotType /\ r.msg = m
    BY <2>1 DEF Slot, SlotType
  <2>3. /\ CrashInWrite(m) /\ half' = Idle /\ UNCHANGED <<late, undead>>
        /\ disk' = Append(disk, r) /\ msgs' = <<>>
    BY <1>6, <2>1 DEF MCrashInWrite, CrashInWrite, Drop
  <2>4. FileOf(Append(disk, r))
    BY <1>1, <2>2, WriteProperties
  <2>5. msgs' \in Seq(EntryType) /\ FileOf(disk') /\ Straight(msgs', disk', late')
    BY <1>2, <2>3, <2>4
  <2> QED
    BY <1>6, <2>3, <2>5, IdleSteps DEF MNext, Next
<1>7. CASE Stop
  <2>1. /\ DeleteQueue /\ half' = Idle /\ UNCHANGED <<late, undead>>
        /\ disk' = disk /\ msgs' = <<>>
    BY <1>7 DEF Stop, DeleteQueue, Drop
  <2> QED
    BY <1>1, <1>2, <1>7, <2>1, IdleSteps DEF MNext, Next
<1>8. CASE MGetStats
  <2>1. /\ good' = TRUE /\ open
        /\ UNCHANGED <<open, durable, msgs, disk, sent, compacted, half, late, undead>>
    BY <1>8 DEF MGetStats, GetStats
  <2>2. InOrder'
    BY <1>8, StoreStepOrdered DEF MGetStats, Next
  <2>3. HalfHolds'
    BY <2>1 DEF MInv, HalfHolds, Inserting, Removing
  <2>4. HalfOf(half', msgs') /\ (half' # Idle => open')
    BY <2>1, HalfKinds DEF MInv, HalfOf
  <2> QED
    BY <1>1, <2>1, <2>2, <2>3, <2>4, MInvFollows DEF TypeOK
<1>9. CASE UNCHANGED mvars
  <2>1. UNCHANGED <<open, durable, msgs, disk, good, sent, compacted, half, late, undead>>
    BY <1>9 DEF mvars, vars
  <2> QED
    BY <2>1 DEF MInv, MTypeOK, TypeOK, InOrder, Placed, PlacedLive, Straight, HalfHolds,
                Inserting, Removing
<1> QED
  BY <1>4, <1>5, <1>6, <1>7, <1>8, <1>9, BeginInsertKeeps, EndInsertKeeps, BeginRemoveKeeps,
     EndRemoveKeeps, MCompactKeeps DEF MNext

LEMMA MInvInit == MInit => MInv
<1> SUFFICES ASSUME MInit PROVE MInv
  OBVIOUS
<1>1. Init /\ half = Idle /\ late = {} /\ undead = {}
  BY DEF MInit
<1>2. TypeOK /\ InOrder
  BY <1>1, InvInit, OrderInit DEF Inv
<1>3. MTypeOK
  BY <1>1, <1>2 DEF MTypeOK
<1>4. HalfHolds
  BY <1>1 DEF HalfHolds, Inserting, Removing
<1>5. Straight(msgs, disk, late)
  BY <1>1, <1>2, InvInit DEF Inv, OwnsItsRecord, Straight
<1> QED
  BY <1>2, <1>3, <1>4, <1>5 DEF MInv

(* The store beside the management thread: types, the order of publication,
   the offsets and what a call cut in two relies on, together. *)
THEOREM MaintenanceCorrect == MSpec => []MInv
  BY MInvInit, MInvStep, PTL DEF MSpec

(* The state stays well formed while calls are cut in two. *)
THEOREM MaintenanceTypes == MSpec => []MTypeOK
  BY MaintenanceCorrect, PTL DEF MInv

(* Only a message whose insert() compact() came between has an offset into
   the record of another, whatever the two threads and the crashes do. *)
THEOREM OnlyLateStray == MSpec => []OnlyLateOffsetsStray
<1>1. MInv => OnlyLateOffsetsStray
  BY DEF MInv, Straight, OnlyLateOffsetsStray
<1> QED
  BY <1>1, MaintenanceCorrect, PTL

---------------------------------------------------------------------------
(* The store implements FifoQueue also while calls are cut in two: a       *)
(* publication counts as offered when the second half of insert() is done. *)
ShownSent == IF Inserting THEN Front(sent) ELSE sent

LEMMA FrontAppend ==
  ASSUME NEW s \in Seq(Msg), NEW m \in Msg
  PROVE  Front(Append(s, m)) = s
<1>1. PICK t : t = Append(s, m)
  OBVIOUS
<1>2. /\ t \in Seq(Msg) /\ Len(t) = Len(s) + 1 /\ Len(s) \in Nat
      /\ \A i \in 1..Len(s) : t[i] = s[i]
  BY <1>1, AppendProperties, LenProperties
<1>3. \A i \in 1..Len(s) : t[i] \in Msg
  BY <1>2, ElementOfSeq, LenProperties
<1>4. /\ SubSeq(t, 1, Len(s)) \in Seq(Msg)
      /\ Len(SubSeq(t, 1, Len(s))) = Len(s)
      /\ \A i \in 1..Len(s) : SubSeq(t, 1, Len(s))[i] = t[i]
  <2>1. 1 \in Int /\ Len(s) \in Int
    BY <1>2
  <2>2. /\ SubSeq(t, 1, Len(s)) \in Seq(Msg)
        /\ Len(SubSeq(t, 1, Len(s))) = IF 1 <= Len(s) THEN Len(s) - 1 + 1 ELSE 0
        /\ \A i \in 1..(Len(s) - 1 + 1) : SubSeq(t, 1, Len(s))[i] = t[1 + i - 1]
    BY <1>2, <1>3, <2>1, SubSeqProperties
  <2> QED
    BY <1>2, <2>2
<1>5. SubSeq(t, 1, Len(s)) = s
  BY <1>2, <1>4, SeqEqual
<1>6. Len(t) - 1 = Len(s)
  BY <1>2
<1> QED
  BY <1>1, <1>5, <1>6 DEF Front

LEMMA FrontLast ==
  ASSUME NEW s \in Seq(Msg), s # <<>>, SentOnce(s)
  PROVE  /\ s[Len(s)] \in Msg /\ Front(s) \in Seq(Msg)
         /\ Append(Front(s), s[Len(s)]) = s
         /\ s[Len(s)] \notin ToSet(Front(s))
<1>1. PICK n : n = Len(s)
  OBVIOUS
<1>2. n \in Nat /\ n > 0 /\ DOMAIN s = 1..n /\ \A i \in 1..n : s[i] \in Msg
  <2>1. Len(s) \in Nat \ {0} /\ DOMAIN s = 1..Len(s)
    BY EmptySeq, LenProperties
  <2> QED
    BY <1>1, <2>1, ElementOfSeq
<1>3. PICK t : t = Front(s)
  OBVIOUS
<1>4. t \in Seq(Msg) /\ Len(t) = n - 1 /\ \A i \in 1..(n - 1) : t[i] = s[i]
  <2>1. 1 \in Int /\ n - 1 \in Int /\ \A i \in 1..(n - 1) : s[i] \in Msg
    BY <1>2
  <2>2. /\ SubSeq(s, 1, n - 1) \in Seq(Msg)
        /\ Len(SubSeq(s, 1, n - 1)) = IF 1 <= n - 1 THEN n - 1 - 1 + 1 ELSE 0
        /\ \A i \in 1..(n - 1 - 1 + 1) : SubSeq(s, 1, n - 1)[i] = s[1 + i - 1]
    BY <1>2, <2>1, SubSeqProperties
  <2>3. t = SubSeq(s, 1, n - 1)
    BY <1>1, <1>3 DEF Front
  <2> QED
    BY <1>2, <2>2, <2>3
<1>5. s[n] \in Msg
  BY <1>2
<1>6. /\ Append(t, s[n]) \in Seq(Msg) /\ Len(Append(t, s[n])) = n
      /\ \A i \in 1..(n - 1) : Append(t, s[n])[i] = t[i]
      /\ Append(t, s[n])[n] = s[n]
  <2>1. /\ Append(t, s[n]) \in Seq(Msg) /\ Len(Append(t, s[n])) = Len(t) + 1
        /\ \A i \in 1..Len(t) : Append(t, s[n])[i] = t[i]
        /\ Append(t, s[n])[Len(t) + 1] = s[n]
    BY <1>4, <1>5, AppendProperties
  <2>2. Len(t) + 1 = n
    BY <1>2, <1>4
  <2> QED
    BY <1>4, <2>1, <2>2
<1>7. \A i \in 1..n : Append(t, s[n])[i] = s[i]
  <2> SUFFICES ASSUME NEW i \in 1..n PROVE Append(t, s[n])[i] = s[i]
    OBVIOUS
  <2>1. CASE i = n
    BY <1>6, <2>1
  <2>2. CASE i # n
    <3>1. i \in 1..(n - 1)
      BY <1>2, <2>2
    <3> QED
      BY <1>4, <1>6, <3>1
  <2> QED
    BY <2>1, <2>2
<1>8. Append(t, s[n]) = s
  BY <1>1, <1>6, <1>7, SeqEqual
<1>9. s[n] \notin ToSet(t)
  <2>1. ASSUME NEW i \in DOMAIN t, t[i] = s[n] PROVE FALSE
    <3>1. i \in 1..(n - 1)
      BY <1>4, LenProperties
    <3>2. s[i] = s[n] /\ i \in 1..n /\ n \in 1..n /\ i # n
      BY <1>2, <1>4, <2>1, <3>1
    <3> QED
      BY <1>2, <3>2 DEF SentOnce
  <2> QED
    BY <1>4, <2>1, ElementsOfSeq
<1> QED
  BY <1>1, <1>3, <1>4, <1>5, <1>8, <1>9

\* Every step is one of the abstract queue or leaves it as it is.
LEMMA ShownStep == MInv /\ MInv' /\ [MNext]_mvars => [Shown!Next]_<<open, Payloads(msgs), ShownSent>>
<1> SUFFICES ASSUME MInv, MInv', [MNext]_mvars
             PROVE  [Shown!Next]_<<open, Payloads(msgs), ShownSent>>
  OBVIOUS
<1>1. /\ FileOf(disk) /\ msgs \in Seq(EntryType) /\ sent \in Seq(Msg)
      /\ SentOnce(sent) /\ Placed(msgs, sent)
  BY MInvMeans
<1>2. msgs' \in Seq(EntryType) /\ Placed(msgs', sent')
  BY DEF MInv, MTypeOK, TypeOK, InOrder
<1>3. Payloads(<<>>) = <<>>
  BY PayloadsEmpty
<1>4. (Payloads(msgs))' = Payloads(msgs')
  BY DEF Payloads
<1>5. /\ ~Inserting => ShownSent = sent
      /\ ~Inserting' => ShownSent' = sent'
      /\ Inserting => ShownSent = Front(sent)
      /\ Inserting' => ShownSent' = Front(sent')
  BY DEF ShownSent, Inserting
<1>6. /\ half = Idle => ~Inserting
      /\ half' = Idle => ~Inserting'
      /\ half' = half => (Inserting' <=> Inserting)
  BY DEF Inserting
<1>7. half # Idle => open
  BY HalfKinds DEF MInv
<1>8. ASSUME NEW m \in Msg, InsertTransient(m)
      PROVE  Shown!Offer(m)
  <2>1. /\ m \notin ToSet(sent) /\ sent' = Append(sent, m) /\ Insert(m)
        /\ ShownSent = sent /\ ShownSent' = sent' /\ open /\ open' = open
    BY <1>5, <1>6, <1>8 DEF InsertTransient, Insert
  <2>2. PICK e \in EntryType : e.msg = m /\ msgs' = Append(msgs, e)
    BY <1>1, <2>1, InsertsOne
  <2>3. Payloads(msgs') = Append(Payloads(msgs), m)
    BY <1>1, <2>2, PayloadsAppend
  <2> QED
    BY <1>4, <2>1, <2>3 DEF Shown!Offer, Shown!ToSet, ToSet, ShownSent, Inserting
<1>9. ASSUME NEW m \in Msg, MCrashInWrite(m)
      PROVE  Shown!OfferAndCrash(m)
  <2>1. /\ m \notin ToSet(sent) /\ sent' = Append(sent, m) /\ msgs' = <<>>
        /\ ShownSent = sent /\ ShownSent' = sent' /\ open /\ open' = FALSE
    BY <1>5, <1>6, <1>9 DEF MCrashInWrite, CrashInWrite, Drop
  <2> QED
    BY <1>3, <1>4, <2>1 DEF Shown!OfferAndCrash, Shown!ToSet, ToSet, ShownSent, Inserting
<1>10. CASE EndInsert
  <2>1. /\ Inserting /\ msgs' = Append(msgs, half.entry) /\ sent' = sent /\ ~Inserting'
        /\ open /\ open' = open
    BY <1>6, <1>7, <1>10 DEF EndInsert, Inserting
  <2>2. PICK e \in EntryType : e = half.entry
    BY <2>1, HalfKinds DEF MInv, Inserting
  <2>3. sent # <<>> /\ e.msg = sent[Len(sent)]
    BY <2>1, <2>2 DEF MInv, HalfHolds
  <2>4. PICK m \in Msg : m = e.msg
    BY EntryFields
  <2>5. /\ m \notin ToSet(Front(sent)) /\ sent = Append(Front(sent), m)
    BY <1>1, <2>3, <2>4, FrontLast
  <2>6. Payloads(msgs') = Append(Payloads(msgs), m)
    BY <1>1, <2>1, <2>2, <2>4, PayloadsAppend
  <2>7. /\ m \notin ToSet(ShownSent) /\ ShownSent' = Append(ShownSent, m)
    BY <1>5, <2>1, <2>5
  <2>8. Shown!Offer(m)
    BY <1>4, <2>1, <2>6, <2>7 DEF Shown!Offer, Shown!ToSet, ToSet, ShownSent, Inserting
  <2> QED
    BY <2>8 DEF Shown!Next
<1>11. CASE Stop
  <2>1. msgs' = <<>> /\ sent' = sent /\ ShownSent' = sent /\ open /\ open' = FALSE
    BY <1>5, <1>6, <1>11 DEF Stop, DeleteQueue, Drop
  <2>2. CASE Inserting
    <3>1. sent # <<>>
      BY <2>2 DEF MInv, HalfHolds
    <3>2. PICK m \in Msg : m = sent[Len(sent)]
      BY <1>1, <3>1, FrontLast
    <3>3. m \notin ToSet(Front(sent)) /\ sent = Append(Front(sent), m)
      BY <1>1, <3>1, <3>2, FrontLast
    <3>4. m \notin ToSet(ShownSent) /\ ShownSent' = Append(ShownSent, m)
      BY <1>5, <2>1, <2>2, <3>3
    <3>5. Shown!OfferAndCrash(m)
      BY <1>3, <1>4, <2>1, <3>4
         DEF Shown!OfferAndCrash, Shown!ToSet, ToSet, ShownSent, Inserting
    <3> QED
      BY <3>5 DEF Shown!Next
  <2>3. CASE ~Inserting
    <3>1. ShownSent' = ShownSent
      BY <1>5, <2>1, <2>3
    <3>2. Shown!Close
      BY <1>3, <1>4, <2>1, <3>1 DEF Shown!Close, ShownSent, Inserting
    <3> QED
      BY <3>2 DEF Shown!Next
  <2> QED
    BY <2>2, <2>3
<1>12. CASE EndRemove
  <2>1. /\ Removing /\ msgs' = RemoveAt(msgs, half.place) /\ sent' = sent
        /\ ShownSent = sent /\ ShownSent' = sent /\ open /\ open' = open
    <3>1. Removing /\ half' = Idle
      BY <1>12 DEF EndRemove, Removing
    <3>2. ~Inserting
      BY <3>1, HalfKinds DEF MInv
    <3> QED
      BY <1>5, <1>6, <1>7, <1>12, <3>1, <3>2 DEF EndRemove
  <2>2. PICK k \in DOMAIN msgs : k = half.place
    BY <2>1, HalfKinds DEF MInv
  <2>3. Payloads(msgs') = RemoveAt(Payloads(msgs), k) /\ k \in DOMAIN Payloads(msgs)
    BY <1>1, <2>1, <2>2, PayloadsRemoveAt, PayloadsAre
  <2>4. Shown!Take(k)
    BY <1>4, <2>1, <2>3 DEF Shown!Take, Shown!RemoveAt, RemoveAt, ShownSent, Inserting
  <2> QED
    BY <2>3, <2>4 DEF Shown!Next
<1>13. ASSUME NEW d \in BOOLEAN, MDeclareQueue(d)
       PROVE  Shown!Open
  <2>1. half = Idle /\ half' = Idle /\ sent' = sent /\ ~open /\ open' = TRUE
    BY <1>7, <1>13 DEF MDeclareQueue, DeclareQueue
  <2>2. ShownSent = sent /\ ShownSent' = sent
    BY <1>5, <1>6, <2>1
  <2>3. PartOf(Payloads(msgs'), sent)
    BY <1>1, <1>2, <2>1, PlacedIsPart
  <2>4. Shown!IsSubSequence(Payloads(msgs'), sent)
    BY <2>3 DEF PartOf, Shown!IsSubSequence
  <2> QED
    BY <1>4, <2>1, <2>2, <2>4 DEF Shown!Open, ShownSent, Inserting
<1>14. ASSUME NEW m \in Msg, BeginInsert(m)
       PROVE  UNCHANGED <<open, Payloads(msgs), ShownSent>>
  <2>1. /\ half = Idle /\ Inserting' /\ msgs' = msgs /\ sent' = Append(sent, m)
        /\ open' = open
    <3>1. half' = [op |-> "insert", entry |-> Written(m)]
      BY <1>14 DEF BeginInsert
    <3>2. half'.op = "insert"
      BY <3>1
    <3> QED
      BY <1>14, <3>2 DEF BeginInsert, Inserting, Idle
  <2>2. Front(Append(sent, m)) = sent
    BY <1>1, FrontAppend
  <2> QED
    BY <1>4, <1>5, <1>6, <2>1, <2>2
<1>15. ASSUME NEW id, BeginRemove(id)
       PROVE  UNCHANGED <<open, Payloads(msgs), ShownSent>>
  <2>1. half = Idle /\ msgs' = msgs /\ sent' = sent /\ half'.op = "remove" /\ open' = open
    BY <1>15 DEF BeginRemove
  <2>2. ~Inserting'
    BY <2>1 DEF Inserting
  <2> QED
    BY <1>4, <1>5, <1>6, <2>1, <2>2
<1>16. CASE MCompact
  <2>1. /\ sent' = sent /\ half' = half /\ open' = open
        /\ msgs' = [i \in DOMAIN msgs |-> [msgs[i] EXCEPT !.slot = i]]
    BY <1>16 DEF MCompact, Compact
  <2>2. \A i \in DOMAIN msgs : [msgs[i] EXCEPT !.slot = i].msg = msgs[i].msg
    <3>1. \A i \in DOMAIN msgs : msgs[i] \in EntryType
      BY <1>1, ElementsOfSeq
    <3> QED
      BY <3>1 DEF EntryType
  <2>3. Payloads(msgs') = Payloads(msgs)
    BY <2>1, <2>2 DEF Payloads
  <2>4. UNCHANGED <<open, Payloads(msgs), ShownSent>>
    BY <1>4, <1>5, <1>6, <2>1, <2>3
  <2> QED
    BY <2>4
<1>17. CASE MGetStats \/ UNCHANGED mvars
  <2>1. sent' = sent /\ half' = half /\ msgs' = msgs /\ open' = open
    BY <1>17 DEF MGetStats, GetStats, mvars, vars
  <2>2. UNCHANGED <<open, Payloads(msgs), ShownSent>>
    BY <1>4, <1>5, <1>6, <2>1
  <2> QED
    BY <2>2
<1> QED
  BY <1>8, <1>9, <1>10, <1>11, <1>12, <1>13, <1>14, <1>15, <1>16, <1>17
     DEF MNext, Shown!Next

LEMMA ShownInit == MInit => Shown!Init
<1>1. Payloads(<<>>) = <<>>
  BY PayloadsEmpty
<1> QED
  BY <1>1 DEF MInit, Init, Shown!Init

(* The store stays a queue while compact() and get_stats() come between the
   halves of its calls: nothing twice, nothing invented, nothing overtaken. *)
THEOREM StoreStaysFifo == MSpec => StaysFifo
<1>1. MInv /\ MInv' /\ [MNext]_mvars
        => [Shown!Next]_<<open, Payloads(msgs), IF half # Idle /\ half.op = "insert"
                                                  THEN Front(sent) ELSE sent>>
  BY ShownStep DEF ShownSent, Inserting
<1> QED
  BY <1>1, ShownInit, MaintenanceCorrect, PTL DEF MSpec, StaysFifo, Shown!Spec

---------------------------------------------------------------------------
(* The file of a compacted store, as long as no insert() was cut in two:   *)
(* it can be read to its end, and but for the messages of U a record is    *)
(* live exactly when its message is in memory.                             *)
Unsettled == undead \cup Underway

Reflects(q, d, U) ==
  /\ \A i \in DOMAIN d : d[i].ok
  /\ \A i \in DOMAIN q : q[i].slot > 0
  /\ \A i \in DOMAIN q : q[i].msg \notin U => d[q[i].slot].valid = "1"
  /\ \A i \in DOMAIN d : d[i].valid = "1" /\ d[i].msg \notin U =>
       \E j \in DOMAIN q : q[j].msg = d[i].msg

NoLive(d, m) == \A i \in DOMAIN d : d[i].valid = "1" => d[i].msg # m

\* The record of the call that is underway.
HalfReflects ==
  /\ Inserting => half.entry.slot > 0 /\ disk[half.entry.slot].valid = "1"
  /\ Removing /\ half.entry.msg \notin undead => NoLive(disk, half.entry.msg)

MExact ==
  /\ open /\ durable => AllMarked(msgs) /\ (half # Idle => half.entry.valid = "1")
  /\ open /\ durable /\ compacted /\ late = {} =>
       good /\ Reflects(msgs, disk, Unsettled) /\ HalfReflects

LEMMA NeverTwice ==
  ASSUME NEW s \in Seq(Msg), SentOnce(s)
  PROVE  /\ \A m : ~Before(s, m, m)
         /\ \A m, n : ~(Before(s, m, n) /\ Before(s, n, m))
<1>1. DOMAIN s \subseteq Int
  BY LenProperties
<1>2. ASSUME NEW m, Before(s, m, m) PROVE FALSE
  BY <1>1, <1>2 DEF Before, SentOnce
<1>3. ASSUME NEW m, NEW n, Before(s, m, n), Before(s, n, m) PROVE FALSE
  <2>1. PICK i \in DOMAIN s, j \in DOMAIN s : i < j /\ s[i] = m /\ s[j] = n
    BY <1>3 DEF Before
  <2>2. PICK k \in DOMAIN s, l \in DOMAIN s : k < l /\ s[k] = n /\ s[l] = m
    BY <1>3 DEF Before
  <2>3. i = l /\ j = k
    BY <2>1, <2>2 DEF SentOnce
  <2> QED
    BY <1>1, <2>1, <2>2, <2>3
<1> QED
  BY <1>2, <1>3

LEMMA ReflectsWrite ==
  ASSUME NEW q, NEW d, FileOf(d), NEW U, Reflects(q, d, U), Straight(q, d, {}),
         NEW r \in SlotType, r.ok
  PROVE  Reflects(q, Append(d, r), U \cup {r.msg})
<1>1. PICK c : c = Append(d, r)
  OBVIOUS
<1>2. /\ Len(d) \in Nat /\ DOMAIN d = 1..Len(d) /\ DOMAIN c = 1..(Len(d) + 1)
      /\ \A i \in 1..Len(d) : c[i] = d[i]
      /\ c[Len(d) + 1] = r
  BY <1>1, AppendProperties, LenProperties DEF FileOf
<1>3. \A i \in DOMAIN c : (i \in DOMAIN d /\ c[i] = d[i]) \/ (i = Len(d) + 1 /\ c[i] = r)
  BY <1>2
<1>4. \A i \in DOMAIN q : q[i].slot \in DOMAIN d /\ c[q[i].slot] = d[q[i].slot]
  BY <1>2 DEF Reflects, Straight
<1>5. \A i \in DOMAIN c : c[i].ok
  BY <1>3 DEF Reflects
<1>6. \A i \in DOMAIN c : c[i].valid = "1" /\ c[i].msg \notin U \cup {r.msg} =>
        \E j \in DOMAIN q : q[j].msg = c[i].msg
  BY <1>3 DEF Reflects
<1>7. Reflects(q, c, U \cup {r.msg})
  BY <1>4, <1>5, <1>6 DEF Reflects
<1> QED
  BY <1>1, <1>7

LEMMA ReflectsAppend ==
  ASSUME NEW q \in Seq(EntryType), NEW d, NEW V, NEW e \in EntryType,
         Reflects(q, d, V \cup {e.msg}), \A i \in DOMAIN q : q[i].msg # e.msg,
         e.slot > 0, d[e.slot].valid = "1"
  PROVE  Reflects(Append(q, e), d, V)
<1>1. PICK r : r = Append(q, e)
  OBVIOUS
<1>2. /\ Len(q) \in Nat /\ DOMAIN q = 1..Len(q) /\ DOMAIN r = 1..(Len(q) + 1)
      /\ \A i \in 1..Len(q) : r[i] = q[i]
      /\ r[Len(q) + 1] = e
  BY <1>1, AppendProperties, LenProperties
<1>3. \A i \in DOMAIN r : (i \in DOMAIN q /\ r[i] = q[i]) \/ r[i] = e
  BY <1>2
<1>4. Len(q) + 1 \in DOMAIN r /\ \A i \in DOMAIN q : i \in DOMAIN r /\ r[i] = q[i]
  BY <1>2
<1>5. \A i \in DOMAIN r : r[i].slot > 0
  BY <1>3 DEF Reflects
<1>6. \A i \in DOMAIN r : r[i].msg \notin V => d[r[i].slot].valid = "1"
  BY <1>3 DEF Reflects
<1>7. ASSUME NEW i \in DOMAIN d, d[i].valid = "1", d[i].msg \notin V
      PROVE  \E j \in DOMAIN r : r[j].msg = d[i].msg
  <2>1. CASE d[i].msg = e.msg
    BY <1>2, <1>4, <2>1
  <2>2. CASE d[i].msg # e.msg
    <3>1. PICK j \in DOMAIN q : q[j].msg = d[i].msg
      BY <1>7, <2>2 DEF Reflects
    <3> QED
      BY <1>4, <3>1
  <2> QED
    BY <2>1, <2>2
<1>8. Reflects(r, d, V)
  BY <1>5, <1>6, <1>7 DEF Reflects
<1> QED
  BY <1>1, <1>8

LEMMA ReflectsMark ==
  ASSUME FileOf(disk), NEW q, NEW U, Reflects(q, disk, U), Straight(q, disk, {}),
         NEW s \in Seq(Msg), SentOnce(s), PlacedLive(disk, s), NEW k \in DOMAIN q
  PROVE  /\ Reflects(q, MarkedInvalid(q[k].slot), U \cup {q[k].msg})
         /\ q[k].msg \notin U => NoLive(MarkedInvalid(q[k].slot), q[k].msg)
<1>1. PICK n, m, c : n = q[k].slot /\ m = q[k].msg /\ c = MarkedInvalid(n)
  OBVIOUS
<1>2. n \in DOMAIN disk /\ disk[n].msg = m
  BY <1>1 DEF Reflects, Straight
<1>3. /\ DOMAIN c = DOMAIN disk
      /\ \A j \in DOMAIN disk : /\ c[j].msg = disk[j].msg /\ c[j].ok = disk[j].ok
                                /\ c[j].valid = IF j = n THEN "0" ELSE disk[j].valid
  BY <1>1, <1>2, MarkedInvalidIs
<1>4. \A i \in DOMAIN q : q[i].slot \in DOMAIN disk /\ disk[q[i].slot].msg = q[i].msg
  BY DEF Reflects, Straight
<1>5. \A i \in DOMAIN q : q[i].msg \notin U \cup {m} => c[q[i].slot].valid = "1"
  <2> SUFFICES ASSUME NEW i \in DOMAIN q, q[i].msg \notin U \cup {m}
               PROVE  c[q[i].slot].valid = "1"
    OBVIOUS
  <2>1. q[i].slot # n
    BY <1>2, <1>4
  <2> QED
    BY <1>3, <1>4, <2>1 DEF Reflects
<1>6. \A i \in DOMAIN c : c[i].ok
  BY <1>3 DEF Reflects
<1>7. \A i \in DOMAIN c : c[i].valid = "1" /\ c[i].msg \notin U \cup {m} =>
        \E j \in DOMAIN q : q[j].msg = c[i].msg
  <2> SUFFICES ASSUME NEW i \in DOMAIN c, c[i].valid = "1", c[i].msg \notin U \cup {m}
               PROVE  \E j \in DOMAIN q : q[j].msg = c[i].msg
    OBVIOUS
  <2>1. i \in DOMAIN disk /\ disk[i].valid = "1" /\ disk[i].msg = c[i].msg
    <3>1. i # n
      BY <1>2, <1>3
    <3> QED
      BY <1>3, <3>1
  <2> QED
    BY <2>1 DEF Reflects
<1>8. Reflects(q, c, U \cup {m})
  BY <1>5, <1>6, <1>7 DEF Reflects
<1>9. ASSUME m \notin U, NEW i \in DOMAIN c, c[i].valid = "1", c[i].msg = m
      PROVE  FALSE
  <2>1. disk[n].valid = "1"
    BY <1>1, <1>9 DEF Reflects
  <2>2. i \in DOMAIN disk /\ i # n /\ disk[i].valid = "1" /\ disk[i].msg = m
    BY <1>3, <1>9
  <2>3. DOMAIN disk \subseteq Int
    BY LenProperties DEF FileOf
  <2>4. i < n \/ n < i
    BY <1>2, <2>2, <2>3
  <2>5. Before(s, m, m)
    BY <1>2, <2>1, <2>2, <2>4 DEF PlacedLive
  <2> QED
    BY <2>5, NeverTwice
<1> QED
  BY <1>1, <1>8, <1>9 DEF NoLive

LEMMA ReflectsRemoveAt ==
  ASSUME NEW q \in Seq(EntryType), NEW d, NEW V, NEW s \in Seq(Msg), SentOnce(s), Placed(q, s),
         NEW k \in DOMAIN q, Reflects(q, d, V \cup {q[k].msg}),
         q[k].msg \notin V => NoLive(d, q[k].msg)
  PROVE  Reflects(RemoveAt(q, k), d, V)
<1>1. PICK r, m : r = RemoveAt(q, k) /\ m = q[k].msg
  OBVIOUS
<1>2. Len(q) \in Nat /\ DOMAIN q = 1..Len(q) /\ k \in 1..Len(q)
  BY LenProperties
<1>4. \A i \in DOMAIN r : \E j \in DOMAIN q : j # k /\ r[i] = q[j]
  BY <1>1, RemoveAtElements
<1>5. \A j \in DOMAIN q : j # k => \E i \in DOMAIN r : r[i] = q[j]
  BY <1>1, RemoveAtElements
<1>6. ASSUME NEW j \in DOMAIN q, j # k PROVE q[j].msg # m
  <2>1. j < k \/ k < j
    BY <1>2, <1>6
  <2>2. ~Before(s, m, m)
    BY NeverTwice
  <2> QED
    BY <1>1, <2>1, <2>2 DEF Placed
<1>7. \A i \in DOMAIN r : r[i].slot > 0 /\ (r[i].msg \notin V => d[r[i].slot].valid = "1")
  <2> SUFFICES ASSUME NEW i \in DOMAIN r
               PROVE  r[i].slot > 0 /\ (r[i].msg \notin V => d[r[i].slot].valid = "1")
    OBVIOUS
  <2>1. PICK j \in DOMAIN q : j # k /\ r[i] = q[j]
    BY <1>4
  <2>2. q[j].msg # m
    BY <1>6, <2>1
  <2> QED
    BY <1>1, <2>1, <2>2 DEF Reflects
<1>8. ASSUME NEW i \in DOMAIN d, d[i].valid = "1", d[i].msg \notin V
      PROVE  \E j \in DOMAIN r : r[j].msg = d[i].msg
  <2>1. d[i].msg # m
    BY <1>1, <1>8 DEF NoLive
  <2>2. PICK j \in DOMAIN q : q[j].msg = d[i].msg
    BY <1>1, <1>8, <2>1 DEF Reflects
  <2>3. j # k
    BY <1>1, <2>1, <2>2
  <2> QED
    BY <1>5, <2>2, <2>3
<1>9. Reflects(r, d, V)
  BY <1>7, <1>8 DEF Reflects
<1> QED
  BY <1>1, <1>9

LEMMA CompactReflects ==
  ASSUME NEW q \in Seq(EntryType), AllMarked(q), NEW V,
         NEW d, d = [i \in DOMAIN q |-> Slot(q[i].msg, q[i].valid)],
         NEW r, r = [i \in DOMAIN q |-> [q[i] EXCEPT !.slot = i]]
  PROVE  Reflects(r, d, V)
<1>1. Len(q) \in Nat /\ DOMAIN q = 1..Len(q) /\ \A i \in DOMAIN q : q[i] \in EntryType
  BY ElementsOfSeq
<1>2. DOMAIN d = DOMAIN q /\ DOMAIN r = DOMAIN q
  OBVIOUS
<1>3. \A i \in DOMAIN q : d[i].ok /\ d[i].valid = "1" /\ d[i].msg = q[i].msg
  BY DEF Slot, AllMarked
<1>4. \A i \in DOMAIN q : r[i].slot = i /\ r[i].msg = q[i].msg
  BY <1>1 DEF EntryType
<1>5. \A i \in DOMAIN q : i > 0
  BY <1>1
<1> QED
  BY <1>2, <1>3, <1>4, <1>5 DEF Reflects

LEMMA MExactFollows ==
  ASSUME open' /\ durable' => AllMarked(msgs') /\ (half' # Idle => half'.entry.valid = "1"),
         open' /\ durable' /\ compacted' /\ late' = {} =>
           good' /\ Reflects(msgs', disk', Unsettled') /\ HalfReflects'
  PROVE  MExact'
  BY DEF MExact, AllMarked, Reflects

LEMMA BeginInsertExact ==
  ASSUME MInv, MExact, NEW m \in Msg, BeginInsert(m)
  PROVE  MExact'
<1>1. FileOf(disk) /\ Straight(msgs, disk, late)
  BY MInvMeans
<1>2. /\ open /\ durable /\ half = Idle /\ disk' = DiskAfterWrite(m)
      /\ half' = [op |-> "insert", entry |-> Written(m)]
      /\ UNCHANGED <<open, durable, msgs, good, compacted, late, undead>>
  BY DEF BeginInsert
<1>3. half'.op = "insert" /\ half'.entry = Written(m) /\ half' # Idle
  <2>1. half'.op = "insert" /\ half'.entry = Written(m)
    BY <1>2
  <2> QED
    BY <2>1 DEF Idle
<1>4. Len(disk) \in Nat
  BY <1>1, LenProperties DEF FileOf
<1>5. PICK n \in Int : n = IF good THEN Len(disk) + 1 ELSE -1
  BY <1>4
<1>6. Written(m) = Entry(m, "1", n)
  BY <1>5 DEF Written, Bad
<1>7. Entry(m, "1", n).slot = n /\ Entry(m, "1", n).valid = "1" /\ Entry(m, "1", n).msg = m
  BY DEF Entry
<1>8. half'.entry.slot = n /\ half'.entry.valid = "1" /\ half'.entry.msg = m
  BY <1>3, <1>6, <1>7
<1>9. AllMarked(msgs')
  BY <1>2 DEF MExact
<1>10. ASSUME compacted, late = {}
       PROVE  good' /\ Reflects(msgs', disk', Unsettled') /\ HalfReflects'
  <2>1. good /\ Reflects(msgs, disk, Unsettled)
    BY <1>2, <1>10 DEF MExact
  <2>2. PICK r \in SlotType : r = Slot(m, "1")
    BY SlotProperties, Zenon
  <2>3. r.ok /\ r.valid = "1" /\ r.msg = m
    BY <2>2 DEF Slot
  <2>4. disk' = Append(disk, r) /\ n = Len(disk) + 1
    BY <1>2, <1>5, <2>1, <2>2 DEF DiskAfterWrite
  <2>5. Reflects(msgs, Append(disk, r), Unsettled \cup {r.msg})
    BY <1>1, <1>10, <2>1, <2>3, ReflectsWrite
  <2>6. Unsettled' = Unsettled \cup {m}
    BY <1>2, <1>3, <1>8 DEF Unsettled, Underway
  <2>7. Reflects(msgs', disk', Unsettled')
    BY <1>2, <2>3, <2>4, <2>5, <2>6
  <2>8. Append(disk, r)[Len(disk) + 1] = r
    BY <1>1, AppendProperties DEF FileOf
  <2>9. n > 0 /\ disk'[n].valid = "1"
    BY <1>4, <2>3, <2>4, <2>8
  <2>10. HalfReflects'
    BY <1>3, <1>8, <2>9 DEF HalfReflects, Inserting, Removing
  <2> QED
    BY <1>2, <2>1, <2>7, <2>10
<1> QED
  BY <1>2, <1>8, <1>9, <1>10, MExactFollows

LEMMA EndInsertExact ==
  ASSUME MInv, MExact, EndInsert
  PROVE  MExact'
<1>1. FileOf(disk) /\ msgs \in Seq(EntryType)
  BY MInvMeans
<1>2. /\ Inserting /\ half # Idle /\ msgs' = Append(msgs, half.entry) /\ half' = Idle
      /\ UNCHANGED <<open, durable, disk, good, sent, compacted, late, undead>>
  BY DEF EndInsert, Inserting
<1>3. PICK e \in EntryType : e = half.entry
  BY <1>2, HalfKinds DEF MInv
<1>4. open /\ \A i \in DOMAIN msgs : msgs[i].msg # e.msg
  BY <1>2, <1>3, HalfKinds DEF MInv, HalfHolds
<1>5. ASSUME durable PROVE AllMarked(msgs')
  <2>1. AllMarked(msgs) /\ e.valid = "1"
    BY <1>2, <1>3, <1>4, <1>5 DEF MExact
  <2>2. AllMarked(Append(msgs, e))
    BY <1>1, <2>1, MarkedAppend
  <2> QED
    BY <1>2, <1>3, <2>2
<1>6. ASSUME durable, compacted, late = {}
      PROVE  good' /\ Reflects(msgs', disk', Unsettled') /\ HalfReflects'
  <2>1. good /\ Reflects(msgs, disk, Unsettled) /\ e.slot > 0 /\ disk[e.slot].valid = "1"
    BY <1>2, <1>3, <1>4, <1>6 DEF MExact, HalfReflects
  <2>2. Unsettled = undead \cup {e.msg} /\ Unsettled' = undead
    BY <1>2, <1>3 DEF Unsettled, Underway
  <2>3. Reflects(Append(msgs, e), disk, undead)
    BY <1>1, <1>4, <2>1, <2>2, ReflectsAppend
  <2>4. HalfReflects'
    BY <1>2 DEF HalfReflects, Inserting, Removing
  <2> QED
    BY <1>2, <1>3, <2>1, <2>2, <2>3, <2>4
<1> QED
  BY <1>2, <1>5, <1>6, MExactFollows

LEMMA BeginRemoveExact ==
  ASSUME MInv, MExact, NEW id, BeginRemove(id)
  PROVE  MExact'
<1>1. /\ FileOf(disk) /\ msgs \in Seq(EntryType) /\ sent \in Seq(Msg)
      /\ SentOnce(sent) /\ PlacedLive(disk, sent) /\ Straight(msgs, disk, late)
  BY MInvMeans
<1>2. PICK k \in DOMAIN msgs :
        /\ IF good /\ IsStale(msgs[k]) THEN StaleWrite
           ELSE disk' = DiskAfterInvalidate(msgs[k])
        /\ half' = [op |-> "remove", entry |-> msgs[k], place |-> k]
  BY DEF BeginRemove
<1>3. /\ open /\ half = Idle
      /\ UNCHANGED <<open, durable, msgs, good, sent, compacted, late, undead>>
  BY DEF BeginRemove
<1>4. half'.op = "remove" /\ half'.entry = msgs[k] /\ half' # Idle
  <2>1. half'.op = "remove" /\ half'.entry = msgs[k]
    BY <1>2
  <2> QED
    BY <2>1 DEF Idle
<1>5. ASSUME durable PROVE AllMarked(msgs) /\ msgs[k].valid = "1"
  BY <1>3, <1>5 DEF MExact, AllMarked
<1>6. ASSUME durable, compacted, late = {}
      PROVE  good' /\ Reflects(msgs', disk', Unsettled') /\ HalfReflects'
  <2>1. good /\ Reflects(msgs, disk, Unsettled)
    BY <1>3, <1>6 DEF MExact
  <2>2. msgs[k].slot > 0
    BY <2>1 DEF Reflects
  <2>3. ~IsStale(msgs[k])
    BY <1>1, <1>6, <2>2 DEF Straight, IsStale
  <2>4. disk' = MarkedInvalid(msgs[k].slot)
    <3>1. disk' = DiskAfterInvalidate(msgs[k])
      BY <1>2, <2>3
    <3>2. msgs[k].valid = "1"
      BY <1>5, <1>6
    <3> QED
      BY <2>1, <2>2, <3>1, <3>2 DEF DiskAfterInvalidate, Never, Bad
  <2>5. /\ Reflects(msgs, MarkedInvalid(msgs[k].slot), Unsettled \cup {msgs[k].msg})
        /\ msgs[k].msg \notin Unsettled => NoLive(MarkedInvalid(msgs[k].slot), msgs[k].msg)
    BY <1>1, <1>6, <2>1, ReflectsMark
  <2>6. Unsettled = undead /\ Unsettled' = undead \cup {msgs[k].msg}
    BY <1>3, <1>4 DEF Unsettled, Underway
  <2>7. HalfReflects'
    BY <1>3, <1>4, <2>4, <2>5, <2>6 DEF HalfReflects, Inserting, Removing, NoLive
  <2> QED
    BY <1>3, <2>1, <2>4, <2>5, <2>6, <2>7
<1> QED
  BY <1>3, <1>4, <1>5, <1>6, MExactFollows

LEMMA EndRemoveExact ==
  ASSUME MInv, MExact, EndRemove
  PROVE  MExact'
<1>1. /\ msgs \in Seq(EntryType) /\ sent \in Seq(Msg) /\ SentOnce(sent) /\ Placed(msgs, sent)
  BY MInvMeans
<1>2. /\ Removing /\ half # Idle /\ msgs' = RemoveAt(msgs, half.place) /\ half' = Idle
      /\ UNCHANGED <<open, durable, disk, good, sent, compacted, late, undead>>
  BY DEF EndRemove, Removing
<1>3. PICK k \in DOMAIN msgs : k = half.place
  BY <1>2, HalfKinds DEF MInv
<1>4. open /\ half.entry.msg = msgs[k].msg
  BY <1>2, <1>3, HalfKinds DEF MInv, HalfHolds
<1>5. ASSUME durable PROVE AllMarked(msgs')
  <2>1. AllMarked(msgs)
    BY <1>4, <1>5 DEF MExact
  <2>2. AllMarked(RemoveAt(msgs, k))
    BY <1>1, <2>1, MarkedRemoveAt
  <2> QED
    BY <1>2, <1>3, <2>2
<1>6. ASSUME durable, compacted, late = {}
      PROVE  good' /\ Reflects(msgs', disk', Unsettled') /\ HalfReflects'
  <2>1. /\ good /\ Reflects(msgs, disk, Unsettled)
        /\ msgs[k].msg \notin undead => NoLive(disk, msgs[k].msg)
    BY <1>2, <1>4, <1>6 DEF MExact, HalfReflects
  <2>2. Unsettled = undead \cup {msgs[k].msg} /\ Unsettled' = undead
    BY <1>2, <1>4 DEF Unsettled, Underway
  <2>3. Reflects(RemoveAt(msgs, k), disk, undead)
    BY <1>1, <2>1, <2>2, ReflectsRemoveAt
  <2>4. HalfReflects'
    BY <1>2 DEF HalfReflects, Inserting, Removing
  <2> QED
    BY <1>2, <1>3, <2>1, <2>2, <2>3, <2>4
<1> QED
  BY <1>2, <1>5, <1>6, MExactFollows

LEMMA MCompactExact ==
  ASSUME MInv, MExact, MCompact
  PROVE  MExact'
<1>1. msgs \in Seq(EntryType)
  BY MInvMeans
<1>2. PICK d, r : /\ d = [i \in DOMAIN msgs |-> Slot(msgs[i].msg, msgs[i].valid)]
                  /\ r = [i \in DOMAIN msgs |-> [msgs[i] EXCEPT !.slot = i]]
  OBVIOUS
<1>3. /\ disk' = d /\ msgs' = r /\ good' = TRUE /\ open /\ open' = open /\ durable' = durable
      /\ half' = half
  BY <1>2 DEF MCompact, Compact
<1>4. ASSUME durable
      PROVE  /\ AllMarked(r) /\ Reflects(r, d, Unsettled')
             /\ half # Idle => half.entry.valid = "1"
  <2>1. AllMarked(msgs) /\ (half # Idle => half.entry.valid = "1")
    BY <1>3, <1>4 DEF MExact
  <2>2. AllMarked(r)
    BY <1>1, <1>2, <2>1, CompactMirrors
  <2>3. Reflects(r, d, Unsettled')
    BY <1>1, <1>2, <2>1, CompactReflects
  <2> QED
    BY <2>1, <2>2, <2>3
<1>5. ASSUME late' = {} PROVE HalfReflects'
  <2>1. ~Inserting
    BY <1>5 DEF MCompact, Inserting, Underway
  <2>2. Removing => half.entry.msg \in undead'
    BY DEF MCompact, Removing, Underway
  <2> QED
    BY <1>3, <2>1, <2>2 DEF HalfReflects, Inserting, Removing
<1> QED
  BY <1>3, <1>4, <1>5, MExactFollows

LEMMA MExactStep == MInv /\ MExact /\ [MNext]_mvars => MExact'
<1> SUFFICES ASSUME MInv, MExact, [MNext]_mvars
             PROVE  MExact'
  OBVIOUS
<1>1. /\ msgs \in Seq(EntryType) /\ (half # Idle => open)
  BY MInvMeans, HalfKinds DEF MInv
<1>2. ASSUME NEW d \in BOOLEAN, MDeclareQueue(d)
      PROVE  MExact'
  <2>1. /\ compacted' = FALSE /\ durable' = d /\ half' = Idle
        /\ d => msgs' \in Recoveries(disk)
    BY <1>1, <1>2 DEF MDeclareQueue, DeclareQueue
  <2>2. d => AllMarked(msgs')
    BY <2>1, RecoveryMarked
  <2> QED
    BY <2>1, <2>2, MExactFollows
<1>3. ASSUME NEW m \in Msg, InsertTransient(m)
      PROVE  MExact'
  <2>1. ~durable'
    BY <1>3 DEF InsertTransient, Insert
  <2> QED
    BY <2>1, MExactFollows
<1>4. ASSUME NEW m \in Msg, MCrashInWrite(m)
      PROVE  MExact'
  <2>1. ~open'
    BY <1>4 DEF MCrashInWrite, CrashInWrite, Drop
  <2> QED
    BY <2>1, MExactFollows
<1>5. CASE Stop
  <2>1. ~open'
    BY <1>5 DEF Stop, DeleteQueue, Drop
  <2> QED
    BY <2>1, MExactFollows
<1>6. CASE MGetStats
  <2>1. /\ good' = TRUE
        /\ UNCHANGED <<open, durable, msgs, disk, sent, compacted, half, late, undead>>
    BY <1>6 DEF MGetStats, GetStats
  <2>2. Unsettled' = Unsettled /\ (HalfReflects => HalfReflects')
    BY <2>1 DEF Unsettled, Underway, HalfReflects, Inserting, Removing
  <2> QED
    BY <2>1, <2>2, MExactFollows DEF MExact
<1>7. CASE UNCHANGED mvars
  <2>1. UNCHANGED <<open, durable, msgs, disk, good, sent, compacted, half, late, undead>>
    BY <1>7 DEF mvars, vars
  <2>2. Unsettled' = Unsettled /\ (HalfReflects => HalfReflects')
    BY <2>1 DEF Unsettled, Underway, HalfReflects, Inserting, Removing
  <2> QED
    BY <2>1, <2>2, MExactFollows DEF MExact
<1> QED
  BY <1>2, <1>3, <1>4, <1>5, <1>6, <1>7, BeginInsertExact, EndInsertExact, BeginRemoveExact,
     EndRemoveExact, MCompactExact DEF MNext

(* Two queues placed in the same publications have the messages they share
   in the same order. *)
LEMMA SameOrder ==
  ASSUME NEW s \in Seq(Msg), SentOnce(s), NEW p \in Seq(EntryType), NEW q \in Seq(EntryType),
         Placed(p, s), Placed(q, s), NEW m, NEW n,
         \E i \in DOMAIN q : q[i].msg = m, \E i \in DOMAIN q : q[i].msg = n,
         Follows(p, m, n)
  PROVE  Follows(q, m, n)
<1>1. DOMAIN p \subseteq Int /\ DOMAIN q \subseteq Int
  BY LenProperties
<1>2. PICK i \in DOMAIN p, j \in DOMAIN p : i <= j /\ p[i].msg = m /\ p[j].msg = n
  BY DEF Follows
<1>3. PICK k \in DOMAIN q : q[k].msg = m
  OBVIOUS
<1>4. PICK l \in DOMAIN q : q[l].msg = n
  OBVIOUS
<1>5. CASE i = j
  <2>1. k <= k /\ q[k].msg = n
    BY <1>1, <1>2, <1>3, <1>5
  <2> QED
    BY <1>3, <2>1 DEF Follows
<1>6. CASE i # j
  <2>1. Before(s, m, n)
    BY <1>1, <1>2, <1>6 DEF Placed
  <2>2. ASSUME l < k PROVE FALSE
    <3>1. Before(s, n, m)
      BY <1>3, <1>4, <2>2 DEF Placed
    <3> QED
      BY <2>1, <3>1, NeverTwice
  <2>3. k <= l
    BY <1>1, <2>2
  <2> QED
    BY <1>3, <1>4, <2>3 DEF Follows
<1> QED
  BY <1>5, <1>6

(* What a recovery of a file that reflects memory gives back. *)
LEMMA ReflectedRecovers ==
  ASSUME NEW s \in Seq(Msg), SentOnce(s), NEW q \in Seq(EntryType), Placed(q, s),
         NEW d, FileOf(d), PlacedLive(d, s), NEW U, Reflects(q, d, U), Straight(q, d, {}),
         NEW p \in Recoveries(d), NEW m, m \notin U, NEW n, n \notin U
  PROVE  Follows(p, m, n) <=> Follows(q, m, n)
<1>1. p \in Seq(EntryType) /\ Placed(p, s)
  BY RecoveryProperties, PlacedRecovery
<1>2. PICK S : S = Live(d)
  OBVIOUS
<1>3. \A i \in DOMAIN d : i \in S <=> d[i].valid = "1"
  <2>1. DOMAIN d = 1..Len(d) /\ Len(d) \in Nat
    BY LenProperties DEF FileOf
  <2>2. ASSUME NEW i \in DOMAIN d PROVE i \in Readable(d)
    <3>1. \A j \in 1..i : j \in DOMAIN d
      BY <2>1
    <3>2. \A j \in 1..i : d[j].ok
      BY <3>1 DEF Reflects
    <3> QED
      BY <3>2 DEF Readable
  <2> QED
    BY <1>2, <2>2 DEF Live
<1>4. S \subseteq DOMAIN d
  BY <1>2 DEF Live, Readable
<1>5. PICK f \in Enumerations(S) : p = [i \in DOMAIN f |-> Entry(d[f[i]].msg, "1", f[i])]
  BY <1>2, RecoveriesAre
<1>6. /\ \A i \in DOMAIN f : f[i] \in S
      /\ \A x \in S : \E i \in DOMAIN f : f[i] = x
  BY <1>5 DEF Enumerations
<1>7. DOMAIN p = DOMAIN f /\ \A i \in DOMAIN p : p[i].msg = d[f[i]].msg
  BY <1>5 DEF Entry
<1>8. ASSUME NEW x, x \notin U
      PROVE  (\E i \in DOMAIN p : p[i].msg = x) <=> (\E i \in DOMAIN q : q[i].msg = x)
  <2>1. ASSUME NEW i \in DOMAIN p, p[i].msg = x PROVE \E j \in DOMAIN q : q[j].msg = x
    <3>1. f[i] \in DOMAIN d /\ d[f[i]].valid = "1" /\ d[f[i]].msg = x
      BY <1>3, <1>4, <1>6, <1>7, <2>1
    <3> QED
      BY <1>8, <3>1 DEF Reflects
  <2>2. ASSUME NEW j \in DOMAIN q, q[j].msg = x PROVE \E i \in DOMAIN p : p[i].msg = x
    <3>1. /\ q[j].slot \in DOMAIN d /\ d[q[j].slot].msg = x /\ d[q[j].slot].valid = "1"
      BY <1>8, <2>2 DEF Reflects, Straight
    <3>2. PICK i \in DOMAIN f : f[i] = q[j].slot
      BY <1>3, <1>6, <3>1
    <3> QED
      BY <1>7, <3>1, <3>2
  <2> QED
    BY <2>1, <2>2
<1>9. ASSUME Follows(p, m, n) PROVE Follows(q, m, n)
  <2>1. (\E i \in DOMAIN p : p[i].msg = m) /\ (\E i \in DOMAIN p : p[i].msg = n)
    BY <1>9 DEF Follows
  <2>2. (\E i \in DOMAIN q : q[i].msg = m) /\ (\E i \in DOMAIN q : q[i].msg = n)
    BY <1>8, <2>1
  <2> QED
    BY <1>1, <1>9, <2>2, SameOrder
<1>10. ASSUME Follows(q, m, n) PROVE Follows(p, m, n)
  <2>1. (\E i \in DOMAIN q : q[i].msg = m) /\ (\E i \in DOMAIN q : q[i].msg = n)
    BY <1>10 DEF Follows
  <2>2. (\E i \in DOMAIN p : p[i].msg = m) /\ (\E i \in DOMAIN p : p[i].msg = n)
    BY <1>8, <2>1
  <2> QED
    BY <1>1, <1>10, <2>2, SameOrder
<1> QED
  BY <1>9, <1>10

(* What the file of a compacted store holds while calls are cut in two. *)
THEOREM ReflectionCorrect == MSpec => []MExact
<1>1. MInit => MExact
  BY DEF MInit, Init, MExact
<1>2. MInv /\ MExact /\ [MNext]_mvars => MExact'
  BY MExactStep
<1> QED
  BY <1>1, <1>2, MaintenanceCorrect, PTL DEF MSpec

(* While no insert() was cut in two, a crash of a compacted store loses no
   message and brings back only those whose remove() was cut in two. *)
THEOREM OnlyTheUndeadReturn == MSpec => []CompactedButTheUndead
<1>1. MInv /\ MExact => CompactedButTheUndead
  <2> SUFFICES ASSUME MInv, MExact, open, durable, compacted, late = {},
                      NEW p \in Recoveries(disk),
                      NEW m \in Msg \ (undead \cup Underway), NEW n \in Msg \ (undead \cup Underway)
               PROVE  Follows(p, m, n) <=> Follows(msgs, m, n)
    BY DEF CompactedButTheUndead
  <2>1. Reflects(msgs, disk, Unsettled) /\ m \notin Unsettled /\ n \notin Unsettled
    BY DEF MExact, Unsettled
  <2>2. /\ FileOf(disk) /\ msgs \in Seq(EntryType) /\ sent \in Seq(Msg) /\ SentOnce(sent)
        /\ Placed(msgs, sent) /\ PlacedLive(disk, sent) /\ Straight(msgs, disk, {})
    BY MInvMeans
  <2> QED
    BY <2>1, <2>2, ReflectedRecovers
<1> QED
  BY <1>1, MaintenanceCorrect, ReflectionCorrect, PTL

=============================================================================
