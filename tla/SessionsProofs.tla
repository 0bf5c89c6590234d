--------------------------- MODULE SessionsProofs ---------------------------
(***************************************************************************)
(* Whose consumers the broker keeps (connection.cpp, channel.cpp,          *)
(* consumer.cpp), for any number of connections, channels, queues and      *)
(* tags.  The links between a channel and its consumer go both ways, and   *)
(* each way is an invariant: a consumer is held by its channel unless the  *)
(* channel forgot it, and what a channel holds is a consumer of its own    *)
(* unless it was lost to a cancel or with its queue.                       *)
(***************************************************************************)
EXTENDS Sessions, TLAPS

\* A consumer its channel has not forgotten is the one its channel holds.
HeldUnlessForgotten ==
  \A s \in subs : s.forgotten \/ (s.live /\ s.channel \in open /\ held[s.channel] = s.name)

\* What a channel holds is a consumer of its own, or was lost.
Mine(s, ch) == s.live /\ s.channel = ch /\ s.name = held[ch]
HoldersHave ==
  \A ch \in open : held[ch] = Nobody \/ held[ch] \in lost \/ \E s \in subs : Mine(s, ch)

SessionsInvariant == TypeOK /\ NamesAreUnique /\ HeldUnlessForgotten /\ HoldersHave

\* One step of OthersKeepTheirs.
KeepsOthers ==
  \A s \in subs : s.live /\ s.channel \in open' /\ s.name \notin lost' =>
    \E t \in subs' : t.name = s.name /\ t.channel = s.channel /\ t.live

---------------------------------------------------------------------------
\* The consumers a channel that goes leaves alone.
Spared(s, C) == \A ch \in C : held[ch] # s.name
Orphan(s, C) == [s EXCEPT !.live = @ /\ s.channel \notin C]

LEMMA OrphanFields ==
  ASSUME NEW s \in Consumer, NEW C
  PROVE  /\ Orphan(s, C) \in Consumer
         /\ Orphan(s, C).name = s.name /\ Orphan(s, C).channel = s.channel
         /\ Orphan(s, C).forgotten = s.forgotten
         /\ Orphan(s, C).live <=> (s.live /\ s.channel \notin C)
  BY DEF Orphan, Consumer

\* The consumers after the channels C are destroyed, in both directions.
LEMMA AfterDestroy ==
  ASSUME NEW C, Destroy(C)
  PROVE  /\ \A t \in subs' : \E s \in subs : Spared(s, C) /\ t = Orphan(s, C)
         /\ \A s \in subs : Spared(s, C) => Orphan(s, C) \in subs'
<1>1. subs' = {Orphan(s, C) : s \in {x \in subs : Spared(x, C)}}
  BY DEF Destroy, Spared, Orphan
<1> QED
  BY <1>1

\* Destroying channels that are open keeps the other channels' consumers.
LEMMA DestroyKeepsOthers ==
  ASSUME SessionsInvariant, NEW C \in SUBSET open, Destroy(C), lost' = lost
  PROVE  KeepsOthers
<1> SUFFICES ASSUME NEW s \in subs, s.live, s.channel \in open', s.name \notin lost'
             PROVE  \E t \in subs' : t.name = s.name /\ t.channel = s.channel /\ t.live
  BY DEF KeepsOthers
<1>1. s \in Consumer /\ s.channel \in open /\ s.channel \notin C
  BY DEF SessionsInvariant, TypeOK, Destroy
<1>2. Spared(s, C)
  <2> SUFFICES ASSUME NEW ch \in C, held[ch] = s.name PROVE FALSE
    BY DEF Spared
  <2>1. s.name \in Name /\ s.name # Nobody
    BY <1>1, SessionsAssumption DEF Consumer
  <2>2. PICK t \in subs : Mine(t, ch)
    BY <2>1 DEF SessionsInvariant, HoldersHave
  <2>3. t = s
    BY <2>2 DEF Mine, SessionsInvariant, NamesAreUnique
  <2> QED
    BY <1>1, <2>2, <2>3 DEF Mine
<1>3. Orphan(s, C) \in subs'
  BY <1>2, AfterDestroy
<1> QED
  BY <1>1, <1>3, OrphanFields

LEMMA DestroyStep ==
  ASSUME SessionsInvariant, NEW C \in SUBSET open, Destroy(C),
         queues' = queues, lost' = lost, made' = made,
         conns' \subseteq made, open \ C \subseteq conns' \X Cid
  PROVE  SessionsInvariant' /\ KeepsOthers
<1>0. TypeOK /\ NamesAreUnique /\ HeldUnlessForgotten /\ HoldersHave
  BY DEF SessionsInvariant
<1>1. \A s \in subs : s \in Consumer
  BY <1>0 DEF TypeOK
<1>2. open' = open \ C /\ held' = [ch \in Channel |-> IF ch \in C THEN Nobody ELSE held[ch]]
  BY DEF Destroy
<1>3. TypeOK'
  <2>1. subs' \subseteq Consumer
    BY <1>1, AfterDestroy, OrphanFields
  <2>2. /\ held' \in [Channel -> Name \cup {Nobody}]
        /\ \A ch \in Channel : held'[ch] # Nobody => ch \in open'
    BY <1>0, <1>2 DEF TypeOK
  <2>3. open' \subseteq conns' \X Cid
    BY <1>2
  <2> QED
    BY <1>0, <2>1, <2>2, <2>3 DEF TypeOK
<1>4. NamesAreUnique'
  <2>1. ASSUME NEW t \in subs' PROVE t.name[1] \in queues'
    <3>1. PICK s \in subs : t = Orphan(s, C)
      BY AfterDestroy
    <3> QED
      BY <1>0, <1>1, <3>1, OrphanFields DEF NamesAreUnique
  <2>2. ASSUME NEW t \in subs', NEW u \in subs', t.name = u.name PROVE t = u
    <3>1. PICK s \in subs : t = Orphan(s, C)
      BY AfterDestroy
    <3>2. PICK r \in subs : u = Orphan(r, C)
      BY AfterDestroy
    <3>3. s.name = r.name
      BY <1>1, <2>2, <3>1, <3>2, OrphanFields
    <3> QED
      BY <1>0, <3>1, <3>2, <3>3 DEF NamesAreUnique
  <2> QED
    BY <2>1, <2>2 DEF NamesAreUnique
<1>5. HeldUnlessForgotten'
  <2> SUFFICES ASSUME NEW t \in subs', ~t.forgotten
               PROVE  t.live /\ t.channel \in open' /\ held'[t.channel] = t.name
    BY DEF HeldUnlessForgotten
  <2>1. PICK s \in subs : Spared(s, C) /\ t = Orphan(s, C)
    BY AfterDestroy
  <2>2. s \in Consumer /\ ~s.forgotten
    BY <1>1, <2>1, OrphanFields
  <2>3. s.live /\ s.channel \in open /\ held[s.channel] = s.name
    BY <1>0, <2>2 DEF HeldUnlessForgotten
  <2>4. s.channel \notin C /\ s.channel \in Channel
    BY <2>1, <2>2, <2>3 DEF Spared, Consumer
  <2> QED
    BY <1>2, <2>1, <2>2, <2>3, <2>4, OrphanFields
<1>6. KeepsOthers
  BY DestroyKeepsOthers
<1>7. HoldersHave'
  <2> SUFFICES ASSUME NEW ch \in open', held'[ch] # Nobody, held'[ch] \notin lost'
               PROVE  \E t \in subs' : Mine(t, ch)'
    BY DEF HoldersHave
  <2>1. ch \in open /\ held'[ch] = held[ch]
    BY <1>0, <1>2 DEF TypeOK, Channel
  <2>2. PICK s \in subs : Mine(s, ch)
    BY <1>0, <2>1 DEF HoldersHave
  <2>3. PICK t \in subs' : t.name = s.name /\ t.channel = s.channel /\ t.live
    BY <1>6, <2>1, <2>2 DEF KeepsOthers, Mine
  <2> QED
    BY <2>1, <2>2, <2>3 DEF Mine
<1> QED
  BY <1>3, <1>4, <1>5, <1>6, <1>7 DEF SessionsInvariant

---------------------------------------------------------------------------
\* A step that takes nobody's consumer away: it is enough to look at the
\* channels that hold something new.
LEMMA HoldersStep ==
  ASSUME SessionsInvariant, KeepsOthers, lost \subseteq lost',
         \A ch \in open' : \/ held'[ch] = Nobody
                           \/ ch \in open /\ held'[ch] = held[ch]
                           \/ \E t \in subs' : Mine(t, ch)'
  PROVE  HoldersHave'
<1> SUFFICES ASSUME NEW ch \in open', held'[ch] # Nobody, held'[ch] \notin lost',
                    ch \in open /\ held'[ch] = held[ch]
             PROVE  \E t \in subs' : Mine(t, ch)'
  BY DEF HoldersHave
<1>1. PICK s \in subs : Mine(s, ch)
  BY DEF SessionsInvariant, HoldersHave
<1>2. PICK t \in subs' : t.name = s.name /\ t.channel = s.channel /\ t.live
  BY <1>1 DEF KeepsOthers, Mine
<1> QED
  BY <1>1, <1>2 DEF Mine

\* Steps that leave channels and held alone but may open a channel, and take
\* out consumers that are lost or none.
LEMMA FewerStep ==
  ASSUME SessionsInvariant, TypeOK', held' = held, open \subseteq open',
         subs' \subseteq subs, \A s \in subs \ subs' : s.name \in lost',
         lost \subseteq lost', \A s \in subs' : s.name[1] \in queues'
  PROVE  SessionsInvariant' /\ KeepsOthers
<1>1. NamesAreUnique'
  BY DEF SessionsInvariant, NamesAreUnique
<1>2. HeldUnlessForgotten'
  BY DEF SessionsInvariant, HeldUnlessForgotten
<1>3. KeepsOthers
  BY DEF KeepsOthers
<1>4. HoldersHave'
  <2>1. \A ch \in open' : held'[ch] = Nobody \/ (ch \in open /\ held'[ch] = held[ch])
    BY DEF SessionsInvariant, TypeOK, Channel
  <2> QED
    BY <1>3, <2>1, HoldersStep
<1> QED
  BY <1>1, <1>2, <1>3, <1>4 DEF SessionsInvariant

\* The consumers after ch is told to consume n.
Forgot(s, ch) == [s EXCEPT !.forgotten = @ \/ (s.live /\ s.channel = ch)]

LEMMA ForgotFields ==
  ASSUME NEW s \in Consumer, NEW ch
  PROVE  /\ Forgot(s, ch) \in Consumer
         /\ Forgot(s, ch).name = s.name /\ Forgot(s, ch).channel = s.channel
         /\ Forgot(s, ch).live = s.live
         /\ Forgot(s, ch).forgotten <=> (s.forgotten \/ (s.live /\ s.channel = ch))
  BY DEF Forgot, Consumer

LEMMA AfterConsume ==
  ASSUME NEW ch, NEW n, Consume(ch, n)
  PROVE  /\ \A t \in subs' : (\E s \in subs : t = Forgot(s, ch))
                            \/ (n \notin Taken /\ t = New(n, ch))
         /\ \A s \in subs : Forgot(s, ch) \in subs'
         /\ n \notin Taken => New(n, ch) \in subs'
<1>1. Forgetting(ch) = {Forgot(s, ch) : s \in subs}
  BY DEF Forgetting, Forgot
<1>2. subs' = Forgetting(ch) \cup (IF n \in Taken THEN {} ELSE {New(n, ch)})
  BY DEF Consume
<1>3. CASE n \in Taken
  BY <1>1, <1>2, <1>3
<1>4. CASE n \notin Taken
  BY <1>1, <1>2, <1>4
<1> QED
  BY <1>3, <1>4

LEMMA ConsumeStep ==
  ASSUME SessionsInvariant, NEW ch \in Channel, NEW n \in Name, Consume(ch, n)
  PROVE  SessionsInvariant' /\ KeepsOthers
<1>0. TypeOK /\ NamesAreUnique /\ HeldUnlessForgotten /\ HoldersHave
  BY DEF SessionsInvariant
<1>1. \A s \in subs : s \in Consumer
  BY <1>0 DEF TypeOK
<1>2. /\ ch \in open /\ n[1] \in queues
      /\ held' = [held EXCEPT ![ch] = IF n \in Taken THEN Nobody ELSE n]
      /\ UNCHANGED <<conns, made, open, queues, lost>>
  BY DEF Consume
<1>3. /\ New(n, ch) \in Consumer /\ New(n, ch).name = n /\ New(n, ch).channel = ch
      /\ New(n, ch).live = TRUE /\ New(n, ch).forgotten = FALSE
  BY DEF New, Consumer
<1>4. held \in [Channel -> Name \cup {Nobody}]
  BY <1>0 DEF TypeOK
<1>5. TypeOK'
  <2>1. subs' \subseteq Consumer
    BY <1>1, <1>3, AfterConsume, ForgotFields
  <2>2. held' \in [Channel -> Name \cup {Nobody}]
    BY <1>2, <1>4
  <2>3. \A c \in Channel : held'[c] # Nobody => c \in open'
    BY <1>0, <1>2, <1>4 DEF TypeOK
  <2> QED
    BY <1>0, <1>2, <2>1, <2>2, <2>3 DEF TypeOK
<1>6. NamesAreUnique'
  <2>1. ASSUME NEW t \in subs' PROVE t.name[1] \in queues'
    <3>1. CASE \E s \in subs : t = Forgot(s, ch)
      BY <1>0, <1>1, <1>2, <3>1, ForgotFields DEF NamesAreUnique
    <3>2. CASE t = New(n, ch)
      BY <1>2, <1>3, <3>2
    <3> QED
      BY <3>1, <3>2, AfterConsume
  <2>2. ASSUME NEW t \in subs', NEW u \in subs', t.name = u.name PROVE t = u
    <3>1. ASSUME NEW s \in subs, NEW r \in subs, t = Forgot(s, ch), u = Forgot(r, ch)
          PROVE  t = u
      <4>1. s.name = r.name
        BY <1>1, <2>2, <3>1, ForgotFields
      <4> QED
        BY <1>0, <3>1, <4>1 DEF NamesAreUnique
    <3>2. ASSUME NEW s \in subs, n \notin Taken PROVE Forgot(s, ch).name # n
      BY <1>1, <3>2, ForgotFields DEF Taken
    <3> QED
      BY <1>3, <2>2, <3>1, <3>2, AfterConsume
  <2> QED
    BY <2>1, <2>2 DEF NamesAreUnique
<1>7. HeldUnlessForgotten'
  <2> SUFFICES ASSUME NEW t \in subs', ~t.forgotten
               PROVE  t.live /\ t.channel \in open' /\ held'[t.channel] = t.name
    BY DEF HeldUnlessForgotten
  <2>1. ASSUME NEW s \in subs, t = Forgot(s, ch)
        PROVE  t.live /\ t.channel \in open' /\ held'[t.channel] = t.name
    <3>1. ~s.forgotten /\ ~(s.live /\ s.channel = ch)
      BY <1>1, <2>1, ForgotFields
    <3>2. s.live /\ s.channel \in open /\ held[s.channel] = s.name
      BY <1>0, <3>1 DEF HeldUnlessForgotten
    <3>3. s.channel \in Channel /\ s.channel # ch
      BY <1>1, <3>1, <3>2 DEF Consumer
    <3> QED
      BY <1>1, <1>2, <1>4, <2>1, <3>2, <3>3, ForgotFields
  <2>2. CASE n \notin Taken /\ t = New(n, ch)
    BY <1>2, <1>3, <1>4, <2>2
  <2> QED
    BY <2>1, <2>2, AfterConsume
<1>8. KeepsOthers
  BY <1>1, AfterConsume, ForgotFields DEF KeepsOthers
<1>9. HoldersHave'
  <2>1. \A c \in open' \ {ch} : c \in open /\ held'[c] = held[c]
    BY <1>0, <1>2, <1>4 DEF TypeOK, Channel
  <2>2. held'[ch] = Nobody \/ \E t \in subs' : Mine(t, ch)'
    BY <1>2, <1>3, <1>4, AfterConsume DEF Mine
  <2> QED
    BY <1>2, <1>8, <2>1, <2>2, HoldersStep
<1> QED
  BY <1>5, <1>6, <1>7, <1>8, <1>9 DEF SessionsInvariant

---------------------------------------------------------------------------
LEMMA SessionsInit == Init => SessionsInvariant
  BY DEF Init, SessionsInvariant, TypeOK, NamesAreUnique, HeldUnlessForgotten, HoldersHave

LEMMA SessionsStep ==
  ASSUME SessionsInvariant, [Next]_vars
  PROVE  SessionsInvariant' /\ KeepsOthers
<1>0. TypeOK /\ NamesAreUnique
  BY DEF SessionsInvariant
<1>00. /\ conns \subseteq made /\ made \subseteq Conn /\ open \subseteq conns \X Cid
       /\ open \subseteq Channel /\ subs \subseteq Consumer
  BY <1>0 DEF TypeOK, Channel
<1>1. ASSUME NEW k \in Conn, Connect(k) PROVE SessionsInvariant' /\ KeepsOthers
  <2>1. TypeOK'
    BY <1>0, <1>1 DEF Connect, TypeOK
  <2> QED
    BY <1>0, <1>1, <2>1, FewerStep DEF Connect, NamesAreUnique
<1>2. ASSUME NEW k \in Conn, Disconnect(k) PROVE SessionsInvariant' /\ KeepsOthers
  <2> DEFINE C == {ch \in open : ch[1] = k}
  <2>1. C \in SUBSET open /\ Destroy(C)
    BY <1>2 DEF Disconnect
  <2>2. conns' = conns \ {k} /\ UNCHANGED <<made, queues, lost>>
    BY <1>2 DEF Disconnect
  <2>3. open \ C \subseteq conns' \X Cid
    BY <1>00, <2>2
  <2> HIDE DEF C
  <2> QED
    BY <1>00, <2>1, <2>2, <2>3, DestroyStep
<1>3. ASSUME NEW k \in Conn, NEW c \in Cid, OpenChannel(k, c)
      PROVE  SessionsInvariant' /\ KeepsOthers
  <2>1. TypeOK'
    BY <1>0, <1>3 DEF OpenChannel, TypeOK
  <2> QED
    BY <1>0, <1>3, <2>1, FewerStep DEF OpenChannel, NamesAreUnique
<1>4. ASSUME NEW ch \in Channel, CloseChannel(ch) PROVE SessionsInvariant' /\ KeepsOthers
  <2>1. {ch} \in SUBSET open /\ Destroy({ch}) /\ UNCHANGED <<conns, made, queues, lost>>
    BY <1>4 DEF CloseChannel
  <2> QED
    BY <1>00, <2>1, DestroyStep
<1>5. ASSUME NEW ch \in Channel, NEW q \in Queue, DeclareQueue(ch, q)
      PROVE  SessionsInvariant' /\ KeepsOthers
  <2>1. TypeOK'
    BY <1>0, <1>5 DEF DeclareQueue, TypeOK
  <2> QED
    BY <1>0, <1>5, <2>1, FewerStep DEF DeclareQueue, NamesAreUnique
<1>6. ASSUME NEW ch \in Channel, NEW q \in Queue, DeleteQueue(ch, q)
      PROVE  SessionsInvariant' /\ KeepsOthers
  <2>0. Taken \subseteq Name
    BY <1>00 DEF Taken, Consumer
  <2>1. TypeOK'
    BY <1>0, <1>6, <2>0 DEF DeleteQueue, TypeOK
  <2>2. \A s \in subs \ subs' : s.name \in lost'
    BY <1>6 DEF DeleteQueue, Taken
  <2>3. \A s \in subs' : s.name[1] \in queues'
    BY <1>0, <1>6 DEF DeleteQueue, NamesAreUnique
  <2> QED
    BY <1>6, <2>1, <2>2, <2>3, FewerStep DEF DeleteQueue
<1>7. ASSUME NEW ch \in Channel, NEW n \in Name, Consume(ch, n)
      PROVE  SessionsInvariant' /\ KeepsOthers
  BY <1>7, ConsumeStep
<1>8. ASSUME NEW ch \in Channel, NEW n \in Name, Cancel(ch, n)
      PROVE  SessionsInvariant' /\ KeepsOthers
  <2>1. TypeOK'
    BY <1>0, <1>8 DEF Cancel, TypeOK
  <2>2. \A s \in subs \ subs' : s.name \in lost'
    BY <1>8 DEF Cancel, Taken
  <2>3. \A s \in subs' : s.name[1] \in queues'
    BY <1>0, <1>8 DEF Cancel, NamesAreUnique
  <2> QED
    BY <1>8, <2>1, <2>2, <2>3, FewerStep DEF Cancel
<1>9. CASE UNCHANGED vars
  <2>1. TypeOK'
    BY <1>0, <1>9 DEF vars, TypeOK
  <2> QED
    BY <1>0, <1>9, <2>1, FewerStep DEF vars, NamesAreUnique
<1> QED
  BY <1>1, <1>2, <1>3, <1>4, <1>5, <1>6, <1>7, <1>8, <1>9 DEF Next

(* The types, the links of channels and consumers and the uniqueness of    *)
(* names are inductive together.                                           *)
THEOREM SessionsCorrect == Spec => []SessionsInvariant
<1>1. SessionsInvariant /\ [Next]_vars => SessionsInvariant'
  BY SessionsStep
<1> QED
  BY SessionsInit, <1>1, PTL DEF Spec

(* Open channels are those of connections that are up, and only they hold  *)
(* consumers, over all requests and disconnects.                           *)
THEOREM SessionTypes == Spec => []TypeOK
<1>1. SessionsInvariant => TypeOK
  BY DEF SessionsInvariant
<1> QED
  BY SessionsCorrect, <1>1, PTL

(* A queue and a tag mean one consumer, and that of a declared queue.      *)
THEOREM OneConsumerPerName == Spec => []NamesAreUnique
<1>1. SessionsInvariant => NamesAreUnique
  BY DEF SessionsInvariant
<1> QED
  BY SessionsCorrect, <1>1, PTL

(* Only a channel that was told to consume twice leaves a consumer behind. *)
THEOREM NoneLeftBehind == Spec => []ChannelsTakeTheirs
<1>1. SessionsInvariant => ChannelsTakeTheirs
  BY DEF SessionsInvariant, HeldUnlessForgotten, ChannelsTakeTheirs
<1> QED
  BY SessionsCorrect, <1>1, PTL

(* No channel or connection that ends takes the consumer of another one,   *)
(* unless its own was lost to a cancel or with the queue.                  *)
THEOREM NoOthersConsumerTaken == Spec => OthersKeepTheirs
<1>1. SessionsInvariant /\ [Next]_vars => [KeepsOthers]_vars
  BY SessionsStep
<1>2. [KeepsOthers]_vars => [\A s \in subs : s.live /\ s.channel \in open' /\ s.name \notin lost' =>
         \E t \in subs' : t.name = s.name /\ t.channel = s.channel /\ t.live]_vars
  BY DEF KeepsOthers
<1> QED
  BY SessionsCorrect, <1>1, <1>2, PTL DEF Spec, OthersKeepTheirs

===========================================================================
