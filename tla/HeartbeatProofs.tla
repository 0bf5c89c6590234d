--------------------------- MODULE HeartbeatProofs ---------------------------
(***************************************************************************)
(* The timeout of the broker (connection.cpp, broker_server.cpp) against   *)
(* the heartbeats of its clients (client.cpp), for any number of           *)
(* connections and any periods, timeout and delays with Beat + MaxDelay    *)
(* no longer than Timeout.  Two measures bound the silence of a            *)
(* connection: the time to the next check, and, while the client runs, the *)
(* time to its next heartbeat or the age of the oldest request underway.   *)
(***************************************************************************)
EXTENDS Heartbeat, SequenceTheorems, TLAPS

\* The next check comes before the silence of a connection gets too long.
Noticed == \A k \in Conn : link[k] = "connected" => silence[k] + check <= Timeout + Check

\* A client that runs all the time and knows the protocol is heard of in time.
Punctual ==
  \A k \in Conn : steady[k] =>
    /\ client[k] \in {"off", "up"} /\ link[k] # "disconnecting"
    /\ \A i \in DOMAIN line[k] : line[k][i].known
    /\ link[k] = "connected" =>
         /\ line[k] = <<>> => silence[k] + beat[k] <= Beat
         /\ line[k] # <<>> => silence[k] <= Beat + Head(line[k]).age

HeartbeatInvariant == TypeOK /\ Noticed /\ Punctual

---------------------------------------------------------------------------
\* A request more on its way.
LEMMA LongerLine ==
  ASSUME NEW s \in Seq(Requests), NEW r \in Requests
  PROVE  /\ Append(s, r) \in Seq(Requests) /\ Append(s, r) # <<>>
         /\ Head(Append(s, r)) = IF s = <<>> THEN r ELSE Head(s)
         /\ \A i \in DOMAIN Append(s, r) : Append(s, r)[i] = r \/ (i \in DOMAIN s /\ Append(s, r)[i] = s[i])
<1>1. Append(s, r) \in Seq(Requests) /\ Len(Append(s, r)) = Len(s) + 1 /\ Len(s) \in Nat
  BY AppendProperties, LenProperties
<1>2. Append(s, r) # <<>>
  BY <1>1, EmptySeq
<1>3. \A i \in 1..Len(s) : Append(s, r)[i] = s[i]
  BY AppendProperties
<1>4. Append(s, r)[Len(s) + 1] = r
  BY AppendProperties
<1>5. DOMAIN Append(s, r) = 1..(Len(s) + 1) /\ DOMAIN s = 1..Len(s)
  BY <1>1, LenProperties
<1>6. \A i \in DOMAIN Append(s, r) : Append(s, r)[i] = r \/ (i \in DOMAIN s /\ Append(s, r)[i] = s[i])
  BY <1>1, <1>3, <1>4, <1>5
<1>7. Head(Append(s, r)) = IF s = <<>> THEN r ELSE Head(s)
  OBVIOUS
<1> QED
  BY <1>1, <1>2, <1>6, <1>7

\* The oldest request arrives.
LEMMA ShorterLine ==
  ASSUME NEW s \in Seq(Requests), s # <<>>
  PROVE  /\ Head(s) \in Requests /\ Head(s) = s[1] /\ 1 \in DOMAIN s
         /\ Tail(s) \in Seq(Requests)
         /\ \A i \in DOMAIN Tail(s) : i + 1 \in DOMAIN s /\ Tail(s)[i] = s[i + 1]
         /\ Tail(s) # <<>> => Head(Tail(s)) \in Requests
  OBVIOUS

Aged(s) == [i \in DOMAIN s |-> [s[i] EXCEPT !.age = @ + 1]]

\* The requests on their way get older.
LEMMA OlderLine ==
  ASSUME NEW s \in Seq(Requests), \A i \in DOMAIN s : s[i].age < MaxDelay
  PROVE  /\ Aged(s) \in Seq(Requests)
         /\ Aged(s) = <<>> <=> s = <<>>
         /\ s # <<>> => Head(Aged(s)).age = Head(s).age + 1
         /\ \A i \in DOMAIN Aged(s) : i \in DOMAIN s /\ Aged(s)[i].known = s[i].known
<1>1. ASSUME NEW i \in DOMAIN s
      PROVE  s[i] \in Requests /\ s[i].age \in 0..MaxDelay
  <2>1. s[i] \in Requests
    BY LenProperties, ElementOfSeq
  <2> QED
    BY <2>1 DEF Requests
<1>2. ASSUME NEW i \in DOMAIN s
      PROVE  /\ [s[i] EXCEPT !.age = @ + 1] \in Requests
             /\ [s[i] EXCEPT !.age = @ + 1].age = s[i].age + 1
             /\ [s[i] EXCEPT !.age = @ + 1].known = s[i].known
  BY <1>1, HeartbeatAssumption DEF Requests
<1>3. Aged(s) \in Seq(Requests) /\ Len(Aged(s)) = Len(s) /\ DOMAIN Aged(s) = DOMAIN s
  BY <1>2 DEF Aged
<1>4. \A i \in DOMAIN s : Aged(s)[i].age = s[i].age + 1 /\ Aged(s)[i].known = s[i].known
  BY <1>2 DEF Aged
<1>5. Aged(s) = <<>> <=> s = <<>>
  BY <1>3
<1>6. s # <<>> => Head(Aged(s)).age = Head(s).age + 1
  BY <1>3, <1>4, <1>5
<1> QED
  BY <1>3, <1>4, <1>5, <1>6

---------------------------------------------------------------------------
LEMMA HeartbeatInit == Init => HeartbeatInvariant
<1> SUFFICES ASSUME Init PROVE HeartbeatInvariant
  OBVIOUS
<1>1. TypeOK
  <2>1. line \in [Conn -> Seq(Requests)]
    BY EmptySeq DEF Init
  <2>2. beat \in [Conn -> 0..Beat] /\ silence \in [Conn -> 0..Forgotten] /\ check \in 0..Check
    BY HeartbeatAssumption DEF Init, Forgotten
  <2>3. /\ client \in [Conn -> {"off", "up", "stopped", "closed", "cut"}]
        /\ link \in [Conn -> {"none", "connected", "disconnecting", "gone"}]
        /\ steady \in [Conn -> BOOLEAN]
        /\ \A k \in Conn : client[k] = "off" /\ link[k] = "none" /\ line[k] = <<>>
    BY DEF Init
  <2> QED
    BY <2>1, <2>2, <2>3 DEF TypeOK
<1>2. Noticed
  BY DEF Init, Noticed
<1>3. Punctual
  BY DEF Init, Punctual
<1> QED
  BY <1>1, <1>2, <1>3 DEF HeartbeatInvariant

---------------------------------------------------------------------------
LEMMA TypeStep == TypeOK /\ [Next]_vars => TypeOK'
<1> SUFFICES ASSUME TypeOK, [Next]_vars PROVE TypeOK'
  OBVIOUS
<1>1. ASSUME NEW k \in Conn, Connect(k) PROVE TypeOK'
  BY <1>1, HeartbeatAssumption DEF Connect, TypeOK, Managed, Forgotten
<1>2. ASSUME NEW k \in Conn, NEW known \in BOOLEAN, Send(k, known),
             UNCHANGED <<client, link, silence, check>>
      PROVE  /\ line' \in [Conn -> Seq(Requests)]
             /\ \A j \in Conn : ~Managed(j)' => line'[j] = <<>>
  <2>1. [known |-> known, age |-> 0] \in Requests
    BY HeartbeatAssumption DEF Requests
  <2>2. line[k] \in Seq(Requests)
    BY DEF TypeOK
  <2>3. Append(line[k], [known |-> known, age |-> 0]) \in Seq(Requests)
    BY <2>1, <2>2, LongerLine
  <2>4. Managed(k)
    BY <1>2 DEF Send, TypeOK, Managed
  <2> QED
    BY <1>2, <2>3, <2>4 DEF Send, TypeOK, Managed
<1>3. ASSUME NEW k \in Conn, Beats(k) PROVE TypeOK'
  <2>1. /\ line' \in [Conn -> Seq(Requests)]
        /\ \A j \in Conn : ~Managed(j)' => line'[j] = <<>>
    BY <1>2, <1>3 DEF Beats
  <2>2. beat' \in [Conn -> 0..Beat]
    BY <1>3, HeartbeatAssumption DEF Beats, TypeOK
  <2> QED
    BY <1>3, <2>1, <2>2 DEF Beats, TypeOK
<1>4. ASSUME NEW k \in Conn, NEW known \in BOOLEAN, Command(k, known) PROVE TypeOK'
  <2>1. /\ line' \in [Conn -> Seq(Requests)]
        /\ \A j \in Conn : ~Managed(j)' => line'[j] = <<>>
    BY <1>2, <1>4 DEF Command
  <2> QED
    BY <1>4, <2>1 DEF Command, TypeOK, Managed
<1>5. ASSUME NEW k \in Conn, Stop(k) \/ Resume(k) PROVE TypeOK'
  BY <1>5 DEF Stop, Resume, TypeOK, Managed
<1>6. ASSUME NEW k \in Conn, NEW end \in {"closed", "cut"}, Leave(k, end) PROVE TypeOK'
  <2>1. line[k] \in Seq(Requests)
    BY DEF TypeOK
  <2>2. \A n \in 0..Len(line[k]) : SubSeq(line[k], 1, n) \in Seq(Requests)
    BY <2>1
  <2>3. line' \in [Conn -> Seq(Requests)]
    BY <1>6, <2>2 DEF Leave, TypeOK
  <2>4. link[k] \notin {"none", "gone"}
    BY <1>6 DEF Leave, TypeOK
  <2>5. \A j \in Conn : ~Managed(j)' => line'[j] = <<>>
    BY <1>6, <2>4 DEF Leave, TypeOK, Managed
  <2>6. beat' \in [Conn -> 0..Beat]
    BY <1>6, HeartbeatAssumption DEF Leave, TypeOK
  <2>7. /\ client' \in [Conn -> {"off", "up", "stopped", "closed", "cut"}]
        /\ \A j \in Conn : link[j] = "none" <=> client'[j] = "off"
        /\ \A j \in Conn : link[j] = "gone" => client'[j] \in {"closed", "cut"}
    BY <1>6, <2>4 DEF Leave, TypeOK
  <2>8. steady' \in [Conn -> BOOLEAN]
    BY <1>6 DEF Leave, TypeOK
  <2> QED
    BY <1>6, <2>3, <2>5, <2>6, <2>7, <2>8 DEF Leave, TypeOK
<1>7. ASSUME NEW k \in Conn, NEW end \in {"closed", "cut"}, Close(k, end) PROVE TypeOK'
  BY <1>7, HeartbeatAssumption DEF Close, TypeOK, Managed, Forgotten
<1>8. ASSUME NEW k \in Conn, Arrives(k)
      PROVE  line' \in [Conn -> Seq(Requests)] /\ \A j \in Conn : ~Managed(j) => line'[j] = <<>>
  <2>1. line[k] \in Seq(Requests) /\ Managed(k) /\ line[k] # <<>>
    BY <1>8 DEF Arrives, TypeOK
  <2>2. Tail(line[k]) \in Seq(Requests)
    BY <2>1, ShorterLine
  <2> QED
    BY <1>8, <2>1, <2>2 DEF Arrives, TypeOK
<1>9. ASSUME NEW k \in Conn, Refresh(k) PROVE TypeOK'
  BY <1>8, <1>9, HeartbeatAssumption DEF Refresh, TypeOK, Managed, Forgotten
<1>10. ASSUME NEW k \in Conn, OnUnknownMessage(k) PROVE TypeOK'
  <2>1. Managed(k)
    BY <1>10 DEF OnUnknownMessage, Arrives
  <2> QED
    BY <1>8, <1>10, <2>1 DEF OnUnknownMessage, TypeOK, Managed
<1>11. CASE CheckTimeout
  BY <1>11, HeartbeatAssumption DEF CheckTimeout, Expired, TypeOK, Managed
<1>12. CASE Tick
  <2>1. \A k \in Conn : line'[k] = Aged(line[k]) /\ line[k] \in Seq(Requests)
    BY <1>12 DEF Tick, Aged, TypeOK
  <2>2. \A k \in Conn : line'[k] \in Seq(Requests) /\ (line'[k] = <<>> <=> line[k] = <<>>)
    BY <1>12, <2>1, OlderLine DEF Tick
  <2>3. line' \in [Conn -> Seq(Requests)]
    BY <1>12, <2>2 DEF Tick
  <2>4. beat' \in [Conn -> 0..Beat]
    BY <1>12, HeartbeatAssumption DEF Tick, TypeOK, Less
  <2>5. silence' \in [Conn -> 0..Forgotten]
    <3>1. Forgotten \in Nat
      BY HeartbeatAssumption DEF Forgotten
    <3>2. \A n \in 0..Forgotten : More(n) \in 0..Forgotten
      BY <3>1 DEF More
    <3>3. \A k \in Conn : silence[k] \in 0..Forgotten
      BY DEF TypeOK
    <3> QED
      BY <1>12, <3>2, <3>3 DEF Tick
  <2>6. check' \in 0..Check
    BY <1>12, HeartbeatAssumption DEF Tick, TypeOK
  <2> QED
    BY <1>12, <2>2, <2>3, <2>4, <2>5, <2>6 DEF Tick, TypeOK, Managed
<1>13. CASE UNCHANGED vars
  BY <1>13 DEF vars, TypeOK, Managed
<1> QED
  BY <1>1, <1>3, <1>4, <1>5, <1>6, <1>7, <1>9, <1>10, <1>11, <1>12, <1>13 DEF Next

---------------------------------------------------------------------------
LEMMA MoreIsAtMostOneMore ==
  ASSUME NEW n \in 0..Forgotten
  PROVE  More(n) \in Nat /\ More(n) <= n + 1
  BY HeartbeatAssumption DEF More, Forgotten

LEMMA NoticedStep == TypeOK /\ Noticed /\ [Next]_vars => Noticed'
<1> SUFFICES ASSUME TypeOK, Noticed, [Next]_vars,
                    NEW k \in Conn, link'[k] = "connected"
             PROVE  silence'[k] + check' <= Timeout + Check
  BY DEF Noticed
<1>0. /\ Timeout \in Nat /\ Check \in Nat /\ check \in 0..Check /\ silence[k] \in 0..Forgotten
      /\ silence[k] \in Nat /\ link \in [Conn -> {"none", "connected", "disconnecting", "gone"}]
      /\ silence \in [Conn -> 0..Forgotten]
  BY HeartbeatAssumption DEF TypeOK, Forgotten
<1>00. link[k] = "connected" => silence[k] + check <= Timeout + Check
  BY DEF Noticed
<1>1. ASSUME NEW j \in Conn, Connect(j) PROVE silence'[k] + check' <= Timeout + Check
  BY <1>0, <1>00, <1>1 DEF Connect
<1>2. ASSUME NEW j \in Conn, Refresh(j) PROVE silence'[k] + check' <= Timeout + Check
  BY <1>0, <1>00, <1>2 DEF Refresh
<1>3. ASSUME NEW j \in Conn, NEW end, Close(j, end) PROVE silence'[k] + check' <= Timeout + Check
  BY <1>0, <1>00, <1>3 DEF Close
<1>4. CASE CheckTimeout
  <2>1. link[k] = "connected" /\ ~Expired(k)
    BY <1>0, <1>4 DEF CheckTimeout
  <2> QED
    BY <1>0, <1>4, <2>1 DEF CheckTimeout, Expired, Managed
<1>5. CASE Tick
  <2>1. silence'[k] = More(silence[k]) /\ check' = check - 1 /\ check > 0
    BY <1>0, <1>5 DEF Tick, Managed
  <2> QED
    BY <1>0, <1>00, <1>5, <2>1, MoreIsAtMostOneMore DEF Tick
<1>6. ASSUME NEW j \in Conn, OnUnknownMessage(j) PROVE silence'[k] + check' <= Timeout + Check
  BY <1>0, <1>00, <1>6 DEF OnUnknownMessage
<1>7. CASE UNCHANGED <<link, silence, check>>
  BY <1>00, <1>7
<1>8. ASSUME NEW j \in Conn,
             \/ Beats(j) \/ Stop(j) \/ Resume(j) \/ \E known \in BOOLEAN : Command(j, known)
             \/ \E end \in {"closed", "cut"} : Leave(j, end)
      PROVE  UNCHANGED <<link, silence, check>>
  BY <1>8 DEF Beats, Stop, Resume, Command, Leave
<1> QED
  BY <1>1, <1>2, <1>3, <1>4, <1>5, <1>6, <1>7, <1>8 DEF Next, vars

---------------------------------------------------------------------------
\* Punctual for one connection.
PunctualAt(k) ==
  steady[k] =>
    /\ client[k] \in {"off", "up"} /\ link[k] # "disconnecting"
    /\ \A i \in DOMAIN line[k] : line[k][i].known
    /\ link[k] = "connected" =>
         /\ line[k] = <<>> => silence[k] + beat[k] <= Beat
         /\ line[k] # <<>> => silence[k] <= Beat + Head(line[k]).age

\* No action of another connection disturbs it.
LEMMA OthersAlone ==
  ASSUME NEW k \in Conn, PunctualAt(k), steady'[k] = steady[k], client'[k] = client[k],
         link'[k] = link[k], line'[k] = line[k], silence'[k] = silence[k], beat'[k] = beat[k]
  PROVE  PunctualAt(k)'
  BY DEF PunctualAt

\* A request sent by a client that is punctual.
LEMMA SendStep ==
  ASSUME TypeOK, NEW k \in Conn, PunctualAt(k), NEW known \in BOOLEAN, Send(k, known),
         UNCHANGED <<client, link, silence>>, steady'[k] => steady[k] /\ known
  PROVE  PunctualAt(k)'
<1> SUFFICES ASSUME steady'[k] PROVE PunctualAt(k)'
  BY DEF PunctualAt
<1> DEFINE r == [known |-> known, age |-> 0]
<1>1. r \in Requests /\ r.known = known /\ r.age = 0
  BY HeartbeatAssumption DEF Requests
<1>2. line[k] \in Seq(Requests) /\ line'[k] = Append(line[k], r)
  BY DEF Send, TypeOK
<1> HIDE DEF r
<1>3. /\ line'[k] # <<>>
      /\ Head(line'[k]) = IF line[k] = <<>> THEN r ELSE Head(line[k])
      /\ \A i \in DOMAIN line'[k] :
           line'[k][i] = r \/ (i \in DOMAIN line[k] /\ line'[k][i] = line[k][i])
  BY <1>1, <1>2, LongerLine
<1>4. \A i \in DOMAIN line'[k] : line'[k][i].known
  BY <1>1, <1>3 DEF PunctualAt
<1>5. silence[k] \in Nat /\ beat[k] \in Nat /\ Beat \in Nat
  BY HeartbeatAssumption DEF TypeOK, Forgotten
<1>6. link[k] = "connected" => silence[k] <= Beat + Head(line'[k]).age
  BY <1>1, <1>3, <1>5 DEF PunctualAt
<1> QED
  BY <1>3, <1>4, <1>6 DEF PunctualAt

LEMMA ArriveStep ==
  ASSUME TypeOK, NEW k \in Conn, PunctualAt(k), Refresh(k)
  PROVE  PunctualAt(k)'
<1> SUFFICES ASSUME steady[k] PROVE PunctualAt(k)'
  BY DEF PunctualAt, Refresh
<1>1. line[k] \in Seq(Requests) /\ line[k] # <<>> /\ line'[k] = Tail(line[k]) /\ silence'[k] = 0
  BY DEF Refresh, Arrives, TypeOK
<1>2. \A i \in DOMAIN line'[k] : line'[k][i].known
  BY <1>1, ShorterLine DEF PunctualAt
<1>3. line'[k] # <<>> => Head(line'[k]).age \in Nat
  <2>1. line'[k] # <<>> => Head(line'[k]) \in Requests
    BY <1>1, ShorterLine
  <2> QED
    BY <2>1, HeartbeatAssumption DEF Requests
<1>4. beat[k] \in 0..Beat /\ Beat \in Nat
  BY HeartbeatAssumption DEF TypeOK
<1> QED
  BY <1>1, <1>2, <1>3, <1>4 DEF Refresh, PunctualAt

LEMMA TickStep ==
  ASSUME TypeOK, NEW k \in Conn, PunctualAt(k), Tick
  PROVE  PunctualAt(k)'
<1> SUFFICES ASSUME steady[k] PROVE PunctualAt(k)'
  BY DEF PunctualAt, Tick
<1>1. line[k] \in Seq(Requests) /\ line'[k] = Aged(line[k])
  BY DEF Tick, Aged, TypeOK
<1>2. \A i \in DOMAIN line[k] : line[k][i].age < MaxDelay
  BY DEF Tick
<1>3. /\ line'[k] = <<>> <=> line[k] = <<>>
      /\ line[k] # <<>> => Head(line'[k]).age = Head(line[k]).age + 1
      /\ \A i \in DOMAIN line'[k] : i \in DOMAIN line[k] /\ line'[k][i].known = line[k][i].known
  BY <1>1, <1>2, OlderLine
<1>4. silence[k] \in 0..Forgotten /\ silence[k] \in Nat /\ beat[k] \in 0..Beat /\ Beat \in Nat
  BY HeartbeatAssumption DEF TypeOK, Forgotten
<1>5. line[k] # <<>> => Head(line[k]).age \in Nat
  <2>1. line[k] # <<>> => Head(line[k]) \in Requests
    BY <1>1, ShorterLine
  <2> QED
    BY <2>1, HeartbeatAssumption DEF Requests
<1>6. client' = client /\ link' = link
  BY DEF Tick
<1>7. \A i \in DOMAIN line'[k] : line'[k][i].known
  BY <1>3 DEF PunctualAt
<1>8. ASSUME link[k] = "connected"
      PROVE  /\ line'[k] = <<>> => silence'[k] + beat'[k] <= Beat
             /\ line'[k] # <<>> => silence'[k] <= Beat + Head(line'[k]).age
  <2>1. client[k] = "up"
    BY <1>8 DEF PunctualAt, TypeOK
  <2>2. beat[k] > 0 /\ beat'[k] = beat[k] - 1
    BY <1>4, <2>1 DEF Tick, Less
  <2>3. silence'[k] \in Nat /\ silence'[k] <= silence[k] + 1
    BY <1>4, <1>8, MoreIsAtMostOneMore DEF Tick, Managed
  <2>4. /\ line[k] = <<>> => silence[k] + beat[k] <= Beat
        /\ line[k] # <<>> => silence[k] <= Beat + Head(line[k]).age
    BY <1>8 DEF PunctualAt
  <2>5. CASE line[k] = <<>>
    BY <1>3, <1>4, <2>2, <2>3, <2>4, <2>5
  <2>6. CASE line[k] # <<>>
    BY <1>3, <1>4, <1>5, <2>3, <2>4, <2>6
  <2> QED
    BY <2>5, <2>6
<1> QED
  BY <1>6, <1>7, <1>8 DEF PunctualAt

\* One step, for one connection.
LEMMA PunctualStepAt ==
  ASSUME TypeOK, NEW k \in Conn, PunctualAt(k), [Next]_vars
  PROVE  PunctualAt(k)'
<1>0. /\ client \in [Conn -> {"off", "up", "stopped", "closed", "cut"}]
      /\ link \in [Conn -> {"none", "connected", "disconnecting", "gone"}]
      /\ beat \in [Conn -> 0..Beat] /\ silence \in [Conn -> 0..Forgotten]
      /\ line \in [Conn -> Seq(Requests)] /\ steady \in [Conn -> BOOLEAN]
  BY DEF TypeOK
<1>1. ASSUME NEW j \in Conn, Connect(j) PROVE PunctualAt(k)'
  <2>1. CASE j = k
    <3>1. line'[k] = <<>> /\ silence'[k] = 0 /\ beat'[k] \in 1..Beat
      BY <1>0, <1>1, <2>1 DEF Connect, TypeOK, Managed
    <3>2. client'[k] = "up" /\ link'[k] = "connected"
      BY <1>0, <1>1, <2>1 DEF Connect
    <3>3. DOMAIN line'[k] = {}
      BY <3>1
    <3> QED
      BY <3>1, <3>2, <3>3, HeartbeatAssumption DEF PunctualAt
  <2>2. CASE j # k
    BY <1>0, <1>1, <2>2, OthersAlone DEF Connect
  <2> QED
    BY <2>1, <2>2
<1>2. ASSUME NEW j \in Conn, Beats(j) PROVE PunctualAt(k)'
  <2>1. CASE j = k
    <3>1. UNCHANGED <<client, link, silence, steady>> /\ Send(k, TRUE)
      BY <1>2, <2>1 DEF Beats
    <3> QED
      BY <3>1, SendStep
  <2>2. CASE j # k
    BY <1>0, <1>2, <2>2, OthersAlone DEF Beats, Send
  <2> QED
    BY <2>1, <2>2
<1>3. ASSUME NEW j \in Conn, NEW known \in BOOLEAN, Command(j, known) PROVE PunctualAt(k)'
  <2>1. CASE j = k
    <3>1. UNCHANGED <<client, link, silence>> /\ Send(k, known) /\ (steady'[k] => steady[k] /\ known)
      BY <1>0, <1>3, <2>1 DEF Command
    <3> QED
      BY <3>1, SendStep
  <2>2. CASE j # k
    BY <1>0, <1>3, <2>2, OthersAlone DEF Command, Send
  <2> QED
    BY <2>1, <2>2
<1>4. ASSUME NEW j \in Conn, Stop(j) \/ \E end \in {"closed", "cut"} : Leave(j, end)
      PROVE  PunctualAt(k)'
  <2>1. CASE j = k
    BY <1>0, <1>4, <2>1 DEF Stop, Leave, PunctualAt
  <2>2. CASE j # k
    BY <1>0, <1>4, <2>2, OthersAlone DEF Stop, Leave
  <2> QED
    BY <2>1, <2>2
<1>5. ASSUME NEW j \in Conn, Resume(j) PROVE PunctualAt(k)'
  <2>1. CASE j = k
    BY <1>0, <1>5, <2>1 DEF Resume, PunctualAt
  <2>2. CASE j # k
    BY <1>0, <1>5, <2>2, OthersAlone DEF Resume
  <2> QED
    BY <2>1, <2>2
<1>6. ASSUME NEW j \in Conn, Refresh(j) PROVE PunctualAt(k)'
  <2>1. CASE j = k
    BY <1>6, <2>1, ArriveStep
  <2>2. CASE j # k
    BY <1>0, <1>6, <2>2, OthersAlone DEF Refresh, Arrives
  <2> QED
    BY <2>1, <2>2
<1>7. ASSUME NEW j \in Conn, OnUnknownMessage(j) PROVE PunctualAt(k)'
  <2>1. CASE j = k
    <3>1. line[k] \in Seq(Requests) /\ line[k] # <<>> /\ ~Head(line[k]).known
      BY <1>0, <1>7, <2>1 DEF OnUnknownMessage, Arrives
    <3>2. 1 \in DOMAIN line[k] /\ ~line[k][1].known
      BY <3>1, ShorterLine
    <3>3. ~steady[k]
      BY <3>2 DEF PunctualAt
    <3> QED
      BY <1>7, <3>3 DEF OnUnknownMessage, PunctualAt
  <2>2. CASE j # k
    BY <1>0, <1>7, <2>2, OthersAlone DEF OnUnknownMessage, Arrives
  <2> QED
    BY <2>1, <2>2
<1>8. ASSUME NEW j \in Conn, NEW end \in {"closed", "cut"}, Close(j, end) PROVE PunctualAt(k)'
  <2>1. CASE j = k
    BY <1>0, <1>8, <2>1 DEF Close, PunctualAt
  <2>2. CASE j # k
    BY <1>0, <1>8, <2>2, OthersAlone DEF Close
  <2> QED
    BY <2>1, <2>2
<1>9. CASE CheckTimeout
  <2>1. ~steady[k] \/ ~Expired(k)
    <3> SUFFICES ASSUME steady[k], Expired(k) PROVE FALSE
      OBVIOUS
    <3>1. link[k] = "connected" /\ silence[k] > Timeout
      BY DEF Expired, Managed, PunctualAt
    <3>2. silence[k] \in Nat /\ beat[k] \in Nat /\ Beat \in Nat /\ MaxDelay \in Nat /\ Timeout \in Nat
      BY <1>0, HeartbeatAssumption DEF Forgotten
    <3>3. CASE line[k] = <<>>
      BY <3>1, <3>2, <3>3, InTimeAssumption DEF PunctualAt
    <3>4. CASE line[k] # <<>>
      <4>1. Head(line[k]) \in Requests
        BY <1>0, <3>4, ShorterLine
      <4>2. Head(line[k]).age \in 0..MaxDelay
        BY <4>1 DEF Requests
      <4> QED
        BY <3>1, <3>2, <3>4, <4>2, InTimeAssumption DEF PunctualAt
    <3> QED
      BY <3>3, <3>4
  <2> QED
    BY <1>9, <2>1, OthersAlone DEF CheckTimeout, PunctualAt
<1>10. CASE Tick
  BY <1>10, TickStep
<1>11. CASE UNCHANGED vars
  BY <1>11, OthersAlone DEF vars
<1> QED
  BY <1>1, <1>2, <1>3, <1>4, <1>5, <1>6, <1>7, <1>8, <1>9, <1>10, <1>11 DEF Next

---------------------------------------------------------------------------
(* The two measures and the types are inductive together. *)
THEOREM HeartbeatCorrect == Spec => []HeartbeatInvariant
<1>1. HeartbeatInvariant /\ [Next]_vars => HeartbeatInvariant'
  <2> SUFFICES ASSUME HeartbeatInvariant, [Next]_vars PROVE HeartbeatInvariant'
    OBVIOUS
  <2>1. TypeOK /\ Noticed /\ \A k \in Conn : PunctualAt(k)
    BY DEF HeartbeatInvariant, Punctual, PunctualAt
  <2>2. TypeOK' /\ Noticed'
    BY <2>1, TypeStep, NoticedStep
  <2>3. \A k \in Conn : PunctualAt(k)'
    BY <2>1, PunctualStepAt
  <2>4. Punctual'
    BY <2>3 DEF Punctual, PunctualAt
  <2> QED
    BY <2>2, <2>4 DEF HeartbeatInvariant
<1> QED
  BY HeartbeatInit, <1>1, PTL DEF Spec

(* The state is well formed: no connection is forgotten before its end.    *)
THEOREM HeartbeatTypes == Spec => []TypeOK
<1>1. HeartbeatInvariant => TypeOK
  BY DEF HeartbeatInvariant
<1> QED
  BY HeartbeatCorrect, <1>1, PTL

(* A client that keeps running is never shut down.                         *)
THEOREM RunningAreKept == Spec => []OnlyTheSilentAreShut
<1>1. HeartbeatInvariant => OnlyTheSilentAreShut
  BY DEF HeartbeatInvariant, Punctual, OnlyTheSilentAreShut
<1> QED
  BY HeartbeatCorrect, <1>1, PTL

(* check_timeout misses no connection, and none for long.                  *)
THEOREM SilentAreFound == Spec => []SilenceIsNoticed
<1>1. HeartbeatInvariant => SilenceIsNoticed
  <2> SUFFICES ASSUME HeartbeatInvariant, NEW k \in Conn, link[k] = "connected"
               PROVE  silence[k] <= Timeout + Check
    BY DEF SilenceIsNoticed
  <2>1. silence[k] + check <= Timeout + Check /\ check \in 0..Check /\ silence[k] \in 0..Forgotten
    BY DEF HeartbeatInvariant, Noticed, TypeOK
  <2> QED
    BY <2>1, HeartbeatAssumption DEF Forgotten
<1> QED
  BY HeartbeatCorrect, <1>1, PTL

===========================================================================
