----------------------------- MODULE Heartbeat -----------------------------
(***************************************************************************)
(* When the broker gives up a client: the client program with its          *)
(* heartbeat thread (src/src/client/client.cpp), its TCP connection, and   *)
(* the timeout the broker checks (broker_server.cpp, connection.cpp).      *)
(* Requests arrive in order, each some time after it was sent; a client    *)
(* may be stopped, exit, or vanish with its host or network.               *)
(*                                                                         *)
(* Time is discrete: Tick moves every clock at once, and does not pass     *)
(* while a heartbeat, a check or an arrival is due.  What requests do is   *)
(* left out but for what it means to the timeout; so are the answers,      *)
(* which the client only prints.                                           *)
(***************************************************************************)
EXTENDS Integers, Sequences

CONSTANTS
  Conn,      \* connections, each made once, by one run of the client
  Beat,      \* ticks between two heartbeats of a client (5 s)
  Check,     \* ticks between two runs of check_timeout (5 s)
  Timeout,   \* what check_timeout is given (30 s)
  MaxDelay,  \* the longest a request travels
  MaxLine    \* bound: requests on their way when a user types another

ASSUME HeartbeatAssumption ==
  /\ Beat \in Nat \ {0} /\ Check \in Nat \ {0}
  /\ Timeout \in Nat /\ MaxDelay \in Nat /\ MaxLine \in Nat

\* A heartbeat delayed as long as can be still comes in time.
ASSUME InTimeAssumption == Beat + MaxDelay <= Timeout

VARIABLES
  client,   \* "off"; "up"; "stopped", which may resume; "closed", its end of
            \*   the connection is; "cut", with its host or network
  beat,     \* ticks until its heartbeat thread wakes
  line,     \* requests on their way, oldest first, with the time they took
  link,     \* the broker's end: "none", "connected", "disconnecting" (shut in
            \*   one direction), "gone"; __conns has the two in the middle
  silence,  \* now - __last_active, no further than Forgotten
  check,    \* ticks until check_timeout
  steady    \* history: a client that runs all the time and knows the protocol

vars == <<client, beat, line, link, silence, check, steady>>

Requests  == [known : BOOLEAN, age : 0..MaxDelay]
Forgotten == Timeout + Check + 1
Managed(k) == link[k] \in {"connected", "disconnecting"}

---------------------------------------------------------------------------
Init ==
  /\ client = [k \in Conn |-> "off"] /\ link = [k \in Conn |-> "none"]
  /\ beat = [k \in Conn |-> Beat] /\ silence = [k \in Conn |-> 0]
  /\ line = [k \in Conn |-> <<>>] /\ check = Check
  /\ steady = [k \in Conn |-> TRUE]

(* The client. *)

\* onConnection of both ends.  The heartbeat thread runs already.
Connect(k) ==
  /\ client[k] = "off"
  /\ client' = [client EXCEPT ![k] = "up"]
  /\ \E b \in 1..Beat : beat' = [beat EXCEPT ![k] = b]
  /\ link' = [link EXCEPT ![k] = "connected"]
  /\ silence' = [silence EXCEPT ![k] = 0]
  /\ UNCHANGED <<line, check, steady>>

Send(k, known) ==
  /\ client[k] = "up"
  /\ line' = [line EXCEPT ![k] = Append(@, [known |-> known, age |-> 0])]

Beats(k) ==
  /\ beat[k] = 0 /\ Send(k, TRUE)
  /\ beat' = [beat EXCEPT ![k] = Beat]
  /\ UNCHANGED <<client, link, silence, check, steady>>

\* A user types a command.  Another program may send what the broker has
\* no handler for.
Command(k, known) ==
  /\ Len(line[k]) < MaxLine /\ Send(k, known)
  /\ steady' = [steady EXCEPT ![k] = @ /\ known]
  /\ UNCHANGED <<client, beat, link, silence, check>>

\* Stopped by its user or a debugger; the kernel keeps the connection.
Stop(k) ==
  /\ client[k] = "up"
  /\ client' = [client EXCEPT ![k] = "stopped"]
  /\ steady' = [steady EXCEPT ![k] = FALSE]
  /\ UNCHANGED <<beat, line, link, silence, check>>

Resume(k) ==
  /\ client[k] = "stopped"
  /\ client' = [client EXCEPT ![k] = "up"]
  /\ UNCHANGED <<beat, line, link, silence, check, steady>>

\* "closed": exit or a crash; it never connects again.  "cut": nobody will
\* tell the broker.  Some of what is on its way may be lost.
Leave(k, how) ==
  /\ client[k] \in {"up", "stopped"}
  /\ client' = [client EXCEPT ![k] = how]
  /\ steady' = [steady EXCEPT ![k] = FALSE]
  /\ beat' = [beat EXCEPT ![k] = Beat]
  /\ \E n \in 0..Len(line[k]) : line' = [line EXCEPT ![k] = SubSeq(@, 1, n)]
  /\ UNCHANGED <<link, silence, check>>

\* The end of the stream after the broker's shutdown: the client closes.
HangUp(k) ==
  /\ client[k] = "up" /\ link[k] = "disconnecting"
  /\ Leave(k, "closed")

(* The broker. *)

Arrives(k) ==
  /\ Managed(k) /\ line[k] # <<>>
  /\ line' = [line EXCEPT ![k] = Tail(@)]

\* Every handler refreshes the connection, one that shuts down too.
Refresh(k) ==
  /\ Arrives(k) /\ Head(line[k]).known
  /\ silence' = [silence EXCEPT ![k] = 0]
  /\ UNCHANGED <<client, beat, link, check, steady>>

OnUnknownMessage(k) ==
  /\ Arrives(k) /\ ~Head(line[k]).known
  /\ link' = [link EXCEPT ![k] = "disconnecting"]
  /\ UNCHANGED <<client, beat, silence, check, steady>>

ExpiredAtOnce(k) == Managed(k) /\ silence[k] >= Timeout   \* seeded fault
Expired(k) == Managed(k) /\ silence[k] > Timeout

\* Seeded fault: the loop ends with the first connection that expired.
CheckOne ==
  /\ check = 0
  /\ check' = Check
  /\ \/ \E k \in Conn : Expired(k) /\ link' = [link EXCEPT ![k] = "disconnecting"]
     \/ (\A k \in Conn : ~Expired(k)) /\ link' = link
  /\ UNCHANGED <<client, beat, line, silence, steady>>

\* Seeded fault: what expired is erased, its socket left open.
ForgetExpired ==
  /\ check = 0
  /\ check' = Check
  /\ link' = [k \in Conn |-> IF Expired(k) THEN "gone" ELSE link[k]]
  /\ UNCHANGED <<client, beat, line, silence, steady>>

\* check_timeout: shutdown() closes one direction, and that only once.
CheckTimeout ==
  /\ check = 0
  /\ check' = Check
  /\ link' = [k \in Conn |-> IF Expired(k) THEN "disconnecting" ELSE link[k]]
  /\ UNCHANGED <<client, beat, line, silence, steady>>

\* Seeded fault: the close of a connection that was shut down is missed.
CloseConnected(k, end) ==
  /\ client[k] = end /\ link[k] = "connected" /\ line[k] = <<>>
  /\ link' = [link EXCEPT ![k] = "gone"]
  /\ silence' = [silence EXCEPT ![k] = 0]
  /\ UNCHANGED <<client, beat, line, check, steady>>

\* onConnection, down: the peer closed and all it sent is read, or it is cut
\* off and the kernel gives up sending to it.
Close(k, end) ==
  /\ client[k] = end /\ Managed(k) /\ line[k] = <<>>
  /\ link' = [link EXCEPT ![k] = "gone"]
  /\ silence' = [silence EXCEPT ![k] = 0]
  /\ UNCHANGED <<client, beat, line, check, steady>>

---------------------------------------------------------------------------
Less(n) == IF n = 0 THEN 0 ELSE n - 1
More(n) == IF n = Forgotten THEN n ELSE n + 1

Tick ==
  /\ check > 0
  /\ \A k \in Conn : client[k] = "up" => beat[k] > 0
  /\ \A k \in Conn : \A i \in DOMAIN line[k] : line[k][i].age < MaxDelay
  /\ check' = check - 1
  /\ beat' = [k \in Conn |-> IF client[k] \in {"up", "stopped"} THEN Less(beat[k]) ELSE beat[k]]
  /\ silence' = [k \in Conn |-> IF Managed(k) THEN More(silence[k]) ELSE silence[k]]
  /\ line' = [k \in Conn |-> [i \in DOMAIN line[k] |-> [line[k][i] EXCEPT !.age = @ + 1]]]
  /\ UNCHANGED <<client, link, steady>>

Next ==
  \/ \E k \in Conn :
       \/ Connect(k) \/ Beats(k) \/ Stop(k) \/ Resume(k)
       \/ \E known \in BOOLEAN : Command(k, known)
       \/ \E end \in {"closed", "cut"} : Leave(k, end) \/ Close(k, end)
       \/ Refresh(k) \/ OnUnknownMessage(k)
  \/ CheckTimeout \/ Tick

\* Time passes, and a client reads its socket unless it stays stopped, however
\* often it is stopped and resumed; the broker's loop runs, the kernels
\* deliver.  Nobody has to type, stop or resume.
Fairness ==
  /\ SF_vars(Tick) /\ WF_vars(CheckTimeout)
  /\ \A k \in Conn :
       /\ WF_vars(Beats(k)) /\ SF_vars(HangUp(k))
       /\ WF_vars(Refresh(k)) /\ WF_vars(OnUnknownMessage(k))
       /\ WF_vars(Close(k, "closed"))
       /\ WF_vars(link[k] = "disconnecting" /\ Close(k, "cut"))

Spec == Init /\ [][Next]_vars /\ Fairness

---------------------------------------------------------------------------
(* The state is well formed, and the broker forgets no connection that has *)
(* another end, nor one whose requests it has not read.                    *)
TypeOK ==
  /\ client \in [Conn -> {"off", "up", "stopped", "closed", "cut"}]
  /\ link \in [Conn -> {"none", "connected", "disconnecting", "gone"}]
  /\ beat \in [Conn -> 0..Beat] /\ silence \in [Conn -> 0..Forgotten]
  /\ line \in [Conn -> Seq(Requests)] /\ check \in 0..Check
  /\ steady \in [Conn -> BOOLEAN]
  /\ \A k \in Conn : link[k] = "none" <=> client[k] = "off"
  /\ \A k \in Conn : link[k] = "gone" => client[k] \in {"closed", "cut"}
  /\ \A k \in Conn : ~Managed(k) => line[k] = <<>>

(* A client that keeps running is never shut down, at whatever moments its *)
(* heartbeats and the broker's checks fall and however the network delays  *)
(* them: the timeout leaves room for one period and one delay.             *)
OnlyTheSilentAreShut == \A k \in Conn : steady[k] => link[k] # "disconnecting"

(* No connection counts as alive longer than the timeout and one period of *)
(* the check after its last request, however many expire together.         *)
SilenceIsNoticed ==
  \A k \in Conn : link[k] = "connected" => silence[k] <= Timeout + Check

(* A client that exits, crashes, or vanishes with its host or network      *)
(* unnoticed, is forgotten, whether or not it was shut down before.        *)
EndsAreForgotten ==
  \A k \in Conn : client[k] \in {"closed", "cut"} ~> link[k] = "gone"

(* What the documents promise and the code does not keep: a connection     *)
(* that timed out is closed and what belongs to it is released.            *)
TimedOutAreReleased ==
  \A k \in Conn : link[k] = "connected" /\ Expired(k) ~> link[k] = "gone"

===========================================================================
