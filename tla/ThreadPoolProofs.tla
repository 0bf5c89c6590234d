------------------------- MODULE ThreadPoolProofs -------------------------
(***************************************************************************)
(* The safety of thread_pool (src/src/common/thread_pool.cpp) for any      *)
(* number of workers, callers and tasks.  The order of the tasks and the   *)
(* wakeups are inductive with the types and one more fact each: a worker   *)
(* that left saw the pool stopped and empty, and a started task is done or *)
(* in the hands of a worker.                                               *)
(***************************************************************************)
EXTENDS ThreadPool, SequenceTheorems, TLAPS

\* A worker leaves for good: it saw a stopped pool without tasks, and push()
\* puts nothing in the queue of a stopped pool.
LeftEmpty == \A w \in Worker : wpc[w] = "exited" => stop /\ tasks = <<>>

\* What was started is done or being done.
StartedAreHeld ==
  \A i \in DOMAIN started : started[i] \in done \/ \E w \in Worker : hold[w] = started[i]

\* The destructor returns after the last worker.
ReturnedLast == dpc = "returned" => \A w \in Worker : wpc[w] = "exited"

PoolInvariant ==
  TypeOK /\ StartsInOrder /\ LeftEmpty /\ NoLostWakeup /\ StartedAreHeld /\ ReturnedLast

---------------------------------------------------------------------------
\* Taking the head moves it from one sequence to the end of the other.
LEMMA MoveHead ==
  ASSUME NEW S, NEW s \in Seq(S), NEW t \in Seq(S), t # <<>>
  PROVE  /\ Head(t) \in S /\ Tail(t) \in Seq(S) /\ Append(s, Head(t)) \in Seq(S)
         /\ Append(s, Head(t)) \o Tail(t) = s \o t
<1>1. Head(t) \in S /\ Tail(t) \in Seq(S)
  BY HeadTailProperties
<1>2. Append(s, Head(t)) \in Seq(S)
  BY <1>1, AppendProperties
<1>3. Len(t) \in Nat /\ Len(t) > 0 /\ Len(s) \in Nat
  BY EmptySeq, LenProperties
<1>4. Append(s, Head(t)) \o Tail(t) = s \o t
  BY <1>1, <1>2, <1>3
<1> QED
  BY <1>1, <1>2, <1>4

---------------------------------------------------------------------------
LEMMA PoolInit == Init => PoolInvariant
<1> SUFFICES ASSUME Init PROVE PoolInvariant
  OBVIOUS
<1>1. TypeOK
  <2>1. tasks \in Seq(Task) /\ accepted \in Seq(Task) /\ started \in Seq(Task)
    BY EmptySeq DEF Init
  <2>2. /\ wpc \in [Worker -> {"lock", "waiting", "run", "exited"}]
        /\ hold \in [Worker -> Task \cup {NoTask}]
        /\ \A w \in Worker : wpc[w] = "run" <=> hold[w] # NoTask
    BY DEF Init
  <2>3. ppc \in [Producer -> {"idle", "notify"}]
    BY DEF Init
  <2>4. stop \in BOOLEAN /\ dpc \in {"alive", "notify", "join", "returned"} /\ done \subseteq Task
    BY DEF Init
  <2> QED
    BY <2>1, <2>2, <2>3, <2>4 DEF TypeOK
<1>2. StartsInOrder /\ LeftEmpty /\ NoLostWakeup /\ ReturnedLast
  BY DEF Init, StartsInOrder, LeftEmpty, NoLostWakeup, ReturnedLast
<1>3. StartedAreHeld
  BY DEF Init, StartedAreHeld
<1> QED
  BY <1>1, <1>2, <1>3 DEF PoolInvariant

LEMMA TypeStep == PoolInvariant /\ [Next]_vars => TypeOK'
<1> SUFFICES ASSUME PoolInvariant, [Next]_vars PROVE TypeOK'
  OBVIOUS
<1>0. TypeOK
  BY DEF PoolInvariant
<1>1. ASSUME NEW p \in Producer, NotifyOne(p) PROVE TypeOK'
  BY <1>0, <1>1 DEF NotifyOne, Waiting, TypeOK
<1>2. ASSUME NEW p \in Producer, NEW t \in Task, Submit(p, t) PROVE TypeOK'
  BY <1>0, <1>2 DEF Submit, TypeOK
<1>3. ASSUME NEW w \in Worker, Wait(w) PROVE TypeOK'
  BY <1>0, <1>3 DEF Wait, TypeOK
<1>4. ASSUME NEW w \in Worker, Exit(w) PROVE TypeOK'
  BY <1>0, <1>4 DEF Exit, TypeOK
<1>5. ASSUME NEW w \in Worker, Grab(w) PROVE TypeOK'
  <2>1. Head(tasks) \in Task /\ Tail(tasks) \in Seq(Task) /\ started' \in Seq(Task)
    BY <1>0, <1>5, MoveHead DEF Grab, TypeOK
  <2> QED
    BY <1>0, <1>5, <2>1, PoolAssumption DEF Grab, TypeOK
<1>6. ASSUME NEW w \in Worker, Finish(w) PROVE TypeOK'
  BY <1>0, <1>6, PoolAssumption DEF Finish, TypeOK
<1>7. ASSUME NEW w \in Worker, SpuriousWakeup(w) PROVE TypeOK'
  BY <1>0, <1>7 DEF SpuriousWakeup, TypeOK
<1>8. CASE Stop \/ Join
  BY <1>0, <1>8 DEF Stop, Join, TypeOK
<1>9. CASE NotifyAll
  BY <1>0, <1>9 DEF NotifyAll, Waiting, TypeOK
<1>10. CASE UNCHANGED vars
  BY <1>0, <1>10 DEF vars, TypeOK
<1> QED
  BY <1>1, <1>2, <1>3, <1>4, <1>5, <1>6, <1>7, <1>8, <1>9, <1>10 DEF Next, WorkerStep

LEMMA OrderStep == PoolInvariant /\ [Next]_vars => StartsInOrder'
<1> SUFFICES ASSUME PoolInvariant, [Next]_vars PROVE StartsInOrder'
  OBVIOUS
<1>0. started \in Seq(Task) /\ tasks \in Seq(Task)
  BY DEF PoolInvariant, TypeOK
<1>00. accepted = started \o tasks
  BY DEF PoolInvariant, StartsInOrder
<1>1. ASSUME NEW p \in Producer, NEW t \in Task, Submit(p, t) PROVE StartsInOrder'
  <2>1. Append(started \o tasks, t) = started \o Append(tasks, t)
    BY <1>0
  <2> QED
    BY <1>00, <1>1, <2>1 DEF Submit, StartsInOrder
<1>2. ASSUME NEW w \in Worker, Grab(w) PROVE StartsInOrder'
  <2>1. Append(started, Head(tasks)) \o Tail(tasks) = started \o tasks
    BY <1>0, <1>2, MoveHead DEF Grab
  <2> QED
    BY <1>00, <1>2, <2>1 DEF Grab, StartsInOrder
<1>3. CASE UNCHANGED <<tasks, accepted, started>>
  BY <1>00, <1>3 DEF StartsInOrder
<1> QED
  BY <1>1, <1>2, <1>3
     DEF Next, WorkerStep, vars, NotifyOne, Wait, Exit, Finish, SpuriousWakeup, Stop, NotifyAll, Join

LEMMA LeftStep == PoolInvariant /\ [Next]_vars => LeftEmpty'
<1> SUFFICES ASSUME PoolInvariant, [Next]_vars PROVE LeftEmpty'
  OBVIOUS
<1>0. TypeOK /\ LeftEmpty
  BY DEF PoolInvariant
<1>1. ASSUME NEW p \in Producer, NotifyOne(p) PROVE LeftEmpty'
  BY <1>0, <1>1 DEF NotifyOne, Waiting, TypeOK, LeftEmpty
<1>2. ASSUME NEW p \in Producer, NEW t \in Task, Submit(p, t) PROVE LeftEmpty'
  BY <1>0, <1>2 DEF Submit, LeftEmpty
<1>3. ASSUME NEW w \in Worker, Wait(w) \/ SpuriousWakeup(w) \/ Finish(w) PROVE LeftEmpty'
  BY <1>0, <1>3 DEF Wait, SpuriousWakeup, Finish, TypeOK, LeftEmpty
<1>4. ASSUME NEW w \in Worker, Exit(w) PROVE LeftEmpty'
  BY <1>0, <1>4 DEF Exit, LeftEmpty
<1>5. ASSUME NEW w \in Worker, Grab(w) PROVE LeftEmpty'
  BY <1>0, <1>5 DEF Grab, TypeOK, LeftEmpty
<1>6. CASE Stop \/ Join
  BY <1>0, <1>6 DEF Stop, Join, LeftEmpty
<1>7. CASE NotifyAll
  BY <1>0, <1>7 DEF NotifyAll, Waiting, TypeOK, LeftEmpty
<1>8. CASE UNCHANGED vars
  BY <1>0, <1>8 DEF vars, LeftEmpty
<1> QED
  BY <1>1, <1>2, <1>3, <1>4, <1>5, <1>6, <1>7, <1>8 DEF Next, WorkerStep

LEMMA WakeupStep == PoolInvariant /\ [Next]_vars => NoLostWakeup'
<1> SUFFICES ASSUME PoolInvariant, [Next]_vars, tasks' # <<>> PROVE NoLostWakeup'
  BY DEF NoLostWakeup
<1>0. TypeOK /\ LeftEmpty /\ NoLostWakeup
  BY DEF PoolInvariant
\* With a task in the queue nobody has left: who does not wait is awake.
<1>1. ASSUME tasks # <<>>
      PROVE  \A w \in Worker : wpc[w] \in {"lock", "waiting", "run"}
  BY <1>0, <1>1 DEF TypeOK, LeftEmpty
<1>2. ASSUME NEW p \in Producer, NotifyOne(p) PROVE NoLostWakeup'
  <2>1. tasks # <<>>
    BY <1>2 DEF NotifyOne
  <2>2. CASE Waiting = {}
    BY <1>1, <1>2, <2>1, <2>2, PoolAssumption DEF NotifyOne, Waiting, NoLostWakeup
  <2>3. CASE Waiting # {}
    BY <1>0, <1>2, <2>3 DEF NotifyOne, Waiting, TypeOK, NoLostWakeup
  <2> QED
    BY <2>2, <2>3
<1>3. ASSUME NEW p \in Producer, NEW t \in Task, Submit(p, t) PROVE NoLostWakeup'
  BY <1>0, <1>3 DEF Submit, TypeOK, NoLostWakeup
<1>4. ASSUME NEW w \in Worker, Wait(w) \/ Exit(w) PROVE NoLostWakeup'
  BY <1>4 DEF Wait, Exit
<1>5. ASSUME NEW w \in Worker, Grab(w) \/ Finish(w) \/ SpuriousWakeup(w) PROVE NoLostWakeup'
  BY <1>0, <1>5 DEF Grab, Finish, SpuriousWakeup, TypeOK, NoLostWakeup
<1>6. CASE Stop
  BY <1>6 DEF Stop, NoLostWakeup
<1>7. CASE NotifyAll
  <2>1. PICK w \in Worker : TRUE
    BY PoolAssumption
  <2>2. wpc'[w] \in {"lock", "run"}
    BY <1>1, <1>7, <2>1 DEF NotifyAll, Waiting
  <2> QED
    BY <2>1, <2>2 DEF NoLostWakeup
<1>8. CASE Join
  BY <1>0, <1>8 DEF Join, NoLostWakeup
<1>9. CASE UNCHANGED vars
  BY <1>0, <1>9 DEF vars, NoLostWakeup
<1> QED
  BY <1>2, <1>3, <1>4, <1>5, <1>6, <1>7, <1>8, <1>9 DEF Next, WorkerStep

LEMMA HeldStep == PoolInvariant /\ [Next]_vars => StartedAreHeld'
<1> SUFFICES ASSUME PoolInvariant, [Next]_vars PROVE StartedAreHeld'
  OBVIOUS
<1>0. TypeOK /\ StartedAreHeld
  BY DEF PoolInvariant
<1>1. ASSUME NEW w \in Worker, Grab(w) PROVE StartedAreHeld'
  <2>1. hold[w] = NoTask /\ hold' = [hold EXCEPT ![w] = Head(tasks)] /\ done' = done
    BY <1>0, <1>1 DEF Grab, TypeOK
  <2>2. Head(tasks) \in Task /\ started \in Seq(Task) /\ Len(started) \in Nat
    BY <1>0, <1>1, MoveHead DEF Grab, TypeOK
  <2>3. \A i \in DOMAIN started : started[i] \in Task
    BY <2>2
  <2> SUFFICES ASSUME NEW i \in DOMAIN started'
               PROVE  started'[i] \in done' \/ \E v \in Worker : hold'[v] = started'[i]
    BY DEF StartedAreHeld
  <2>4. CASE i \in DOMAIN started
    <3>1. started'[i] = started[i]
      BY <1>1, <2>2, <2>4 DEF Grab
    <3>2. started[i] # NoTask
      BY <2>3, <2>4, PoolAssumption
    <3>3. CASE started[i] \in done
      BY <2>1, <3>1, <3>3
    <3>4. ASSUME NEW v \in Worker, hold[v] = started[i]
          PROVE  hold'[v] = started[i]
      BY <1>0, <2>1, <3>2, <3>4 DEF TypeOK
    <3> QED
      BY <1>0, <2>4, <3>1, <3>3, <3>4 DEF StartedAreHeld
  <2>5. CASE i \notin DOMAIN started
    <3>1. started'[i] = Head(tasks)
      BY <1>1, <2>2, <2>5 DEF Grab
    <3>2. hold'[w] = Head(tasks)
      BY <1>0, <2>1 DEF TypeOK
    <3> QED
      BY <3>1, <3>2
  <2> QED
    BY <2>4, <2>5
<1>2. ASSUME NEW w \in Worker, Finish(w) PROVE StartedAreHeld'
  BY <1>0, <1>2 DEF Finish, TypeOK, StartedAreHeld
<1>3. CASE UNCHANGED <<started, done, hold>>
  BY <1>0, <1>3 DEF StartedAreHeld
<1> QED
  BY <1>1, <1>2, <1>3
     DEF Next, WorkerStep, vars, NotifyOne, Submit, Wait, Exit, SpuriousWakeup, Stop, NotifyAll, Join

LEMMA ReturnedStep == PoolInvariant /\ [Next]_vars => ReturnedLast'
<1> SUFFICES ASSUME PoolInvariant, [Next]_vars, dpc' = "returned"
             PROVE  \A w \in Worker : wpc'[w] = "exited"
  BY DEF ReturnedLast
<1>0. TypeOK /\ ReturnedLast
  BY DEF PoolInvariant
<1>1. CASE Join
  BY <1>1 DEF Join
<1>2. ASSUME dpc = "returned" PROVE ~Join /\ wpc' = wpc
  BY <1>0, <1>2 DEF Next, WorkerStep, vars, NotifyOne, Waiting, Submit, Wait, Exit, Grab, Finish,
                    SpuriousWakeup, Stop, NotifyAll, Join, ReturnedLast
<1>3. CASE ~Join
  <2>1. dpc = "returned"
    BY <1>3 DEF Next, WorkerStep, vars, NotifyOne, Submit, Wait, Exit, Grab, Finish,
                SpuriousWakeup, Stop, NotifyAll
  <2> QED
    BY <1>0, <1>2, <2>1 DEF ReturnedLast
<1> QED
  BY <1>1, <1>3

---------------------------------------------------------------------------
(* The pool is well formed and its bookkeeping agrees with its workers, for
   every number of workers and callers of push(). *)
THEOREM PoolCorrect == Spec => []PoolInvariant
<1>1. PoolInvariant /\ [Next]_vars => PoolInvariant'
  BY TypeStep, OrderStep, LeftStep, WakeupStep, HeldStep, ReturnedStep DEF PoolInvariant
<1> QED
  BY PoolInit, <1>1, PTL DEF Spec

(* Tasks are started in the order in which push() accepted them. *)
THEOREM OrderCorrect == Spec => []StartsInOrder
<1>1. PoolInvariant => StartsInOrder
  BY DEF PoolInvariant
<1> QED
  BY PoolCorrect, <1>1, PTL

(* Callers and workers keep the pool well formed: a worker holds a task      *)
(* exactly while it runs one, and is in one state of its loop.               *)
THEOREM PoolTypes == Spec => []TypeOK
<1>1. PoolInvariant => TypeOK
  BY DEF PoolInvariant
<1> QED
  BY PoolCorrect, <1>1, PTL

(* The notification after the mutex is released loses no wakeup. *)
THEOREM WakeupCorrect == Spec => []NoLostWakeup
<1>1. PoolInvariant => NoLostWakeup
  BY DEF PoolInvariant
<1> QED
  BY PoolCorrect, <1>1, PTL

(* The destructor returns only when every accepted task has run to its end. *)
THEOREM DrainCorrect == Spec => []DrainedAtReturn
<1>1. PoolInvariant => DrainedAtReturn
  <2> SUFFICES ASSUME PoolInvariant, dpc = "returned"
               PROVE  ToSet(accepted) \subseteq done
    BY DEF DrainedAtReturn
  <2>0. TypeOK /\ StartsInOrder /\ LeftEmpty /\ StartedAreHeld /\ ReturnedLast
    BY DEF PoolInvariant
  <2>1. \A w \in Worker : wpc[w] = "exited"
    BY <2>0 DEF ReturnedLast
  <2>2. tasks = <<>>
    BY <2>0, <2>1, PoolAssumption DEF LeftEmpty
  <2>3. \A w \in Worker : hold[w] = NoTask
    BY <2>0, <2>1 DEF TypeOK
  <2>4. started \in Seq(Task)
    BY <2>0 DEF TypeOK
  <2>5. accepted = started
    BY <2>0, <2>2, <2>4 DEF StartsInOrder
  <2>6. \A i \in DOMAIN started : started[i] \in done
    BY <2>0, <2>3, <2>4, PoolAssumption DEF StartedAreHeld
  <2> QED
    BY <2>5, <2>6 DEF ToSet
<1> QED
  BY PoolCorrect, <1>1, PTL

===========================================================================
