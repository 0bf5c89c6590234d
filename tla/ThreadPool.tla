---------------------------- MODULE ThreadPool ----------------------------
(***************************************************************************)
(* class thread_pool (src/src/common/thread_pool.cpp): worker threads take *)
(* tasks from a queue under a mutex, wait on a condition variable when     *)
(* there is none, and the destructor drains the queue before it joins      *)
(* them.  Nobody sleeps with the mutex, so that one critical section is    *)
(* one step; both notifications come after the mutex is released and are   *)
(* steps of their own.                                                     *)
(***************************************************************************)
EXTENDS Integers, SequencesExt

CONSTANTS Worker, Producer, Task, NoTask

ASSUME PoolAssumption ==
  Worker # {} /\ NoTask \notin Task   \* the constructor makes at least one thread

VARIABLES
  tasks,     \* __tasks
  stop,      \* __stop
  wpc,       \* where each worker is: "lock" (wants the mutex to look at the
             \*   predicate), "waiting" (in __cv.wait), "run" or "exited"
  hold,      \* the task a worker runs
  ppc,       \* where each caller of push() is: "idle" or "notify"
  dpc,       \* the destructor: "alive" (not called), "notify", "join", "returned"
  accepted,  \* history: tasks push() put in the queue, in order
  started,   \* history: tasks taken by a worker, in order
  done       \* history: tasks that ran to their end

vars == <<tasks, stop, wpc, hold, ppc, dpc, accepted, started, done>>

Init ==
  /\ tasks = <<>> /\ stop = FALSE
  /\ wpc = [w \in Worker |-> "lock"] /\ hold = [w \in Worker |-> NoTask]
  /\ ppc = [p \in Producer |-> "idle"] /\ dpc = "alive"
  /\ accepted = <<>> /\ started = <<>> /\ done = {}

---------------------------------------------------------------------------
\* Seeded fault: push() without its notification.
SubmitQuietly(p, t) ==
  /\ ppc[p] = "idle" /\ ~stop /\ t \notin ToSet(accepted)
  /\ tasks' = Append(tasks, t) /\ accepted' = Append(accepted, t)
  /\ UNCHANGED <<stop, wpc, hold, ppc, dpc, started, done>>

\* push(), inside the lock.  A stopped pool returns without effect.
Submit(p, t) ==
  /\ ppc[p] = "idle" /\ ~stop /\ t \notin ToSet(accepted)
  /\ tasks' = Append(tasks, t) /\ accepted' = Append(accepted, t)
  /\ ppc' = [ppc EXCEPT ![p] = "notify"]
  /\ UNCHANGED <<stop, wpc, hold, dpc, started, done>>

Waiting == {w \in Worker : wpc[w] = "waiting"}

\* notify_one: some thread that waits, if any does.
NotifyOne(p) ==
  /\ ppc[p] = "notify"
  /\ ppc' = [ppc EXCEPT ![p] = "idle"]
  /\ \/ Waiting = {} /\ wpc' = wpc
     \/ \E w \in Waiting : wpc' = [wpc EXCEPT ![w] = "lock"]
  /\ UNCHANGED <<tasks, stop, hold, dpc, accepted, started, done>>

\* A worker with the mutex looks at the predicate of the wait.
Wait(w) ==
  /\ wpc[w] = "lock" /\ ~stop /\ tasks = <<>>
  /\ wpc' = [wpc EXCEPT ![w] = "waiting"]
  /\ UNCHANGED <<tasks, stop, hold, ppc, dpc, accepted, started, done>>

SpuriousWakeup(w) ==
  /\ wpc[w] = "waiting"
  /\ wpc' = [wpc EXCEPT ![w] = "lock"]
  /\ UNCHANGED <<tasks, stop, hold, ppc, dpc, accepted, started, done>>

\* Seeded fault: the queue is not looked at once the pool is stopped.
ExitOnStop(w) ==
  /\ wpc[w] = "lock" /\ stop
  /\ wpc' = [wpc EXCEPT ![w] = "exited"]
  /\ UNCHANGED <<tasks, stop, hold, ppc, dpc, accepted, started, done>>

Exit(w) ==
  /\ wpc[w] = "lock" /\ stop /\ tasks = <<>>
  /\ wpc' = [wpc EXCEPT ![w] = "exited"]
  /\ UNCHANGED <<tasks, stop, hold, ppc, dpc, accepted, started, done>>

\* Seeded fault: the newest task first.
GrabNewest(w) ==
  /\ wpc[w] = "lock" /\ tasks # <<>>
  /\ wpc' = [wpc EXCEPT ![w] = "run"]
  /\ hold' = [hold EXCEPT ![w] = Last(tasks)]
  /\ started' = Append(started, Last(tasks))
  /\ tasks' = Front(tasks)
  /\ UNCHANGED <<stop, ppc, dpc, accepted, done>>

Grab(w) ==
  /\ wpc[w] = "lock" /\ tasks # <<>>
  /\ wpc' = [wpc EXCEPT ![w] = "run"]
  /\ hold' = [hold EXCEPT ![w] = Head(tasks)]
  /\ started' = Append(started, Head(tasks))
  /\ tasks' = Tail(tasks)
  /\ UNCHANGED <<stop, ppc, dpc, accepted, done>>

\* Seeded fault: the worker leaves its task behind and goes back to it.
FinishKeepingTask(w) ==
  /\ wpc[w] = "run"
  /\ wpc' = [wpc EXCEPT ![w] = "lock"]
  /\ done' = done \cup {hold[w]}
  /\ UNCHANGED <<tasks, stop, hold, ppc, dpc, accepted, started>>

\* task() returns, outside the lock.
Finish(w) ==
  /\ wpc[w] = "run"
  /\ wpc' = [wpc EXCEPT ![w] = "lock"]
  /\ done' = done \cup {hold[w]}
  /\ hold' = [hold EXCEPT ![w] = NoTask]
  /\ UNCHANGED <<tasks, stop, ppc, dpc, accepted, started>>

\* The destructor, called once.
Stop ==
  /\ dpc = "alive"
  /\ stop' = TRUE /\ dpc' = "notify"
  /\ UNCHANGED <<tasks, wpc, hold, ppc, accepted, started, done>>

\* Seeded fault: notify_one where notify_all is needed.
NotifyOnlyOne ==
  /\ dpc = "notify" /\ dpc' = "join"
  /\ \/ Waiting = {} /\ wpc' = wpc
     \/ \E w \in Waiting : wpc' = [wpc EXCEPT ![w] = "lock"]
  /\ UNCHANGED <<tasks, stop, hold, ppc, accepted, started, done>>

NotifyAll ==
  /\ dpc = "notify" /\ dpc' = "join"
  /\ wpc' = [w \in Worker |-> IF w \in Waiting THEN "lock" ELSE wpc[w]]
  /\ UNCHANGED <<tasks, stop, hold, ppc, accepted, started, done>>

Join ==
  /\ dpc = "join" /\ \A w \in Worker : wpc[w] = "exited"
  /\ dpc' = "returned"
  /\ UNCHANGED <<tasks, stop, wpc, hold, ppc, accepted, started, done>>

WorkerStep(w) == Wait(w) \/ Exit(w) \/ Grab(w) \/ Finish(w)

Next ==
  \/ \E p \in Producer : NotifyOne(p) \/ \E t \in Task : Submit(p, t)
  \/ \E w \in Worker : WorkerStep(w) \/ SpuriousWakeup(w)
  \/ Stop \/ NotifyAll \/ Join

\* The operating system schedules every thread that can run, and tasks end.
\* Nobody has to submit a task or to destroy the pool.
Fairness ==
  /\ \A w \in Worker : WF_vars(WorkerStep(w))
  /\ \A p \in Producer : WF_vars(NotifyOne(p))
  /\ WF_vars(NotifyAll) /\ WF_vars(Join)

Spec == Init /\ [][Next]_vars /\ Fairness

---------------------------------------------------------------------------
(* The state of the pool is well formed; a worker has a task exactly while *)
(* it runs one.                                                            *)
TypeOK ==
  /\ tasks \in Seq(Task) /\ stop \in BOOLEAN
  /\ wpc \in [Worker -> {"lock", "waiting", "run", "exited"}]
  /\ hold \in [Worker -> Task \cup {NoTask}]
  /\ \A w \in Worker : wpc[w] = "run" <=> hold[w] # NoTask
  /\ ppc \in [Producer -> {"idle", "notify"}]
  /\ dpc \in {"alive", "notify", "join", "returned"}
  /\ accepted \in Seq(Task) /\ started \in Seq(Task) /\ done \subseteq Task

(* No wakeup is lost although push() notifies after it released the mutex:  *)
(* while a task waits in the queue, some worker is awake or some            *)
(* notification is still to come.                                           *)
NoLostWakeup ==
  tasks # <<>> =>
    \/ \E w \in Worker : wpc[w] \in {"lock", "run"}
    \/ \E p \in Producer : ppc[p] = "notify"
    \/ dpc = "notify"

(* Tasks are started in the order in which push() accepted them, each once: *)
(* what was started and what still waits make up what was accepted.         *)
StartsInOrder == accepted = started \o tasks

(* When the destructor returns every accepted task has run to its end.      *)
DrainedAtReturn == dpc = "returned" => ToSet(accepted) \subseteq done

(* Every accepted task is run, whether or not the pool is destroyed.        *)
EveryTaskRuns == \A t \in Task : t \in ToSet(accepted) ~> t \in done

(* The destructor returns: no worker sleeps through the notification.       *)
DestructorReturns == stop ~> dpc = "returned"

===========================================================================
