------------------------------ MODULE JobQueue ------------------------------
(***************************************************************************)
(* communication/job_queue.py (and its copy rest_api/core/job_queue.py): a *)
(* bounded asyncio.Queue drained by a fixed number of worker tasks.        *)
(*                                                                         *)
(* Everything runs on one event loop, so a step is the code between two    *)
(* suspension points.  Where one task can pass several program points      *)
(* without suspending (the end of a job, the loop test and the next take)  *)
(* the model gives each its own step and lets the other tasks in between:  *)
(* a superset of the interleavings the loop produces.  The exception is    *)
(* shutdown(), whose sentinels that fit are placed in one step.            *)
(*                                                                         *)
(* start() may be called again after shutdown(): every call takes its      *)
(* tasks from the pool Task, whose size bounds the number of calls.  One   *)
(* shutdown() call is assumed to be in progress at a time.                 *)
(***************************************************************************)
EXTENDS Integers, Sequences, FiniteSets

CONSTANTS
  Job,          \* the jobs that may be created
  Orphans,      \* the jobs submitted without an entry in the store
  Task,         \* the worker tasks start() may create (bounds its calls)
  MaxQueue,     \* max_queue_size
  MaxWorkers,   \* max_workers
  Stop,         \* the None sentinel in the queue
  NoJob         \* the value of a worker's job variable when it has none

ASSUME QueueAssumption ==
  /\ IsFiniteSet(Job)
  /\ IsFiniteSet(Task)
  /\ Orphans \subseteq Job
  /\ MaxQueue \in Nat \ {0}
  /\ MaxWorkers \in Nat \ {0}
  /\ Stop \notin Job
  /\ NoJob \notin Job

VARIABLES
  store,        \* store[j].status, "absent" when j has no entry
  caller,       \* how far the creator of j has come
  queue,        \* the items of self.queue
  unfinished,   \* self.queue._unfinished_tasks
  shutdown,     \* self._shutdown
  workerTasks,  \* self._worker_tasks
  pc,           \* where each worker task is
  job,          \* the job a task has taken and not given back
  cancelled,    \* the tasks whose cancel() was called
  permits,      \* self._semaphore._value
  waiters,      \* the tasks in line at the semaphore
  closer,       \* where the shutdown() call is, "idle" when there is none
  closerWaits,  \* its argument wait
  putsLeft,     \* the sentinels it has not placed yet
  ticket,       \* history: the order in which jobs were accepted, 0 before
  clock         \* history: the number of jobs accepted

callerVars == <<store, caller, ticket, clock>>
queueVars == <<queue, unfinished>>
workerVars == <<pc, job, permits, waiters>>
closerVars == <<shutdown, workerTasks, cancelled, closer, closerWaits, putsLeft>>
vars == <<callerVars, queueVars, workerVars, closerVars>>

Status == {"absent", "pending", "done", "failed"}
Outcome == {"done", "failed"}

\* "top": at the loop test; "get": parked in wait_for(queue.get(), 1.0);
\* "acquire": at the semaphore; "handler", "callback": inside execute().
PC == {"unborn", "top", "get", "acquire", "handler", "callback", "ended"}

Goto(t, p) == pc' = [pc EXCEPT ![t] = p]

Items(q) == {q[i] : i \in DOMAIN q}
Queued == Items(queue) \ {Stop}
Unborn == {t \in Task : pc[t] = "unborn"}
Holding == {t \in Task : pc[t] \in {"handler", "callback"}}
Runnable(t) == t \notin cancelled

Init ==
  /\ store = [j \in Job |-> "absent"]
  /\ caller = [j \in Job |-> "idle"]
  /\ queue = <<>>
  /\ unfinished = 0
  /\ shutdown = FALSE
  /\ workerTasks = {}
  /\ pc = [t \in Task |-> "unborn"]
  /\ job = [t \in Task |-> NoJob]
  /\ cancelled = {}
  /\ permits = MaxWorkers
  /\ waiters = <<>>
  /\ closer = "idle"
  /\ closerWaits = FALSE
  /\ putsLeft = 0
  /\ ticket = [j \in Job |-> 0]
  /\ clock = 0

-----------------------------------------------------------------------------
(* The creators of jobs (every server does this). *)

Store(j) ==
  /\ j \notin Orphans
  /\ caller[j] = "idle"
  /\ caller' = [caller EXCEPT ![j] = "stored"]
  /\ store' = [store EXCEPT ![j] = "pending"]
  /\ UNCHANGED <<ticket, clock, queueVars, workerVars, closerVars>>

\* Mutant: a creator that submits again the job it has already handed over.
MaySubmitAgain(j) ==
  caller[j] \in IF j \in Orphans THEN {"idle"} ELSE {"stored", "accepted"}
MaySubmit(j) == caller[j] = IF j \in Orphans THEN "idle" ELSE "stored"

\* Mutant: the bound of the queue is off by one.
HasRoomForOneMore == Len(queue) <= MaxQueue
HasRoom == Len(queue) < MaxQueue

\* Mutant: a stack in place of the queue.
PutFirst(j) == <<j>> \o queue
Put(j) == Append(queue, j)

(* put_nowait() succeeds, whether the workers run, are stopping or were
   never started. *)
SubmitAccepts(j) ==
  /\ MaySubmit(j)
  /\ HasRoom
  /\ queue' = Put(j)
  /\ unfinished' = unfinished + 1
  /\ caller' = [caller EXCEPT ![j] = "accepted"]
  /\ clock' = clock + 1
  /\ ticket' = [ticket EXCEPT ![j] = clock + 1]
  /\ UNCHANGED <<store, workerVars, closerVars>>

(* QueueFull: submit() returns False and the creator fails its own job. *)
SubmitRejects(j) ==
  /\ MaySubmit(j)
  /\ ~HasRoom
  /\ caller' = [caller EXCEPT ![j] = "rejected"]
  /\ store' = IF j \in Orphans THEN store ELSE [store EXCEPT ![j] = "failed"]
  /\ UNCHANGED <<ticket, clock, queueVars, workerVars, closerVars>>

-----------------------------------------------------------------------------
(* start() *)

\* Mutant: start() does not look whether workers are listed already.
MayStartAgain == TRUE
MayStart == workerTasks = {}

Start ==
  /\ MayStart
  /\ \E G \in SUBSET Unborn :
       /\ Cardinality(G) = MaxWorkers
       /\ workerTasks' = G
       /\ pc' = [t \in Task |-> IF t \in G THEN "top" ELSE pc[t]]
  /\ shutdown' = FALSE
  /\ UNCHANGED <<job, permits, waiters, cancelled, closer, closerWaits, putsLeft,
                 callerVars, queueVars>>

-----------------------------------------------------------------------------
(* _worker(): the loop *)

LoopExit(t) ==
  /\ Runnable(t) /\ pc[t] = "top"
  /\ shutdown
  /\ Goto(t, "ended")
  /\ UNCHANGED <<job, permits, waiters, callerVars, queueVars, closerVars>>

(* wait_for(queue.get()) suspends on an empty queue. *)
Park(t) ==
  /\ Runnable(t) /\ pc[t] = "top"
  /\ ~shutdown /\ queue = <<>>
  /\ Goto(t, "get")
  /\ UNCHANGED <<job, permits, waiters, callerVars, queueVars, closerVars>>

(* A parked worker that is woken takes the item without testing _shutdown;
   one that comes from the loop test has just tested it. *)
MayTake(t) ==
  /\ Runnable(t)
  /\ pc[t] = "get" \/ (pc[t] = "top" /\ ~shutdown)
  /\ queue # <<>>

TakeSentinel(t) ==
  /\ MayTake(t) /\ Head(queue) = Stop
  /\ queue' = Tail(queue)
  /\ unfinished' = unfinished - 1
  /\ Goto(t, "ended")
  /\ UNCHANGED <<job, permits, waiters, callerVars, closerVars>>

TakeJob(t) ==
  /\ MayTake(t) /\ Head(queue) # Stop
  /\ queue' = Tail(queue)
  /\ job' = [job EXCEPT ![t] = Head(queue)]
  /\ waiters' = Append(waiters, t)
  /\ Goto(t, "acquire")
  /\ UNCHANGED <<permits, unfinished, callerVars, closerVars>>

\* Mutant: the timeout cancels a get() that has already removed an item.
TimeoutLosesItem(t) ==
  /\ Runnable(t) /\ pc[t] = "get"
  /\ Goto(t, "top")
  /\ queue' = IF queue = <<>> THEN queue ELSE Tail(queue)
  /\ UNCHANGED <<job, permits, waiters, unfinished, callerVars, closerVars>>

\* Mutant: task_done() in a finally block of the loop body.
TimeoutCountsDone(t) ==
  /\ Runnable(t) /\ pc[t] = "get"
  /\ Goto(t, "top")
  /\ unfinished' = unfinished - 1
  /\ UNCHANGED <<job, permits, waiters, queue, callerVars, closerVars>>

\* Mutant: TimeoutError is not caught and ends the worker.
TimeoutEndsWorker(t) ==
  /\ Runnable(t) /\ pc[t] = "get"
  /\ Goto(t, "ended")
  /\ UNCHANGED <<job, permits, waiters, callerVars, queueVars, closerVars>>

(* The 1 s timeout, which may also fire when an item has just arrived. *)
Timeout(t) ==
  /\ Runnable(t) /\ pc[t] = "get"
  /\ Goto(t, "top")
  /\ UNCHANGED <<job, permits, waiters, callerVars, queueVars, closerVars>>

-----------------------------------------------------------------------------
(* Job.execute() under the semaphore *)

MayAcquire(t) ==
  /\ Runnable(t) /\ pc[t] = "acquire"
  /\ permits > 0
  /\ waiters # <<>> /\ Head(waiters) = t

\* Mutant: execute() does not test that the job is in the store.
NeverMissing(j) == TRUE
InStore(j) == store[j] # "absent"

\* Mutant: the permit is not given back.
Kept == permits
Released == permits + 1

(* execute() finds the job in the store and calls its handler. *)
Acquire(t) ==
  /\ MayAcquire(t)
  /\ InStore(job[t])
  /\ permits' = permits - 1
  /\ waiters' = Tail(waiters)
  /\ Goto(t, "handler")
  /\ UNCHANGED <<job, callerVars, queueVars, closerVars>>

(* "Job not found in store": the early return, with no callback. *)
AcquireOrphan(t) ==
  /\ MayAcquire(t)
  /\ ~InStore(job[t])
  /\ waiters' = Tail(waiters)
  /\ job' = [job EXCEPT ![t] = NoJob]
  /\ unfinished' = unfinished - 1
  /\ Goto(t, "top")
  /\ UNCHANGED <<permits, queue, callerVars, closerVars>>

(* The handler returns a result or raises. *)
HandlerReturns(t, outcome) ==
  /\ Runnable(t) /\ pc[t] = "handler"
  /\ store' = [store EXCEPT ![job[t]] = outcome]
  /\ Goto(t, "callback")
  /\ UNCHANGED <<caller, ticket, clock, job, permits, waiters, queueVars, closerVars>>

\* Mutant: an on_complete that raises ends in execute()'s own except block.
CallbackMayFailJob(t) ==
  /\ Runnable(t) /\ pc[t] = "callback"
  /\ permits' = permits + 1
  /\ unfinished' = unfinished - 1
  /\ job' = [job EXCEPT ![t] = NoJob]
  /\ \E outcome \in {store[job[t]], "failed"} :
       store' = [store EXCEPT ![job[t]] = outcome]
  /\ Goto(t, "top")
  /\ UNCHANGED <<caller, ticket, clock, queue, waiters, closerVars>>

(* on_complete returns, raises (which is only logged) or was None; the
   semaphore is released and task_done() is called. *)
CallbackReturns(t) ==
  /\ Runnable(t) /\ pc[t] = "callback"
  /\ permits' = Released
  /\ unfinished' = unfinished - 1
  /\ job' = [job EXCEPT ![t] = NoJob]
  /\ Goto(t, "top")
  /\ UNCHANGED <<store, caller, ticket, clock, queue, waiters, closerVars>>

\* Mutant: acquire() and release() without a finally block.
CancelKeepsPermit(t) ==
  /\ t \in cancelled /\ pc[t] \notin {"unborn", "ended"}
  /\ Goto(t, "ended")
  /\ job' = IF pc[t] = "callback" THEN [job EXCEPT ![t] = NoJob] ELSE job
  /\ UNCHANGED <<permits, waiters, callerVars, queueVars, closerVars>>

(* CancelledError is no Exception: it leaves execute(), the semaphore block
   and the loop without an outcome and without task_done().  The task keeps
   the job it abandoned, unless the outcome was already stored. *)
CancelDelivered(t) ==
  /\ t \in cancelled /\ pc[t] \notin {"unborn", "ended"}
  /\ Goto(t, "ended")
  /\ permits' = IF t \in Holding THEN Released ELSE permits
  /\ job' = IF pc[t] = "callback" THEN [job EXCEPT ![t] = NoJob] ELSE job
  /\ UNCHANGED <<waiters, callerVars, queueVars, closerVars>>

-----------------------------------------------------------------------------
(* shutdown(wait) *)

Sentinels(n) == [i \in 1..n |-> Stop]
Free == MaxQueue - Len(queue)

(* for task in self._worker_tasks: task.cancel(); self._worker_tasks.clear().
   The semaphore ignores cancelled waiters from then on; every waiter is one
   of these tasks. *)
CancelAll ==
  /\ cancelled' = cancelled \cup {t \in workerTasks : pc[t] # "ended"}
  /\ waiters' = <<>>
  /\ workerTasks' = {}
  /\ closer' = "idle"

(* put(None) n times: put() suspends the call when the queue is full. *)
PlaceSentinels(n, wait) ==
  LET fit == IF n <= Free THEN n ELSE Free
  IN /\ queue' = queue \o Sentinels(fit)
     /\ unfinished' = unfinished + fit
     /\ putsLeft' = n - fit
     /\ \/ /\ fit < n
           /\ closer' = "putting"
           /\ UNCHANGED <<workerTasks, cancelled, waiters>>
        \/ /\ fit = n /\ wait
           /\ closer' = IF workerTasks = {} THEN "idle" ELSE "gathering"
           /\ UNCHANGED <<workerTasks, cancelled, waiters>>
        \/ /\ fit = n /\ ~wait
           /\ CancelAll

Shutdown(wait) ==
  /\ closer = "idle"
  /\ shutdown' = TRUE
  /\ closerWaits' = wait
  /\ PlaceSentinels(Cardinality(workerTasks), wait)
  /\ UNCHANGED <<pc, job, permits, callerVars>>

(* A slot has become free and put() tries again. *)
ShutdownResumes ==
  /\ closer = "putting"
  /\ Free > 0
  /\ PlaceSentinels(putsLeft, closerWaits)
  /\ UNCHANGED <<shutdown, closerWaits, pc, job, permits, callerVars>>

(* gather() over the worker tasks returns, the list is cleared. *)
GatherReturns ==
  /\ closer = "gathering"
  /\ \A t \in workerTasks : pc[t] = "ended"
  /\ closer' = "idle"
  /\ workerTasks' = {}
  /\ UNCHANGED <<shutdown, cancelled, closerWaits, putsLeft,
                 callerVars, queueVars, workerVars>>

-----------------------------------------------------------------------------
Create == \E j \in Job : Store(j) \/ SubmitAccepts(j) \/ SubmitRejects(j)

Loop(t) == LoopExit(t) \/ Park(t) \/ TakeSentinel(t) \/ TakeJob(t)

Execute(t) ==
  \/ Acquire(t) \/ AcquireOrphan(t) \/ CallbackReturns(t)
  \/ \E outcome \in Outcome : HandlerReturns(t, outcome)

Work == \E t \in Task : Loop(t) \/ Execute(t) \/ Timeout(t) \/ CancelDelivered(t)

Close == ShutdownResumes \/ GatherReturns \/ \E wait \in BOOLEAN : Shutdown(wait)

Next == Create \/ Start \/ Work \/ Close

Spec == Init /\ [][Next]_vars

(* The event loop runs every task that can run; a handler and a callback
   return in the end; wait_for() times out.  Nobody is obliged to create a
   job, to start the queue or to shut it down. *)
Fairness ==
  /\ \A t \in Task : /\ WF_vars(Loop(t)) /\ WF_vars(Execute(t))
                     /\ WF_vars(Timeout(t)) /\ WF_vars(CancelDelivered(t))
  /\ WF_vars(ShutdownResumes) /\ WF_vars(GatherReturns)

FairSpec == Spec /\ Fairness

-----------------------------------------------------------------------------
(* Invariants *)

Live(t) == pc[t] \notin {"unborn", "ended"} /\ Runnable(t)
Holds(t, j) == job[t] = j

(* Every variable has the type the code gives it; in particular the queue,
   sentinels included, never outgrows its maxsize. *)
TypeOK ==
  /\ store \in [Job -> Status]
  /\ caller \in [Job -> {"idle", "stored", "accepted", "rejected"}]
  /\ queue \in Seq(Job \cup {Stop}) /\ Len(queue) <= MaxQueue
  /\ unfinished \in Int
  /\ shutdown \in BOOLEAN
  /\ workerTasks \subseteq Task
  /\ pc \in [Task -> PC]
  /\ job \in [Task -> Job \cup {NoJob}]
  /\ cancelled \subseteq Task
  /\ permits \in Int
  /\ waiters \in Seq(Task)
  /\ closer \in {"idle", "putting", "gathering"}
  /\ closerWaits \in BOOLEAN
  /\ putsLeft \in Nat
  /\ ticket \in [Job -> Nat]
  /\ clock \in Nat

\* No job occurs twice in q.
NoRepeat(q) == \A i, k \in DOMAIN q : q[i] = q[k] /\ q[i] # Stop => i = k

(* A job is in one place only: at one position of the queue or with one
   worker, however the queue is shut down and started again.  So no job is
   executed twice. *)
OnePlace ==
  /\ NoRepeat(queue)
  /\ \A t \in Task : job[t] \notin Queued
  /\ \A t, u \in Task : job[t] = job[u] /\ job[t] # NoJob => t = u

(* The status a client reads says where its accepted job is: pending exactly
   while the job is queued or with a worker that has not stored its outcome
   (or was cancelled before it could).  So no accepted job is dropped by a
   worker that goes away, and on_complete never runs before the outcome can
   be read. *)
PendingIsOwed ==
  \A j \in Job \ Orphans : caller[j] = "accepted" =>
    (store[j] = "pending" <=>
       \/ j \in Queued
       \/ \E t \in Task : Holds(t, j) /\ pc[t] # "callback")

(* The semaphore counts the jobs in execution, also those of cancelled
   workers that have not noticed yet: at most max_workers at any time, even
   when the queue is shut down and started again meanwhile. *)
ExecutionIsBounded ==
  /\ permits >= 0
  /\ permits + Cardinality(Holding) = MaxWorkers

(* Only workers that were cancelled and have not noticed yet keep a job
   waiting at the semaphore: without them there is a permit for every job
   taken.  A restart may meet them, when shutdown(wait=False) is followed by
   start() while their handlers and callbacks are still to be interrupted. *)
OnlyCancelledDelay ==
  Cardinality({t \in Task : pc[t] = "acquire" /\ Runnable(t)})
    <= permits + Cardinality(Holding \cap cancelled)

(* No worker escapes the list shutdown() works from: a task that can still
   run is listed or was cancelled, and start() never doubles the workers. *)
WorkersAreListed ==
  /\ \A t \in Task : Live(t) => t \in workerTasks
  /\ Cardinality(workerTasks) <= MaxWorkers

(* task_done() is called once for an item taken, and not for the job of a
   cancelled worker: the counter never falls below the items that are still
   to be done (task_done() would raise ValueError inside a worker). *)
UnfinishedCoversItems ==
  LET held == {t \in Task : job[t] # NoJob}
  IN /\ unfinished >= Len(queue) + Cardinality(held)
     /\ cancelled = {} => unfinished = Len(queue) + Cardinality(held)

-----------------------------------------------------------------------------
(* What makes OnePlace, PendingIsOwed and OutcomeIsFinal inductive. *)

(* A task has a job exactly between taking it and giving it back, except
   that a cancelled task keeps the job it abandoned. *)
JobsMatchPC ==
  \A t \in Task :
    /\ pc[t] \in {"acquire", "handler", "callback"} => job[t] \in Job
    /\ pc[t] \in {"unborn", "top", "get"} => job[t] = NoJob

(* Only accepted jobs are queued or taken. *)
TakenWereAccepted ==
  /\ \A j \in Queued : caller[j] = "accepted"
  /\ \A t \in Task : job[t] # NoJob => caller[job[t]] = "accepted"

(* The store agrees with what the creator has done so far, and an orphan
   never gets an entry and is never executed. *)
StoreMatchesCaller ==
  /\ \A j \in Job \ Orphans :
       /\ caller[j] = "idle" => store[j] = "absent"
       /\ caller[j] = "stored" => store[j] = "pending"
       /\ caller[j] = "rejected" => store[j] = "failed"
       /\ caller[j] = "accepted" => store[j] # "absent"
  /\ \A j \in Orphans : store[j] = "absent"
  /\ \A t \in Holding : job[t] \notin Orphans

QueueInv ==
  /\ TypeOK /\ JobsMatchPC /\ OnePlace /\ TakenWereAccepted
  /\ StoreMatchesCaller /\ PendingIsOwed

-----------------------------------------------------------------------------
(* Action properties *)

(* A status done or failed is never changed again: not by a callback that
   raises after the outcome was stored, not by a second worker. *)
OutcomeIsFinal ==
  [][\A j \in Job : store[j] \in Outcome => store'[j] = store[j]]_vars

StillWaiting(j) ==
  \/ j \in Queued
  \/ \E t \in Task : Holds(t, j) /\ pc[t] = "acquire" /\ Runnable(t)

Begins(t) == pc[t] = "acquire" /\ pc'[t] # "acquire" /\ Runnable(t)

(* Jobs begin in the order in which they were accepted (the README's "FIFO"),
   whichever workers take them and however the semaphore delays them. *)
StartsInOrder ==
  [][\A t \in Task : Begins(t) =>
       \A k \in Job : StillWaiting(k) => ticket[job[t]] <= ticket[k]]_vars

-----------------------------------------------------------------------------
(* Liveness *)

(* While the queue is not shut down, a started queue ends every job it has
   accepted. *)
AcceptedJobsEnd ==
  [](~shutdown) =>
    \A j \in Job \ Orphans :
      caller[j] = "accepted" /\ workerTasks # {} ~> store[j] \in Outcome

(* Once all sentinels are placed, shutdown(wait=True) returns: no worker
   waits for an item for ever. *)
GatherEnds == closer = "gathering" ~> closer = "idle"

(* What the docstring of shutdown() says, that it ends the queue and waits at
   most for the jobs in progress: the call returns. *)
ShutdownReturns == closer # "idle" ~> closer = "idle"

(* What start() logs, that the queue runs with max_workers workers: a worker
   of a queue that is not being shut down does not end. *)
StartedWorkersStay ==
  \A t \in workerTasks : ~shutdown => pc[t] # "ended"

-----------------------------------------------------------------------------
(* The queue implements JobService. *)

HeldBy(j) == CHOOSE t \in Task : job[t] = j

StageOf(j) ==
  IF caller[j] # "accepted" THEN IF caller[j] = "idle" THEN "new" ELSE caller[j]
  ELSE IF j \in Queued THEN "waiting"
  ELSE IF \A t \in Task : job[t] # j THEN "closed"
  ELSE LET t == HeldBy(j)
       IN CASE pc[t] = "callback" -> "notifying"
            [] pc[t] = "handler" -> "running"
            [] pc[t] = "acquire" /\ Runnable(t) -> "claimed"
            [] OTHER -> "lost"

Service == INSTANCE JobService WITH stage <- [j \in Job |-> StageOf(j)]

(* The workers, the sentinels, the semaphore and any shutdown or restart are
   invisible to the servers, which see the service of JobService only. *)
ImplementsService == Service!ServiceSpec
=============================================================================
