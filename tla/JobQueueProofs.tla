--------------------------- MODULE JobQueueProofs ---------------------------
(***************************************************************************)
(* What holds of JobQueue for any number of jobs and workers and any queue *)
(* size.  QueueInv is inductive; from it follow the types, that a job is in*)
(* one place, that pending means owed, and that an outcome is final.  Then:*)
(* how many jobs are executed at once, which workers are listed, who waits *)
(* at the semaphore, what task_done() counts, the order in which jobs are  *)
(* served, and the proof that the queue implements JobService.             *)
(***************************************************************************)
EXTENDS JobQueue, SequenceTheorems, FiniteSetTheorems, TLAPS

-----------------------------------------------------------------------------
(* Sequences of items *)

(* An item put at the end is the only new item (asyncio.Queue.put_nowait). *)
LEMMA ItemsOfAppend ==
  ASSUME NEW S, NEW q \in Seq(S), NEW e \in S
  PROVE  Items(Append(q, e)) = Items(q) \cup {e}
<1>1. /\ Len(Append(q, e)) = Len(q) + 1 /\ Append(q, e) \in Seq(S)
      /\ \A i \in 1..Len(q) : Append(q, e)[i] = q[i]
      /\ Append(q, e)[Len(q) + 1] = e
  OBVIOUS
<1>2. DOMAIN Append(q, e) = DOMAIN q \cup {Len(q) + 1}
  BY <1>1
<1>. QED
  BY <1>1, <1>2 DEF Items

(* Taking the head removes one occurrence of it (asyncio.Queue.get). *)
LEMMA ItemsOfTail ==
  ASSUME NEW S, NEW q \in Seq(S), q # <<>>
  PROVE  /\ Head(q) \in Items(q)
         /\ Items(q) = Items(Tail(q)) \cup {Head(q)}
<1>1. /\ Len(q) \in Nat /\ Len(q) > 0 /\ Head(q) = q[1]
      /\ DOMAIN q = 1..Len(q)
      /\ DOMAIN Tail(q) = 1..(Len(q) - 1)
      /\ \A i \in 1..(Len(q) - 1) : Tail(q)[i] = q[i + 1]
  OBVIOUS
<1>2. ASSUME NEW i \in DOMAIN q
      PROVE  q[i] \in Items(Tail(q)) \cup {Head(q)}
  <2>1. CASE i = 1
    BY <2>1, <1>1
  <2>2. CASE i > 1
    <3>1. i - 1 \in 1..(Len(q) - 1) /\ q[i] = Tail(q)[i - 1]
      BY <2>2, <1>1
    <3>. QED
      BY <3>1, <1>1 DEF Items
  <2>. QED
    BY <2>1, <2>2, <1>1
<1>3. ASSUME NEW i \in DOMAIN Tail(q)
      PROVE  Tail(q)[i] \in Items(q)
  <2>1. i + 1 \in DOMAIN q /\ Tail(q)[i] = q[i + 1]
    BY <1>1
  <2>. QED
    BY <2>1 DEF Items
<1>4. Head(q) \in Items(q)
  BY <1>1 DEF Items
<1>. QED
  BY <1>2, <1>3, <1>4 DEF Items

(* Sentinels at the end add no job. *)
LEMMA ConcatSentinels ==
  ASSUME NEW S, NEW q \in Seq(S), Stop \in S, NEW n \in Nat
  PROVE  /\ q \o Sentinels(n) \in Seq(S)
         /\ Len(q \o Sentinels(n)) = Len(q) + n
         /\ \A i \in 1..(Len(q) + n) :
              (q \o Sentinels(n))[i] = IF i <= Len(q) THEN q[i] ELSE Stop
<1>. DEFINE z == Sentinels(n)
<1>1. z \in Seq(S) /\ Len(z) = n /\ \A i \in 1..n : z[i] = Stop
  BY DEF Sentinels
<1>. HIDE DEF z
<1>2. Len(q) \in Nat
  OBVIOUS
<1>3. /\ q \o z \in Seq(S)
      /\ Len(q \o z) = Len(q) + Len(z)
      /\ \A i \in 1..(Len(q) + Len(z)) :
           (q \o z)[i] = IF i <= Len(q) THEN q[i] ELSE z[i - Len(q)]
  BY <1>1, ConcatProperties
<1>4. ASSUME NEW i \in 1..(Len(q) + n)
      PROVE  (q \o z)[i] = IF i <= Len(q) THEN q[i] ELSE Stop
  <2>1. CASE i <= Len(q)
    BY <2>1, <1>1, <1>3
  <2>2. CASE ~(i <= Len(q))
    <3>1. i - Len(q) \in 1..n
      BY <2>2, <1>2
    <3>. QED
      BY <3>1, <2>2, <1>1, <1>3
  <2>. QED
    BY <2>1, <2>2
<1>. QED
  BY <1>1, <1>3, <1>4 DEF z

LEMMA ItemsOfSentinels ==
  ASSUME NEW S, NEW q \in Seq(S), Stop \in S, NEW n \in Nat
  PROVE  Items(q \o Sentinels(n)) \ {Stop} = Items(q) \ {Stop}
<1>. DEFINE r == q \o Sentinels(n)
<1>0. /\ r \in Seq(S) /\ Len(r) = Len(q) + n
      /\ \A i \in 1..(Len(q) + n) : r[i] = IF i <= Len(q) THEN q[i] ELSE Stop
  BY ConcatSentinels
<1>. HIDE DEF r
<1>1. /\ DOMAIN r = 1..(Len(q) + n) /\ DOMAIN q = 1..Len(q) /\ Len(q) \in Nat
      /\ \A i \in 1..(Len(q) + n) : r[i] = IF i <= Len(q) THEN q[i] ELSE Stop
  BY <1>0
<1>2. ASSUME NEW i \in DOMAIN r, r[i] # Stop
      PROVE  r[i] \in Items(q)
  BY <1>1, <1>2 DEF Items
<1>3. ASSUME NEW i \in DOMAIN q
      PROVE  q[i] \in Items(r)
  <2>1. i \in DOMAIN r /\ r[i] = q[i]
    BY <1>1
  <2>. QED
    BY <2>1 DEF Items
<1>. QED
  BY <1>2, <1>3 DEF Items, r

(* The queue stays without repetition when a new job or sentinels are put
   and when an item is taken; a job that was taken is not queued any more. *)
LEMMA NoRepeatOfAppend ==
  ASSUME NEW S, NEW q \in Seq(S), NEW e \in S, NoRepeat(q), e \notin Items(q)
  PROVE  NoRepeat(Append(q, e))
<1>1. /\ DOMAIN q = 1..Len(q) /\ Len(q) \in Nat
      /\ DOMAIN Append(q, e) = 1..(Len(q) + 1)
      /\ \A i \in 1..Len(q) : Append(q, e)[i] = q[i]
      /\ Append(q, e)[Len(q) + 1] = e
  OBVIOUS
<1>2. \A i \in 1..Len(q) : q[i] # e
  BY <1>1 DEF Items
<1>. QED
  BY <1>1, <1>2 DEF NoRepeat

LEMMA NoRepeatOfTail ==
  ASSUME NEW S, NEW q \in Seq(S), q # <<>>, NoRepeat(q)
  PROVE  /\ NoRepeat(Tail(q))
         /\ Head(q) # Stop => Head(q) \notin Items(Tail(q))
<1>1. /\ DOMAIN q = 1..Len(q) /\ Len(q) \in Nat /\ Len(q) > 0 /\ Head(q) = q[1]
      /\ DOMAIN Tail(q) = 1..(Len(q) - 1)
      /\ \A i \in 1..(Len(q) - 1) : Tail(q)[i] = q[i + 1]
  OBVIOUS
<1>2. NoRepeat(Tail(q))
  <2>1. ASSUME NEW i \in DOMAIN Tail(q), NEW k \in DOMAIN Tail(q),
               Tail(q)[i] = Tail(q)[k], Tail(q)[i] # Stop
        PROVE  i = k
    <3>1. i + 1 \in DOMAIN q /\ k + 1 \in DOMAIN q
      BY <1>1
    <3>2. q[i + 1] = q[k + 1] /\ q[i + 1] # Stop
      BY <2>1, <1>1
    <3>3. i + 1 = k + 1
      BY <3>1, <3>2 DEF NoRepeat
    <3>. QED
      BY <3>3, <1>1
  <2>. QED
    BY <2>1 DEF NoRepeat
<1>3. ASSUME Head(q) # Stop, NEW i \in DOMAIN Tail(q)
      PROVE  Tail(q)[i] # Head(q)
  <2>1. i + 1 \in DOMAIN q /\ 1 \in DOMAIN q /\ i + 1 # 1
    BY <1>1
  <2>2. q[i + 1] # q[1]
    BY <2>1, <1>1, <1>3 DEF NoRepeat
  <2>. QED
    BY <2>2, <1>1
<1>. QED
  BY <1>2, <1>3 DEF Items

LEMMA NoRepeatOfSentinels ==
  ASSUME NEW S, NEW q \in Seq(S), Stop \in S, NEW n \in Nat, NoRepeat(q)
  PROVE  NoRepeat(q \o Sentinels(n))
<1>. DEFINE r == q \o Sentinels(n)
<1>0. /\ r \in Seq(S) /\ Len(r) = Len(q) + n
      /\ \A i \in 1..(Len(q) + n) : r[i] = IF i <= Len(q) THEN q[i] ELSE Stop
  BY ConcatSentinels
<1>. HIDE DEF r
<1>1. /\ DOMAIN r = 1..(Len(q) + n) /\ DOMAIN q = 1..Len(q) /\ Len(q) \in Nat
      /\ \A i \in 1..(Len(q) + n) : r[i] = IF i <= Len(q) THEN q[i] ELSE Stop
  BY <1>0
<1>2. ASSUME NEW i \in DOMAIN r, NEW k \in DOMAIN r, r[i] = r[k], r[i] # Stop
      PROVE  i = k
  <2>1. i \in DOMAIN q /\ k \in DOMAIN q /\ q[i] = q[k] /\ q[i] # Stop
    BY <1>1, <1>2
  <2>. QED
    BY <2>1 DEF NoRepeat
<1>. QED
  BY <1>2 DEF NoRepeat, r

-----------------------------------------------------------------------------
(* The type invariant *)

(* The sentinels that fit never push the queue over its maxsize. *)
LEMMA SentinelsFit ==
  ASSUME TypeOK, NEW n \in Nat, NEW wait, PlaceSentinels(n, wait)
  PROVE  \E fit \in Nat : /\ fit <= n
                          /\ Len(queue) + fit <= MaxQueue
                          /\ queue' = queue \o Sentinels(fit)
                          /\ unfinished' = unfinished + fit
                          /\ putsLeft' = n - fit
<1>1. Len(queue) \in Nat /\ MaxQueue \in Nat /\ Len(queue) <= MaxQueue
  BY QueueAssumption DEF TypeOK
<1>. DEFINE fit == IF n <= Free THEN n ELSE Free
<1>2. fit \in Nat /\ fit <= n /\ Len(queue) + fit <= MaxQueue
  BY <1>1 DEF Free
<1>3. /\ queue' = queue \o Sentinels(fit)
      /\ unfinished' = unfinished + fit
      /\ putsLeft' = n - fit
  BY DEF PlaceSentinels
<1>. QED
  BY <1>2, <1>3

LEMMA WorkersCount ==
  ASSUME TypeOK
  PROVE  Cardinality(workerTasks) \in Nat
BY QueueAssumption, FS_Subset, FS_CardinalityType DEF TypeOK

LEMMA PlaceSentinelsKeepsTypes ==
  ASSUME TypeOK, NEW n \in Nat, NEW wait, PlaceSentinels(n, wait)
  PROVE  /\ queue' \in Seq(Job \cup {Stop}) /\ Len(queue') <= MaxQueue
         /\ unfinished' \in Int
         /\ putsLeft' \in Nat
         /\ workerTasks' \subseteq Task
         /\ cancelled' \subseteq Task
         /\ waiters' \in Seq(Task)
         /\ closer' \in {"idle", "putting", "gathering"}
<1>1. PICK fit \in Nat : /\ fit <= n
                         /\ Len(queue) + fit <= MaxQueue
                         /\ queue' = queue \o Sentinels(fit)
                         /\ unfinished' = unfinished + fit
                         /\ putsLeft' = n - fit
  BY SentinelsFit
<1>2. /\ queue' \in Seq(Job \cup {Stop})
      /\ Len(queue') = Len(queue) + fit
  <2>1. queue \in Seq(Job \cup {Stop}) /\ Stop \in Job \cup {Stop}
    BY DEF TypeOK
  <2>. QED
    BY <1>1, <2>1, ConcatSentinels
<1>3. unfinished' \in Int /\ putsLeft' \in Nat
  BY <1>1 DEF TypeOK
<1>4. /\ workerTasks' \subseteq Task
      /\ cancelled' \subseteq Task
      /\ waiters' \in Seq(Task)
      /\ closer' \in {"idle", "putting", "gathering"}
  <2>1. CASE CancelAll
    BY <2>1, EmptySeq DEF CancelAll, TypeOK
  <2>2. CASE UNCHANGED <<workerTasks, cancelled, waiters>>
             /\ closer' \in {"idle", "putting", "gathering"}
    BY <2>2 DEF TypeOK
  <2>. QED
    BY <2>1, <2>2 DEF PlaceSentinels
<1>. QED
  BY <1>1, <1>2, <1>3, <1>4

LEMMA TypeOKInit == Init => TypeOK
<1>. SUFFICES ASSUME Init PROVE TypeOK
  OBVIOUS
<1>1. /\ queue \in Seq(Job \cup {Stop}) /\ Len(queue) <= MaxQueue
      /\ waiters \in Seq(Task)
  BY QueueAssumption, EmptySeq DEF Init
<1>2. shutdown \in BOOLEAN /\ closerWaits \in BOOLEAN
  BY DEF Init
<1>. QED
  BY <1>1, <1>2, QueueAssumption DEF Init, TypeOK, Status, PC

LEMMA TypeOKStep == TypeOK /\ [Next]_vars => TypeOK'
<1>. SUFFICES ASSUME TypeOK, [Next]_vars
              PROVE  TypeOK'
  OBVIOUS
<1>. USE DEF Status, PC, Outcome
<1>1. ASSUME NEW j \in Job, Store(j)
      PROVE  TypeOK'
  BY <1>1 DEF Store, TypeOK, queueVars, workerVars, closerVars
<1>2. ASSUME NEW j \in Job, SubmitAccepts(j)
      PROVE  TypeOK'
  <2>1. queue' \in Seq(Job \cup {Stop}) /\ Len(queue') <= MaxQueue
    BY <1>2, QueueAssumption DEF SubmitAccepts, HasRoom, Put, TypeOK
  <2>. QED
    BY <1>2, <2>1 DEF SubmitAccepts, TypeOK, workerVars, closerVars
<1>3. ASSUME NEW j \in Job, SubmitRejects(j)
      PROVE  TypeOK'
  BY <1>3 DEF SubmitRejects, TypeOK, queueVars, workerVars, closerVars
<1>4. CASE Start
  BY <1>4 DEF Start, Unborn, TypeOK, callerVars, queueVars
<1>5. ASSUME NEW t \in Task, Loop(t)
      PROVE  TypeOK'
  <2>1. CASE LoopExit(t) \/ Park(t)
    BY <2>1 DEF LoopExit, Park, Goto, TypeOK, callerVars, queueVars, closerVars
  <2>2. CASE TakeSentinel(t)
    <3>1. queue' \in Seq(Job \cup {Stop}) /\ Len(queue') <= MaxQueue
      BY <2>2, QueueAssumption DEF TakeSentinel, MayTake, TypeOK
    <3>. QED
      BY <2>2, <3>1 DEF TakeSentinel, Goto, TypeOK, callerVars, closerVars
  <2>3. CASE TakeJob(t)
    <3>1. /\ queue' \in Seq(Job \cup {Stop}) /\ Len(queue') <= MaxQueue
          /\ Head(queue) \in Job
      BY <2>3, QueueAssumption DEF TakeJob, MayTake, TypeOK
    <3>2. waiters' \in Seq(Task)
      BY <2>3 DEF TakeJob, TypeOK
    <3>. QED
      BY <2>3, <3>1, <3>2 DEF TakeJob, Goto, TypeOK, callerVars, closerVars
  <2>. QED
    BY <1>5, <2>1, <2>2, <2>3 DEF Loop
<1>6. ASSUME NEW t \in Task, Execute(t)
      PROVE  TypeOK'
  <2>1. CASE Acquire(t)
    <3>1. waiters' \in Seq(Task)
      BY <2>1 DEF Acquire, MayAcquire, TypeOK
    <3>. QED
      BY <2>1, <3>1 DEF Acquire, Goto, TypeOK, callerVars, queueVars, closerVars
  <2>2. CASE AcquireOrphan(t)
    <3>1. waiters' \in Seq(Task)
      BY <2>2 DEF AcquireOrphan, MayAcquire, TypeOK
    <3>. QED
      BY <2>2, <3>1 DEF AcquireOrphan, Goto, TypeOK, callerVars, closerVars
  <2>3. CASE CallbackReturns(t)
    BY <2>3 DEF CallbackReturns, Released, Goto, TypeOK, closerVars
  <2>4. ASSUME NEW outcome \in Outcome, HandlerReturns(t, outcome)
        PROVE  TypeOK'
    BY <2>4 DEF HandlerReturns, Goto, TypeOK, queueVars, closerVars
  <2>. QED
    BY <1>6, <2>1, <2>2, <2>3, <2>4 DEF Execute
<1>7. ASSUME NEW t \in Task, Timeout(t)
      PROVE  TypeOK'
  BY <1>7 DEF Timeout, Goto, TypeOK, callerVars, queueVars, closerVars
<1>8. ASSUME NEW t \in Task, CancelDelivered(t)
      PROVE  TypeOK'
  BY <1>8 DEF CancelDelivered, Released, Goto, TypeOK, callerVars, queueVars, closerVars
<1>9. ASSUME NEW wait \in BOOLEAN, Shutdown(wait)
      PROVE  TypeOK'
  <2>1. PlaceSentinels(Cardinality(workerTasks), wait)
    BY <1>9 DEF Shutdown
  <2>. QED
    BY <1>9, <2>1, WorkersCount, PlaceSentinelsKeepsTypes
       DEF Shutdown, TypeOK, callerVars
<1>10. CASE ShutdownResumes
  <2>1. PlaceSentinels(putsLeft, closerWaits) /\ putsLeft \in Nat
    BY <1>10 DEF ShutdownResumes, TypeOK
  <2>. QED
    BY <1>10, <2>1, PlaceSentinelsKeepsTypes DEF ShutdownResumes, TypeOK, callerVars
<1>11. CASE GatherReturns
  BY <1>11 DEF GatherReturns, TypeOK, callerVars, queueVars, workerVars
<1>12. CASE UNCHANGED vars
  BY <1>12 DEF vars, TypeOK, callerVars, queueVars, workerVars, closerVars
<1>. QED
  BY <1>1, <1>2, <1>3, <1>4, <1>5, <1>6, <1>7, <1>8, <1>9, <1>10, <1>11, <1>12
     DEF Next, Create, Work, Close

(* Every variable of JobQueue keeps its type, and the queue never holds more
   than max_queue_size items, sentinels included. *)
THEOREM TypeCorrect == Spec => []TypeOK
BY TypeOKInit, TypeOKStep, PTL DEF Spec

-----------------------------------------------------------------------------
(* The inductive invariant *)

LEMMA QueuedAreJobs ==
  ASSUME TypeOK
  PROVE  Queued \subseteq Job
BY DEF TypeOK, Queued, Items

(* What the queue operations do to the set of queued jobs. *)
LEMMA QueuedWhenPut ==
  ASSUME TypeOK, NEW j \in Job, queue' = Append(queue, j)
  PROVE  /\ Queued' = Queued \cup {j}
         /\ NoRepeat(queue) /\ j \notin Queued => NoRepeat(queue')
<1>1. queue \in Seq(Job \cup {Stop}) /\ j \in Job \cup {Stop} /\ j # Stop
  BY QueueAssumption DEF TypeOK
<1>2. Items(queue') = Items(queue) \cup {j}
  BY <1>1, ItemsOfAppend
<1>3. NoRepeat(queue) /\ j \notin Items(queue) => NoRepeat(queue')
  BY <1>1, NoRepeatOfAppend
<1>. QED
  BY <1>1, <1>2, <1>3 DEF Queued

LEMMA QueuedWhenTaken ==
  ASSUME TypeOK, queue # <<>>, queue' = Tail(queue), NoRepeat(queue)
  PROVE  /\ NoRepeat(queue')
         /\ Head(queue) = Stop => Queued' = Queued
         /\ Head(queue) # Stop => /\ Head(queue) \in Job
                                  /\ Head(queue) \in Queued
                                  /\ Queued' = Queued \ {Head(queue)}
<1>1. queue \in Seq(Job \cup {Stop})
  BY DEF TypeOK
<1>2. /\ Head(queue) \in Items(queue)
      /\ Items(queue) = Items(queue') \cup {Head(queue)}
  BY <1>1, ItemsOfTail
<1>3. /\ NoRepeat(queue')
      /\ Head(queue) # Stop => Head(queue) \notin Items(queue')
  BY <1>1, NoRepeatOfTail
<1>4. Head(queue) \in Job \cup {Stop}
  BY <1>1
<1>. QED
  BY <1>2, <1>3, <1>4 DEF Queued

LEMMA QueuedWhenClosing ==
  ASSUME TypeOK, NoRepeat(queue), NEW n \in Nat, NEW wait, PlaceSentinels(n, wait)
  PROVE  NoRepeat(queue') /\ Queued' = Queued
<1>1. PICK fit \in Nat : queue' = queue \o Sentinels(fit)
  BY SentinelsFit
<1>2. queue \in Seq(Job \cup {Stop}) /\ Stop \in Job \cup {Stop}
  BY DEF TypeOK
<1>. QED
  BY <1>1, <1>2, ItemsOfSentinels, NoRepeatOfSentinels DEF Queued

(* A step that moves workers between places where they have no job, or starts
   a job that has an entry, and leaves the jobs alone keeps the invariant. *)
LEMMA FrameStep ==
  ASSUME QueueInv, UNCHANGED <<store, caller, job>>,
         Queued' = Queued, NoRepeat(queue'), pc' \in [Task -> PC],
         \A t \in Task :
           \/ pc'[t] = pc[t]
           \/ pc[t] \in {"unborn", "top", "get"} /\ pc'[t] \in {"top", "get", "ended"}
           \/ pc[t] = "acquire" /\ pc'[t] = "handler" /\ job[t] \notin Orphans
  PROVE  /\ JobsMatchPC' /\ OnePlace' /\ TakenWereAccepted'
         /\ StoreMatchesCaller' /\ PendingIsOwed'
<1>. USE DEF QueueInv
<1>1. JobsMatchPC'
  BY DEF JobsMatchPC
<1>2. OnePlace'
  BY DEF OnePlace
<1>3. TakenWereAccepted'
  BY DEF TakenWereAccepted
<1>4. StoreMatchesCaller'
  BY DEF StoreMatchesCaller, Holding
<1>5. PendingIsOwed'
  <2>1. \A t \in Task : job[t] \in Job => (pc'[t] = "callback" <=> pc[t] = "callback")
    BY QueueAssumption DEF JobsMatchPC
  <2>. QED
    BY <2>1 DEF PendingIsOwed, Holds
<1>. QED
  BY <1>1, <1>2, <1>3, <1>4, <1>5

(* The steps of the creators. *)
LEMMA CreateStep ==
  ASSUME QueueInv, Create
  PROVE  /\ JobsMatchPC' /\ OnePlace' /\ TakenWereAccepted'
         /\ StoreMatchesCaller' /\ PendingIsOwed'
<1>. USE DEF QueueInv
<1>1. ASSUME NEW j \in Job, Store(j)
      PROVE  /\ JobsMatchPC' /\ OnePlace' /\ TakenWereAccepted'
             /\ StoreMatchesCaller' /\ PendingIsOwed'
  <2>1. /\ j \notin Orphans /\ caller[j] = "idle"
        /\ caller' = [caller EXCEPT ![j] = "stored"]
        /\ store' = [store EXCEPT ![j] = "pending"]
        /\ UNCHANGED <<queue, pc, job>>
    BY <1>1 DEF Store, queueVars, workerVars
  <2>2. JobsMatchPC' /\ OnePlace'
    BY <2>1 DEF JobsMatchPC, OnePlace, Queued
  <2>3. TakenWereAccepted'
    BY <2>1, QueueAssumption DEF TakenWereAccepted, Queued, TypeOK
  <2>4. StoreMatchesCaller'
    BY <2>1 DEF StoreMatchesCaller, Holding, TypeOK
  <2>5. PendingIsOwed'
    BY <2>1 DEF PendingIsOwed, Queued, Holds, TypeOK
  <2>. QED
    BY <2>2, <2>3, <2>4, <2>5
<1>2. ASSUME NEW j \in Job, SubmitAccepts(j)
      PROVE  /\ JobsMatchPC' /\ OnePlace' /\ TakenWereAccepted'
             /\ StoreMatchesCaller' /\ PendingIsOwed'
  <2>1. /\ caller[j] = IF j \in Orphans THEN "idle" ELSE "stored"
        /\ caller' = [caller EXCEPT ![j] = "accepted"]
        /\ queue' = Append(queue, j)
        /\ UNCHANGED <<store, pc, job>>
    BY <1>2 DEF SubmitAccepts, MaySubmit, Put, workerVars
  <2>2. j \notin Queued /\ \A t \in Task : job[t] # j
    BY <2>1, QueueAssumption DEF TakenWereAccepted
  <2>3. Queued' = Queued \cup {j} /\ NoRepeat(queue')
    BY <2>1, <2>2, QueuedWhenPut DEF OnePlace
  <2>4. JobsMatchPC'
    BY <2>1 DEF JobsMatchPC
  <2>5. OnePlace'
    BY <2>1, <2>2, <2>3 DEF OnePlace
  <2>6. TakenWereAccepted'
    BY <2>1, <2>3 DEF TakenWereAccepted, TypeOK
  <2>7. StoreMatchesCaller'
    BY <2>1 DEF StoreMatchesCaller, Holding, TypeOK
  <2>8. PendingIsOwed'
    BY <2>1, <2>3 DEF PendingIsOwed, StoreMatchesCaller, Holds, TypeOK
  <2>. QED
    BY <2>4, <2>5, <2>6, <2>7, <2>8
<1>3. ASSUME NEW j \in Job, SubmitRejects(j)
      PROVE  /\ JobsMatchPC' /\ OnePlace' /\ TakenWereAccepted'
             /\ StoreMatchesCaller' /\ PendingIsOwed'
  <2>1. /\ caller[j] = IF j \in Orphans THEN "idle" ELSE "stored"
        /\ caller' = [caller EXCEPT ![j] = "rejected"]
        /\ store' = IF j \in Orphans THEN store ELSE [store EXCEPT ![j] = "failed"]
        /\ UNCHANGED <<queue, pc, job>>
    BY <1>3 DEF SubmitRejects, MaySubmit, queueVars, workerVars
  <2>2. JobsMatchPC' /\ OnePlace'
    BY <2>1 DEF JobsMatchPC, OnePlace, Queued
  <2>3. TakenWereAccepted'
    BY <2>1, QueueAssumption DEF TakenWereAccepted, Queued, TypeOK
  <2>4. StoreMatchesCaller'
    BY <2>1 DEF StoreMatchesCaller, Holding, TypeOK
  <2>5. PendingIsOwed'
    BY <2>1 DEF PendingIsOwed, Queued, Holds, TypeOK
  <2>. QED
    BY <2>2, <2>3, <2>4, <2>5
<1>. QED
  BY <1>1, <1>2, <1>3 DEF Create

(* A worker takes an item. *)
LEMMA TakeStep ==
  ASSUME QueueInv, NEW t \in Task, TakeSentinel(t) \/ TakeJob(t)
  PROVE  /\ JobsMatchPC' /\ OnePlace' /\ TakenWereAccepted'
         /\ StoreMatchesCaller' /\ PendingIsOwed'
<1>. USE DEF QueueInv
<1>1. /\ queue # <<>> /\ queue' = Tail(queue)
      /\ pc[t] \in {"top", "get"} /\ job[t] = NoJob
      /\ UNCHANGED <<store, caller>>
  BY DEF TakeSentinel, TakeJob, MayTake, callerVars, JobsMatchPC
<1>2. /\ NoRepeat(queue')
      /\ Head(queue) = Stop => Queued' = Queued
      /\ Head(queue) # Stop => /\ Head(queue) \in Job
                               /\ Head(queue) \in Queued
                               /\ Queued' = Queued \ {Head(queue)}
  BY <1>1, QueuedWhenTaken DEF OnePlace
<1>3. CASE TakeSentinel(t)
  BY <1>1, <1>2, <1>3, FrameStep DEF TakeSentinel, Goto, TypeOK, PC
<1>4. CASE TakeJob(t)
  <2>. DEFINE j == Head(queue)
  <2>1. /\ j \in Job /\ j \in Queued /\ Queued' = Queued \ {j}
        /\ job' = [job EXCEPT ![t] = j]
        /\ pc' = [pc EXCEPT ![t] = "acquire"]
    BY <1>2, <1>4 DEF TakeJob, Goto
  <2>. HIDE DEF j
  <2>2. JobsMatchPC'
    BY <2>1 DEF JobsMatchPC, TypeOK
  <2>3. OnePlace'
    BY <1>2, <2>1, QueueAssumption DEF OnePlace, TypeOK
  <2>4. TakenWereAccepted'
    BY <1>1, <2>1 DEF TakenWereAccepted, TypeOK
  <2>5. StoreMatchesCaller'
    BY <1>1, <2>1 DEF StoreMatchesCaller, Holding, TypeOK
  <2>6. PendingIsOwed'
    <3>1. ASSUME NEW k \in Job
          PROVE  (\/ k \in Queued'
                  \/ \E u \in Task : job'[u] = k /\ pc'[u] # "callback")
                 <=> (\/ k \in Queued
                      \/ \E u \in Task : job[u] = k /\ pc[u] # "callback")
      BY <1>1, <2>1, QueueAssumption DEF TypeOK
    <3>. QED
      BY <1>1, <3>1 DEF PendingIsOwed, Holds
  <2>. QED
    BY <2>2, <2>3, <2>4, <2>5, <2>6
<1>. QED
  BY <1>3, <1>4

(* A worker executes a job. *)
LEMMA ExecuteStep ==
  ASSUME QueueInv, NEW t \in Task, Execute(t)
  PROVE  /\ JobsMatchPC' /\ OnePlace' /\ TakenWereAccepted'
         /\ StoreMatchesCaller' /\ PendingIsOwed'
<1>. USE DEF QueueInv
<1>1. CASE Acquire(t)
  <2>1. /\ pc[t] = "acquire" /\ job[t] \in Job /\ store[job[t]] # "absent"
        /\ pc' = [pc EXCEPT ![t] = "handler"]
        /\ UNCHANGED <<store, caller, job, queue>>
    BY <1>1 DEF Acquire, MayAcquire, InStore, Goto, callerVars, queueVars, JobsMatchPC
  <2>2. job[t] \notin Orphans
    BY <2>1 DEF StoreMatchesCaller
  <2>. QED
    BY <2>1, <2>2, FrameStep DEF OnePlace, Queued, TypeOK, PC
<1>2. CASE AcquireOrphan(t)
  <2>1. /\ pc[t] = "acquire" /\ job[t] \in Job /\ store[job[t]] = "absent"
        /\ pc' = [pc EXCEPT ![t] = "top"]
        /\ job' = [job EXCEPT ![t] = NoJob]
        /\ UNCHANGED <<store, caller, queue>>
    BY <1>2 DEF AcquireOrphan, MayAcquire, InStore, Goto, callerVars, JobsMatchPC
  <2>2. job[t] \in Orphans
    BY <2>1, QueueAssumption DEF StoreMatchesCaller, TakenWereAccepted
  <2>3. JobsMatchPC'
    BY <2>1 DEF JobsMatchPC, TypeOK
  <2>4. OnePlace'
    <3>1. Queued' = Queued /\ NoJob \notin Queued
      BY <2>1, QueuedAreJobs, QueueAssumption DEF Queued
    <3>. QED
      BY <2>1, <3>1 DEF OnePlace, TypeOK
  <2>5. TakenWereAccepted'
    BY <2>1 DEF TakenWereAccepted, Queued, TypeOK
  <2>6. StoreMatchesCaller'
    BY <2>1 DEF StoreMatchesCaller, Holding, TypeOK
  <2>7. PendingIsOwed'
    BY <2>1, <2>2, QueueAssumption DEF PendingIsOwed, Queued, Holds, TypeOK
  <2>. QED
    BY <2>3, <2>4, <2>5, <2>6, <2>7
<1>3. CASE CallbackReturns(t)
  <2>1. /\ pc[t] = "callback" /\ job[t] \in Job
        /\ pc' = [pc EXCEPT ![t] = "top"]
        /\ job' = [job EXCEPT ![t] = NoJob]
        /\ UNCHANGED <<store, caller, queue>>
    BY <1>3 DEF CallbackReturns, Goto, JobsMatchPC
  <2>2. JobsMatchPC'
    BY <2>1 DEF JobsMatchPC, TypeOK
  <2>3. OnePlace'
    <3>1. Queued' = Queued /\ NoJob \notin Queued
      BY <2>1, QueuedAreJobs, QueueAssumption DEF Queued
    <3>. QED
      BY <2>1, <3>1 DEF OnePlace, TypeOK
  <2>4. TakenWereAccepted'
    BY <2>1 DEF TakenWereAccepted, Queued, TypeOK
  <2>5. StoreMatchesCaller'
    BY <2>1 DEF StoreMatchesCaller, Holding, TypeOK
  <2>6. PendingIsOwed'
    BY <2>1, QueueAssumption DEF PendingIsOwed, Queued, Holds, TypeOK
  <2>. QED
    BY <2>2, <2>3, <2>4, <2>5, <2>6
<1>4. ASSUME NEW outcome \in Outcome, HandlerReturns(t, outcome)
      PROVE  /\ JobsMatchPC' /\ OnePlace' /\ TakenWereAccepted'
             /\ StoreMatchesCaller' /\ PendingIsOwed'
  <2>1. /\ pc[t] = "handler" /\ job[t] \in Job
        /\ pc' = [pc EXCEPT ![t] = "callback"]
        /\ store' = [store EXCEPT ![job[t]] = outcome]
        /\ UNCHANGED <<job, caller, queue>>
    BY <1>4 DEF HandlerReturns, Goto, queueVars, JobsMatchPC
  <2>2. /\ outcome \notin {"pending", "absent"}
        /\ caller[job[t]] = "accepted" /\ job[t] \notin Orphans
    BY <2>1, QueueAssumption DEF TakenWereAccepted, StoreMatchesCaller, Holding, Outcome
  <2>3. JobsMatchPC'
    BY <2>1 DEF JobsMatchPC, TypeOK
  <2>4. OnePlace'
    BY <2>1 DEF OnePlace, Queued
  <2>5. TakenWereAccepted'
    BY <2>1 DEF TakenWereAccepted, Queued
  <2>6. StoreMatchesCaller'
    BY <2>1, <2>2 DEF StoreMatchesCaller, Holding, TypeOK
  <2>7. PendingIsOwed'
    <3>1. ASSUME NEW k \in Job \ Orphans, k # job[t], caller[k] = "accepted"
          PROVE  store'[k] = "pending" <=>
                   \/ k \in Queued'
                   \/ \E u \in Task : job'[u] = k /\ pc'[u] # "callback"
      BY <2>1, <3>1 DEF PendingIsOwed, Queued, Holds, TypeOK
    <3>2. /\ store'[job[t]] # "pending" /\ job[t] \notin Queued'
          /\ \A u \in Task : job'[u] = job[t] => pc'[u] = "callback"
      BY <2>1, <2>2, QueueAssumption DEF OnePlace, Queued, TypeOK
    <3>. QED
      BY <2>1, <3>1, <3>2 DEF PendingIsOwed, Holds
  <2>. QED
    BY <2>3, <2>4, <2>5, <2>6, <2>7
<1>. QED
  BY <1>1, <1>2, <1>3, <1>4 DEF Execute

(* A cancellation reaches a worker. *)
LEMMA CancelStep ==
  ASSUME QueueInv, NEW t \in Task, CancelDelivered(t)
  PROVE  /\ JobsMatchPC' /\ OnePlace' /\ TakenWereAccepted'
         /\ StoreMatchesCaller' /\ PendingIsOwed'
<1>. USE DEF QueueInv
<1>1. /\ pc' = [pc EXCEPT ![t] = "ended"]
      /\ UNCHANGED <<store, caller, queue>>
  BY DEF CancelDelivered, Goto, callerVars, queueVars
<1>2. CASE pc[t] # "callback"
  <2>1. UNCHANGED job
    BY <1>2 DEF CancelDelivered
  <2>2. JobsMatchPC' /\ OnePlace' /\ TakenWereAccepted'
    BY <1>1, <2>1 DEF JobsMatchPC, OnePlace, TakenWereAccepted, Queued, TypeOK
  <2>3. StoreMatchesCaller'
    BY <1>1, <2>1 DEF StoreMatchesCaller, Holding, TypeOK
  <2>4. PendingIsOwed'
    BY <1>1, <1>2, <2>1 DEF PendingIsOwed, Queued, Holds, TypeOK
  <2>. QED
    BY <2>2, <2>3, <2>4
<1>3. CASE pc[t] = "callback"
  <2>1. job' = [job EXCEPT ![t] = NoJob] /\ job[t] \in Job
    BY <1>3 DEF CancelDelivered, JobsMatchPC
  <2>2. JobsMatchPC'
    BY <1>1, <2>1 DEF JobsMatchPC, TypeOK
  <2>3. OnePlace'
    <3>1. Queued' = Queued /\ NoJob \notin Queued
      BY <1>1, <2>1, QueuedAreJobs, QueueAssumption DEF Queued
    <3>. QED
      BY <1>1, <2>1, <3>1 DEF OnePlace, TypeOK
  <2>4. TakenWereAccepted'
    BY <1>1, <2>1 DEF TakenWereAccepted, Queued, TypeOK
  <2>5. StoreMatchesCaller'
    BY <1>1, <2>1 DEF StoreMatchesCaller, Holding, TypeOK
  <2>6. PendingIsOwed'
    BY <1>1, <1>3, <2>1, QueueAssumption DEF PendingIsOwed, Queued, Holds, TypeOK
  <2>. QED
    BY <2>2, <2>3, <2>4, <2>5, <2>6
<1>. QED
  BY <1>2, <1>3

(* start() and shutdown(). *)
LEMMA StartStep ==
  ASSUME QueueInv, Start
  PROVE  /\ JobsMatchPC' /\ OnePlace' /\ TakenWereAccepted'
         /\ StoreMatchesCaller' /\ PendingIsOwed'
<1>. USE DEF QueueInv
<1>1. PICK G \in SUBSET Unborn : pc' = [t \in Task |-> IF t \in G THEN "top" ELSE pc[t]]
  BY DEF Start
<1>2. UNCHANGED <<store, caller, job, queue>>
  BY DEF Start, callerVars, queueVars
<1>3. pc' \in [Task -> PC]
  BY <1>1 DEF TypeOK, PC
<1>4. \A t \in Task : \/ pc'[t] = pc[t]
                      \/ pc[t] = "unborn" /\ pc'[t] = "top"
  BY <1>1 DEF Unborn
<1>. QED
  BY <1>2, <1>3, <1>4, FrameStep DEF OnePlace, Queued

LEMMA CloseStep ==
  ASSUME QueueInv, Close
  PROVE  /\ JobsMatchPC' /\ OnePlace' /\ TakenWereAccepted'
         /\ StoreMatchesCaller' /\ PendingIsOwed'
<1>. USE DEF QueueInv
<1>1. UNCHANGED <<store, caller, job, pc>>
  BY DEF Close, Shutdown, ShutdownResumes, GatherReturns, callerVars, workerVars
<1>2. NoRepeat(queue') /\ Queued' = Queued
  <2>1. ASSUME NEW wait \in BOOLEAN, Shutdown(wait)
        PROVE  NoRepeat(queue') /\ Queued' = Queued
    BY <2>1, WorkersCount, QueuedWhenClosing DEF Shutdown, OnePlace
  <2>2. CASE ShutdownResumes
    BY <2>2, QueuedWhenClosing DEF ShutdownResumes, OnePlace, TypeOK
  <2>3. CASE GatherReturns
    BY <2>3 DEF GatherReturns, queueVars, OnePlace, Queued
  <2>. QED
    BY <2>1, <2>2, <2>3 DEF Close
<1>. QED
  BY <1>1, <1>2, FrameStep DEF TypeOK

LEMMA QueueInvInit == Init => QueueInv
<1>. SUFFICES ASSUME Init PROVE QueueInv
  OBVIOUS
<1>1. TypeOK
  BY TypeOKInit
<1>2. Queued = {}
  BY DEF Init, Queued, Items
<1>3. JobsMatchPC /\ OnePlace /\ TakenWereAccepted
  BY <1>2 DEF Init, JobsMatchPC, OnePlace, TakenWereAccepted, NoRepeat
<1>4. Holding = {}
  BY DEF Init, Holding
<1>5. StoreMatchesCaller
  BY <1>4, QueueAssumption DEF Init, StoreMatchesCaller
<1>6. PendingIsOwed
  BY DEF Init, PendingIsOwed
<1>. QED
  BY <1>1, <1>3, <1>5, <1>6 DEF QueueInv

LEMMA QueueInvStep == QueueInv /\ [Next]_vars => QueueInv'
<1>. SUFFICES ASSUME QueueInv, [Next]_vars
              PROVE  /\ JobsMatchPC' /\ OnePlace' /\ TakenWereAccepted'
                     /\ StoreMatchesCaller' /\ PendingIsOwed'
  BY TypeOKStep DEF QueueInv
<1>1. CASE Create
  BY <1>1, CreateStep
<1>2. CASE Start
  BY <1>2, StartStep
<1>3. ASSUME NEW t \in Task, LoopExit(t) \/ Park(t) \/ Timeout(t)
      PROVE  /\ JobsMatchPC' /\ OnePlace' /\ TakenWereAccepted'
             /\ StoreMatchesCaller' /\ PendingIsOwed'
  <2>1. /\ UNCHANGED <<store, caller, job, queue>>
        /\ pc[t] \in {"top", "get"}
        /\ \E p \in {"top", "get", "ended"} : pc' = [pc EXCEPT ![t] = p]
    BY <1>3 DEF LoopExit, Park, Timeout, Goto, callerVars, queueVars
  <2>. QED
    BY <2>1, FrameStep DEF QueueInv, OnePlace, Queued, TypeOK, PC
<1>4. ASSUME NEW t \in Task, TakeSentinel(t) \/ TakeJob(t)
      PROVE  /\ JobsMatchPC' /\ OnePlace' /\ TakenWereAccepted'
             /\ StoreMatchesCaller' /\ PendingIsOwed'
  BY <1>4, TakeStep
<1>5. ASSUME NEW t \in Task, Execute(t)
      PROVE  /\ JobsMatchPC' /\ OnePlace' /\ TakenWereAccepted'
             /\ StoreMatchesCaller' /\ PendingIsOwed'
  BY <1>5, ExecuteStep
<1>6. ASSUME NEW t \in Task, CancelDelivered(t)
      PROVE  /\ JobsMatchPC' /\ OnePlace' /\ TakenWereAccepted'
             /\ StoreMatchesCaller' /\ PendingIsOwed'
  BY <1>6, CancelStep
<1>7. CASE Close
  BY <1>7, CloseStep
<1>8. CASE UNCHANGED vars
  <2>1. UNCHANGED <<store, caller, job, queue, pc>>
    BY <1>8 DEF vars, callerVars, queueVars, workerVars
  <2>. QED
    BY <2>1, FrameStep DEF QueueInv, OnePlace, Queued, TypeOK
<1>. QED
  BY <1>1, <1>2, <1>3, <1>4, <1>5, <1>6, <1>7, <1>8 DEF Next, Work, Loop

LEMMA QueueInvariant == Spec => []QueueInv
BY QueueInvInit, QueueInvStep, PTL DEF Spec

-----------------------------------------------------------------------------
(* The theorems *)

(* A job is never at two positions of the queue, nor queued and with a
   worker, nor with two workers, through any number of shutdowns and starts:
   it is executed at most once. *)
THEOREM JobsAreInOnePlace == Spec => []OnePlace
<1>1. QueueInv => OnePlace
  BY DEF QueueInv
<1>. QED
  BY <1>1, QueueInvariant, PTL

(* The status of an accepted job is pending exactly while it is queued or
   with a worker that has not stored the outcome: workers drop no job, and
   on_complete runs only when the outcome can be read. *)
THEOREM PendingMeansOwed == Spec => []PendingIsOwed
<1>1. QueueInv => PendingIsOwed
  BY DEF QueueInv
<1>. QED
  BY <1>1, QueueInvariant, PTL

(* No step changes a status that is done or failed. *)
THEOREM OutcomesAreFinal == Spec => OutcomeIsFinal
<1>1. QueueInv /\ [Next]_vars =>
        [\A j \in Job : store[j] \in Outcome => store'[j] = store[j]]_vars
  <2>. SUFFICES ASSUME QueueInv, [Next]_vars,
                       NEW j \in Job, store[j] \in Outcome
                PROVE  store'[j] = store[j]
    OBVIOUS
  <2>. USE DEF QueueInv
  <2>1. ASSUME NEW k \in Job, Store(k) \/ SubmitAccepts(k) \/ SubmitRejects(k)
        PROVE  store'[j] = store[j]
    BY <2>1 DEF Store, SubmitAccepts, SubmitRejects, MaySubmit, StoreMatchesCaller,
                Outcome, TypeOK
  <2>2. ASSUME NEW t \in Task, NEW outcome \in Outcome, HandlerReturns(t, outcome)
        PROVE  store'[j] = store[j]
    <3>1. /\ pc[t] = "handler" /\ job[t] \in Job \ Orphans
          /\ caller[job[t]] = "accepted"
      BY <2>2, QueueAssumption
         DEF HandlerReturns, JobsMatchPC, StoreMatchesCaller, Holding, TakenWereAccepted
    <3>2. store[job[t]] = "pending"
      BY <3>1 DEF PendingIsOwed, Holds
    <3>3. job[t] # j
      BY <3>2 DEF Outcome
    <3>. QED
      BY <2>2, <3>3 DEF HandlerReturns, TypeOK
  <2>3. CASE UNCHANGED store
    BY <2>3
  <2>. QED
    BY <2>1, <2>2, <2>3
       DEF Next, Create, Start, Work, Close, Loop, Execute, LoopExit, Park, TakeSentinel,
           TakeJob, Acquire, AcquireOrphan, CallbackReturns, Timeout, CancelDelivered,
           Shutdown, ShutdownResumes, GatherReturns, callerVars, vars
<1>. QED
  BY <1>1, QueueInvariant, PTL DEF Spec, OutcomeIsFinal

-----------------------------------------------------------------------------
(* The semaphore *)

LEMMA HoldingIsFinite ==
  ASSUME TypeOK
  PROVE  IsFiniteSet(Holding) /\ Cardinality(Holding) \in Nat
BY QueueAssumption, FS_Subset, FS_CardinalityType DEF Holding

LEMMA PermitsStep ==
  TypeOK /\ ExecutionIsBounded /\ [Next]_vars => ExecutionIsBounded'
<1>. SUFFICES ASSUME TypeOK, ExecutionIsBounded, [Next]_vars
              PROVE  ExecutionIsBounded'
  OBVIOUS
<1>1. /\ IsFiniteSet(Holding) /\ Cardinality(Holding) \in Nat
      /\ permits \in Int /\ MaxWorkers \in Nat
  BY HoldingIsFinite, QueueAssumption DEF TypeOK
<1>2. ASSUME NEW t \in Task, Acquire(t)
      PROVE  ExecutionIsBounded'
  <2>1. t \notin Holding /\ Holding' = Holding \cup {t}
    BY <1>2 DEF Acquire, MayAcquire, Goto, Holding, TypeOK
  <2>2. Cardinality(Holding') = Cardinality(Holding) + 1
    BY <1>1, <2>1, FS_AddElement
  <2>. QED
    BY <1>1, <1>2, <2>2 DEF Acquire, MayAcquire, ExecutionIsBounded
<1>3. ASSUME NEW t \in Task, CallbackReturns(t)
      PROVE  ExecutionIsBounded'
  <2>1. t \in Holding /\ Holding' = Holding \ {t}
    BY <1>3 DEF CallbackReturns, Goto, Holding, TypeOK
  <2>2. Cardinality(Holding') = Cardinality(Holding) - 1
    BY <1>1, <2>1, FS_RemoveElement
  <2>. QED
    BY <1>1, <1>3, <2>2 DEF CallbackReturns, Released, ExecutionIsBounded
<1>4. ASSUME NEW t \in Task, CancelDelivered(t)
      PROVE  ExecutionIsBounded'
  <2>1. Holding' = Holding \ {t}
    BY <1>4 DEF CancelDelivered, Goto, Holding, TypeOK
  <2>2. Cardinality(Holding') = IF t \in Holding THEN Cardinality(Holding) - 1
                                                 ELSE Cardinality(Holding)
    BY <1>1, <2>1, FS_RemoveElement
  <2>. QED
    BY <1>1, <1>4, <2>2 DEF CancelDelivered, Released, ExecutionIsBounded
<1>5. CASE permits' = permits /\ Holding' = Holding
  BY <1>5 DEF ExecutionIsBounded
<1>6. ASSUME NEW t \in Task, \/ LoopExit(t) \/ Park(t) \/ TakeSentinel(t) \/ TakeJob(t)
                             \/ AcquireOrphan(t) \/ Timeout(t)
                             \/ \E outcome \in Outcome : HandlerReturns(t, outcome)
      PROVE  permits' = permits /\ Holding' = Holding
  <2>1. permits' = permits
    BY <1>6 DEF LoopExit, Park, TakeSentinel, TakeJob, AcquireOrphan, Timeout, HandlerReturns
  <2>2. \/ /\ pc[t] = "handler" /\ pc' = [pc EXCEPT ![t] = "callback"]
        \/ /\ pc[t] \in {"top", "get", "acquire"}
           /\ \E p \in {"top", "get", "acquire", "ended"} : pc' = [pc EXCEPT ![t] = p]
    BY <1>6 DEF LoopExit, Park, TakeSentinel, TakeJob, AcquireOrphan, Timeout,
                HandlerReturns, MayTake, MayAcquire, Goto
  <2>3. Holding' = Holding
    BY <2>2 DEF Holding, TypeOK
  <2>. QED
    BY <2>1, <2>3
<1>7. ASSUME Create \/ Close \/ UNCHANGED vars
      PROVE  permits' = permits /\ Holding' = Holding
  BY <1>7 DEF Create, Store, SubmitAccepts, SubmitRejects, Close, Shutdown,
              ShutdownResumes, GatherReturns, vars, workerVars, Holding
<1>8. ASSUME Start
      PROVE  permits' = permits /\ Holding' = Holding
  <2>1. PICK G \in SUBSET Unborn : pc' = [t \in Task |-> IF t \in G THEN "top" ELSE pc[t]]
    BY <1>8 DEF Start
  <2>. QED
    BY <1>8, <2>1 DEF Start, Unborn, Holding
<1>. QED
  BY <1>2, <1>3, <1>4, <1>5, <1>6, <1>7, <1>8 DEF Next, Work, Loop, Execute

(* At most max_workers jobs are in execution at any time, whatever was
   cancelled, shut down or started again meanwhile. *)
THEOREM ExecutionsAreBounded == Spec => []ExecutionIsBounded
<1>1. Init => ExecutionIsBounded
  <2>. SUFFICES ASSUME Init PROVE ExecutionIsBounded
    OBVIOUS
  <2>1. Holding = {}
    BY DEF Init, Holding
  <2>. QED
    BY <2>1, FS_EmptySet, QueueAssumption DEF Init, ExecutionIsBounded
<1>. QED
  BY <1>1, PermitsStep, TypeCorrect, PTL DEF Spec

-----------------------------------------------------------------------------
(* The list of workers *)

LEMMA ListedInit == Init => WorkersAreListed
<1>. SUFFICES ASSUME Init PROVE WorkersAreListed
  OBVIOUS
<1>1. Cardinality(workerTasks) <= MaxWorkers
  BY FS_EmptySet, QueueAssumption DEF Init
<1>. QED
  BY <1>1 DEF Init, WorkersAreListed, Live

(* Sentinels leave the list alone, or all of its workers are cancelled. *)
LEMMA ListWhenClosing ==
  ASSUME NEW n, NEW wait, PlaceSentinels(n, wait)
  PROVE  \/ UNCHANGED <<workerTasks, cancelled, waiters>>
         \/ CancelAll
BY DEF PlaceSentinels

LEMMA ListedStep ==
  TypeOK /\ WorkersAreListed /\ [Next]_vars => WorkersAreListed'
<1>. SUFFICES ASSUME TypeOK, WorkersAreListed, [Next]_vars
              PROVE  WorkersAreListed'
  OBVIOUS
<1>1. ASSUME UNCHANGED <<workerTasks, cancelled>>,
             \A t \in Task : pc'[t] = pc[t] \/ pc[t] \notin {"unborn", "ended"}
      PROVE  WorkersAreListed'
  BY <1>1 DEF WorkersAreListed, Live, Runnable
<1>2. ASSUME NEW t \in Task, Loop(t) \/ Execute(t) \/ Timeout(t) \/ CancelDelivered(t)
      PROVE  WorkersAreListed'
  <2>1. /\ UNCHANGED <<workerTasks, cancelled>>
        /\ pc[t] \notin {"unborn", "ended"}
        /\ \E p \in PC : pc' = [pc EXCEPT ![t] = p]
    BY <1>2 DEF Loop, LoopExit, Park, TakeSentinel, TakeJob, MayTake, Execute, Acquire,
                AcquireOrphan, MayAcquire, CallbackReturns, HandlerReturns, Timeout,
                CancelDelivered, Goto, closerVars, PC
  <2>. QED
    BY <2>1, <1>1 DEF TypeOK
<1>3. CASE Create \/ UNCHANGED vars
  BY <1>1, <1>3 DEF Create, Store, SubmitAccepts, SubmitRejects, vars, workerVars, closerVars
<1>4. CASE Start
  <2>1. PICK G \in SUBSET Unborn :
               /\ Cardinality(G) = MaxWorkers
               /\ workerTasks' = G
               /\ pc' = [t \in Task |-> IF t \in G THEN "top" ELSE pc[t]]
    BY <1>4 DEF Start
  <2>2. \A t \in Task : ~Live(t)
    BY <1>4 DEF Start, MayStart, WorkersAreListed
  <2>3. ASSUME NEW t \in Task, Live(t)'
        PROVE  t \in workerTasks'
    BY <1>4, <2>1, <2>2, <2>3 DEF Start, Live, Runnable
  <2>. QED
    BY <2>1, <2>3, QueueAssumption DEF WorkersAreListed
<1>5. ASSUME CancelAll, UNCHANGED pc
      PROVE  WorkersAreListed'
  <2>1. ASSUME NEW t \in Task
        PROVE  ~Live(t)'
    <3>1. Live(t)' => Live(t)
      BY <1>5 DEF CancelAll, Live, Runnable
    <3>2. Live(t) => t \in workerTasks /\ pc[t] # "ended"
      BY DEF WorkersAreListed, Live
    <3>. QED
      BY <1>5, <3>1, <3>2 DEF CancelAll, Live, Runnable
  <2>2. workerTasks' = {} /\ Cardinality({}) <= MaxWorkers
    BY <1>5, FS_EmptySet, QueueAssumption DEF CancelAll
  <2>. QED
    BY <2>1, <2>2 DEF WorkersAreListed
<1>6. CASE Close
  <2>1. ASSUME NEW wait \in BOOLEAN, Shutdown(wait)
        PROVE  WorkersAreListed'
    BY <2>1, <1>1, <1>5, ListWhenClosing DEF Shutdown
  <2>2. CASE ShutdownResumes
    BY <2>2, <1>1, <1>5, ListWhenClosing DEF ShutdownResumes
  <2>3. CASE GatherReturns
    <3>1. /\ UNCHANGED <<pc, cancelled>> /\ workerTasks' = {}
          /\ \A t \in workerTasks : pc[t] = "ended"
      BY <2>3 DEF GatherReturns, workerVars
    <3>2. Cardinality({}) <= MaxWorkers
      BY FS_EmptySet, QueueAssumption
    <3>. QED
      BY <3>1, <3>2 DEF WorkersAreListed, Live, Runnable
  <2>. QED
    BY <1>6, <2>1, <2>2, <2>3 DEF Close
<1>. QED
  BY <1>2, <1>3, <1>4, <1>6 DEF Next, Work

LEMMA CardinalityOfDisjoint ==
  ASSUME NEW S, NEW T, IsFiniteSet(S), IsFiniteSet(T), S \cap T = {}
  PROVE  Cardinality(S \cup T) = Cardinality(S) + Cardinality(T)
<1>1. Cardinality(S \cup T) = Cardinality(S) + Cardinality(T) - Cardinality(S \cap T)
  BY FS_Union
<1>2. /\ Cardinality(S \cap T) = 0
      /\ Cardinality(S) \in Nat /\ Cardinality(T) \in Nat
  BY FS_EmptySet, FS_CardinalityType
<1>. QED
  BY <1>1, <1>2

(* A task that can still run is in the list that shutdown() works from or
   was cancelled, and start() never lists more than max_workers. *)
THEOREM WorkersStayListed == Spec => []WorkersAreListed
BY ListedInit, ListedStep, TypeCorrect, PTL DEF Spec

(* Without cancelled workers there is a permit for every job taken: a job
   waits at the semaphore only for cancelled workers that still hold theirs. *)
THEOREM DelaysAreOfCancelled == Spec => []OnlyCancelledDelay
<1>1. TypeOK /\ WorkersAreListed /\ ExecutionIsBounded => OnlyCancelledDelay
  <2>. SUFFICES ASSUME TypeOK, WorkersAreListed, ExecutionIsBounded
                PROVE  OnlyCancelledDelay
    OBVIOUS
  <2>. DEFINE atSemaphore == {t \in Task : pc[t] = "acquire" /\ Runnable(t)}
              leaving == Holding \cap cancelled
              working == Holding \ cancelled
  <2>1. /\ IsFiniteSet(workerTasks) /\ IsFiniteSet(Holding)
        /\ IsFiniteSet(atSemaphore) /\ IsFiniteSet(leaving) /\ IsFiniteSet(working)
    BY QueueAssumption, FS_Subset DEF TypeOK, Holding
  <2>2. atSemaphore \cup working \subseteq workerTasks
    BY DEF Holding, WorkersAreListed, Live, Runnable
  <2>3. atSemaphore \cap working = {} /\ leaving \cap working = {}
        /\ leaving \cup working = Holding
    BY DEF Holding
  <2>. HIDE DEF atSemaphore, leaving, working
  <2>4. Cardinality(atSemaphore) + Cardinality(working) <= MaxWorkers
    <3>1. Cardinality(atSemaphore \cup working)
            = Cardinality(atSemaphore) + Cardinality(working)
      BY <2>1, <2>3, CardinalityOfDisjoint
    <3>2. Cardinality(atSemaphore \cup working) <= Cardinality(workerTasks)
      BY <2>1, <2>2, FS_Subset
    <3>3. Cardinality(workerTasks) <= MaxWorkers
      BY DEF WorkersAreListed
    <3>. QED
      BY <3>1, <3>2, <3>3, <2>1, FS_CardinalityType, FS_Union, QueueAssumption
  <2>5. Cardinality(Holding) = Cardinality(leaving) + Cardinality(working)
    BY <2>1, <2>3, CardinalityOfDisjoint
  <2>6. /\ Cardinality(atSemaphore) \in Nat /\ Cardinality(working) \in Nat
        /\ Cardinality(leaving) \in Nat /\ permits \in Int /\ MaxWorkers \in Nat
    BY <2>1, FS_CardinalityType, QueueAssumption DEF TypeOK
  <2>7. permits + Cardinality(Holding) = MaxWorkers
    BY DEF ExecutionIsBounded
  <2>8. Cardinality(atSemaphore) <= permits + Cardinality(leaving)
    BY <2>4, <2>5, <2>6, <2>7
  <2>. QED
    BY <2>8 DEF OnlyCancelledDelay, atSemaphore, leaving
<1>. QED
  BY <1>1, TypeCorrect, WorkersStayListed, ExecutionsAreBounded, PTL

-----------------------------------------------------------------------------
(* The counter of unfinished items *)

Held == {t \in Task : job[t] # NoJob}

LEMMA HeldIsFinite == IsFiniteSet(Held) /\ Cardinality(Held) \in Nat
BY QueueAssumption, FS_Subset, FS_CardinalityType DEF Held

\* The counter grows with the queue, and falls with the items that are done.
Covers == /\ unfinished >= Len(queue) + Cardinality(Held)
          /\ cancelled = {} => unfinished = Len(queue) + Cardinality(Held)

LEMMA CoversStep == QueueInv /\ Covers /\ [Next]_vars => Covers'
<1>. SUFFICES ASSUME QueueInv, Covers, [Next]_vars
              PROVE  Covers'
  OBVIOUS
<1>1. /\ IsFiniteSet(Held) /\ Cardinality(Held) \in Nat
      /\ unfinished \in Int /\ queue \in Seq(Job \cup {Stop}) /\ Len(queue) \in Nat
      /\ job \in [Task -> Job \cup {NoJob}]
  BY HeldIsFinite DEF QueueInv, TypeOK
<1>2. ASSUME UNCHANGED <<unfinished, queue, job>>, cancelled \subseteq cancelled'
      PROVE  Covers'
  BY <1>1, <1>2 DEF Covers, Held
<1>3. ASSUME NEW j \in Job, SubmitAccepts(j)
      PROVE  Covers'
  <2>1. Len(queue') = Len(queue) + 1
    BY <1>1, <1>3 DEF SubmitAccepts, Put
  <2>2. Held' = Held /\ cancelled' = cancelled /\ unfinished' = unfinished + 1
    BY <1>3 DEF SubmitAccepts, Held, workerVars, closerVars
  <2>. QED
    BY <1>1, <2>1, <2>2 DEF Covers
<1>4. ASSUME NEW t \in Task, TakeSentinel(t)
      PROVE  Covers'
  <2>1. Len(queue') = Len(queue) - 1
    BY <1>1, <1>4 DEF TakeSentinel, MayTake
  <2>2. Held' = Held /\ cancelled' = cancelled /\ unfinished' = unfinished - 1
    BY <1>4 DEF TakeSentinel, Held, closerVars
  <2>. QED
    BY <1>1, <2>1, <2>2 DEF Covers
<1>5. ASSUME NEW t \in Task, TakeJob(t)
      PROVE  Covers'
  <2>1. Len(queue') = Len(queue) - 1 /\ Head(queue) \in Job
    BY <1>1, <1>5 DEF TakeJob, MayTake
  <2>2. t \notin Held
    BY <1>5 DEF TakeJob, MayTake, Held, QueueInv, JobsMatchPC
  <2>3. Held' = Held \cup {t}
    BY <1>1, <1>5, <2>1, QueueAssumption DEF TakeJob, Held
  <2>4. Cardinality(Held') = Cardinality(Held) + 1
    BY <1>1, <2>2, <2>3, FS_AddElement
  <2>5. cancelled' = cancelled /\ unfinished' = unfinished
    BY <1>5 DEF TakeJob, closerVars
  <2>. QED
    BY <1>1, <2>1, <2>4, <2>5 DEF Covers
<1>6. ASSUME NEW t \in Task, AcquireOrphan(t) \/ CallbackReturns(t)
      PROVE  Covers'
  <2>1. /\ job' = [job EXCEPT ![t] = NoJob] /\ job[t] \in Job
        /\ unfinished' = unfinished - 1 /\ UNCHANGED <<queue, cancelled>>
    BY <1>6 DEF AcquireOrphan, MayAcquire, CallbackReturns, QueueInv, JobsMatchPC, closerVars
  <2>2. t \in Held /\ Held' = Held \ {t}
    BY <1>1, <2>1, QueueAssumption DEF Held
  <2>3. Cardinality(Held') = Cardinality(Held) - 1
    BY <1>1, <2>2, FS_RemoveElement
  <2>. QED
    BY <1>1, <2>1, <2>3 DEF Covers
<1>7. ASSUME NEW t \in Task, CancelDelivered(t)
      PROVE  Covers'
  <2>1. /\ job' = job \/ job' = [job EXCEPT ![t] = NoJob]
        /\ UNCHANGED <<unfinished, queue, cancelled>> /\ cancelled # {}
    BY <1>7 DEF CancelDelivered, queueVars, closerVars
  <2>2. Held' \subseteq Held
    BY <1>1, <2>1 DEF Held
  <2>3. Cardinality(Held') \in Nat /\ Cardinality(Held') <= Cardinality(Held)
    BY <1>1, <2>2, FS_Subset, FS_CardinalityType
  <2>. QED
    BY <1>1, <2>1, <2>3 DEF Covers
<1>8. ASSUME NEW n \in Nat, NEW wait, PlaceSentinels(n, wait), UNCHANGED job
      PROVE  Covers'
  <2>1. PICK fit \in Nat : /\ queue' = queue \o Sentinels(fit)
                           /\ unfinished' = unfinished + fit
    BY <1>8, SentinelsFit DEF QueueInv
  <2>2. Len(queue') = Len(queue) + fit
    BY <1>1, <2>1, ConcatSentinels
  <2>3. Held' = Held /\ (cancelled' = {} => cancelled = {})
    BY <1>8, ListWhenClosing DEF Held, CancelAll
  <2>4. unfinished' = unfinished + fit
    BY <2>1
  <2>. QED
    BY <1>1, <2>2, <2>3, <2>4 DEF Covers
<1>9. CASE Close
  <2>1. ASSUME NEW wait \in BOOLEAN, Shutdown(wait)
        PROVE  Covers'
    BY <2>1, <1>8, WorkersCount DEF Shutdown, QueueInv
  <2>2. CASE ShutdownResumes
    BY <2>2, <1>8 DEF ShutdownResumes, QueueInv, TypeOK
  <2>3. CASE GatherReturns
    BY <2>3, <1>2 DEF GatherReturns, queueVars, workerVars
  <2>. QED
    BY <1>9, <2>1, <2>2, <2>3 DEF Close
<1>10. CASE Start \/ UNCHANGED vars
  BY <1>10, <1>2 DEF Start, vars, queueVars, workerVars, closerVars
<1>11. ASSUME NEW j \in Job, Store(j) \/ SubmitRejects(j)
       PROVE  Covers'
  BY <1>11, <1>2 DEF Store, SubmitRejects, queueVars, workerVars, closerVars
<1>12. ASSUME NEW t \in Task, LoopExit(t) \/ Park(t) \/ Timeout(t) \/ Acquire(t)
       PROVE  Covers'
  BY <1>12, <1>2 DEF LoopExit, Park, Timeout, Acquire, queueVars, closerVars
<1>13. ASSUME NEW t \in Task, NEW outcome \in Outcome, HandlerReturns(t, outcome)
       PROVE  Covers'
  BY <1>13, <1>2 DEF HandlerReturns, queueVars, closerVars
<1>. QED
  BY <1>3, <1>4, <1>5, <1>6, <1>7, <1>9, <1>10, <1>11, <1>12, <1>13
     DEF Next, Create, Work, Loop, Execute

(* The counter behind task_done() never falls below the items queued or in
   work, so no task_done() raises, and it is exact until a worker has been
   cancelled. *)
THEOREM CounterCoversItems == Spec => []UnfinishedCoversItems
<1>1. Init => Covers
  <2>. SUFFICES ASSUME Init PROVE Covers
    OBVIOUS
  <2>1. Held = {}
    BY DEF Init, Held
  <2>. QED
    BY <2>1, FS_EmptySet DEF Init, Covers
<1>2. Covers => UnfinishedCoversItems
  BY DEF Covers, Held, UnfinishedCoversItems
<1>. QED
  BY <1>1, <1>2, CoversStep, QueueInvariant, PTL DEF Spec

-----------------------------------------------------------------------------
(* The order of acceptance.  Jobs pass from the queue to the line at the   *)
(* semaphore, and both are sorted by ticket.                               *)

AtSemaphore == {t \in Task : pc[t] = "acquire" /\ Runnable(t)}

\* The line at the semaphore is that of the workers that can still go on.
LineMatches == Items(waiters) = AtSemaphore

TicketsBounded == \A j \in Job : ticket[j] <= clock

QueueInOrder ==
  \A i, k \in DOMAIN queue : i < k /\ queue[i] # Stop /\ queue[k] # Stop =>
    ticket[queue[i]] < ticket[queue[k]]

LineInOrder ==
  \A i, k \in DOMAIN waiters : i < k => ticket[job[waiters[i]]] < ticket[job[waiters[k]]]

TakenBeforeQueued ==
  \A t \in AtSemaphore : \A j \in Queued : ticket[job[t]] < ticket[j]

OrderInv ==
  /\ LineMatches /\ TicketsBounded /\ QueueInOrder /\ LineInOrder /\ TakenBeforeQueued

LEMMA LineOnlyAtSemaphore ==
  ASSUME TypeOK
  PROVE  /\ DOMAIN waiters = 1..Len(waiters) /\ Len(waiters) \in Nat
         /\ AtSemaphore \subseteq Task
         /\ DOMAIN queue = 1..Len(queue) /\ Len(queue) \in Nat
         /\ ticket \in [Job -> Nat] /\ clock \in Nat
BY DEF TypeOK, AtSemaphore

(* A step that leaves the line at the semaphore alone and puts no new job
   into the queue. *)
LEMMA OrderFrame ==
  ASSUME OrderInv, UNCHANGED <<ticket, clock, waiters>>,
         AtSemaphore' = AtSemaphore, \A t \in AtSemaphore : job'[t] = job[t],
         QueueInOrder', Queued' \subseteq Queued
  PROVE  OrderInv'
<1>. USE DEF OrderInv
<1>1. LineMatches' /\ TicketsBounded'
  BY DEF LineMatches, TicketsBounded, Items
<1>2. \A i \in DOMAIN waiters : waiters[i] \in AtSemaphore
  BY DEF LineMatches, Items
<1>3. LineInOrder'
  BY <1>2 DEF LineInOrder
<1>4. TakenBeforeQueued'
  BY DEF TakenBeforeQueued
<1>. QED
  BY <1>1, <1>3, <1>4

LEMMA QueueOrderOfTail ==
  ASSUME TypeOK, QueueInOrder, queue # <<>>, queue' = Tail(queue), UNCHANGED ticket
  PROVE  /\ QueueInOrder'
         /\ Head(queue) # Stop =>
              \A j \in Items(queue') \ {Stop} : ticket[Head(queue)] < ticket[j]
<1>1. /\ DOMAIN queue = 1..Len(queue) /\ Len(queue) \in Nat /\ Len(queue) > 0
      /\ Head(queue) = queue[1]
      /\ DOMAIN queue' = 1..(Len(queue) - 1)
      /\ \A i \in 1..(Len(queue) - 1) : queue'[i] = queue[i + 1]
  BY DEF TypeOK
<1>2. ASSUME NEW i \in DOMAIN queue', NEW k \in DOMAIN queue', i < k,
             queue'[i] # Stop, queue'[k] # Stop
      PROVE  ticket'[queue'[i]] < ticket'[queue'[k]]
  <2>1. /\ i + 1 \in DOMAIN queue /\ k + 1 \in DOMAIN queue /\ i + 1 < k + 1
        /\ queue'[i] = queue[i + 1] /\ queue'[k] = queue[k + 1]
    BY <1>1, <1>2
  <2>. QED
    BY <1>2, <2>1 DEF QueueInOrder
<1>3. ASSUME Head(queue) # Stop, NEW k \in DOMAIN queue', queue'[k] # Stop
      PROVE  ticket[Head(queue)] < ticket[queue'[k]]
  <2>1. /\ 1 \in DOMAIN queue /\ k + 1 \in DOMAIN queue /\ 1 < k + 1
        /\ queue'[k] = queue[k + 1]
    BY <1>1
  <2>. QED
    BY <1>1, <1>3, <2>1 DEF QueueInOrder
<1>. QED
  BY <1>2, <1>3 DEF QueueInOrder, Items

LEMMA QueueOrderOfSentinels ==
  ASSUME TypeOK, QueueInOrder, NEW n \in Nat, queue' = queue \o Sentinels(n),
         UNCHANGED ticket
  PROVE  QueueInOrder'
<1>1. queue \in Seq(Job \cup {Stop}) /\ Stop \in Job \cup {Stop}
  BY DEF TypeOK
<1>2. /\ queue' \in Seq(Job \cup {Stop}) /\ Len(queue') = Len(queue) + n
      /\ \A i \in 1..(Len(queue) + n) :
           queue'[i] = IF i <= Len(queue) THEN queue[i] ELSE Stop
  BY <1>1, ConcatSentinels
<1>3. /\ DOMAIN queue' = 1..(Len(queue) + n) /\ DOMAIN queue = 1..Len(queue)
      /\ Len(queue) \in Nat
  BY <1>1, <1>2
<1>4. ASSUME NEW i \in DOMAIN queue', queue'[i] # Stop
      PROVE  i \in DOMAIN queue /\ queue'[i] = queue[i]
  BY <1>2, <1>3, <1>4
<1>. QED
  BY <1>4 DEF QueueInOrder

(* submit(): the new job gets the next ticket. *)
LEMMA SubmitKeepsOrder ==
  ASSUME QueueInv, OrderInv, NEW j \in Job, SubmitAccepts(j)
  PROVE  OrderInv'
<1>. USE DEF QueueInv, OrderInv
<1>1. /\ queue' = Append(queue, j) /\ clock' = clock + 1
      /\ ticket' = [ticket EXCEPT ![j] = clock + 1]
      /\ UNCHANGED <<pc, job, waiters, cancelled>>
      /\ caller[j] # "accepted"
  BY DEF SubmitAccepts, Put, MaySubmit, workerVars, closerVars
<1>2. j \notin Queued /\ \A t \in Task : job[t] # j
  BY <1>1, QueueAssumption DEF TakenWereAccepted
<1>3. /\ ticket \in [Job -> Nat] /\ clock \in Nat /\ Len(queue) \in Nat
      /\ DOMAIN queue = 1..Len(queue)
      /\ DOMAIN queue' = 1..(Len(queue) + 1)
      /\ \A i \in 1..Len(queue) : queue'[i] = queue[i]
      /\ queue'[Len(queue) + 1] = j
  BY <1>1 DEF TypeOK
<1>4. AtSemaphore' = AtSemaphore
  BY <1>1 DEF AtSemaphore, Runnable
<1>5. /\ \A i \in DOMAIN waiters : job[waiters[i]] \in Job \ {j}
      /\ \A t \in AtSemaphore : job[t] \in Job \ {j}
  BY <1>2 DEF LineMatches, Items, AtSemaphore, JobsMatchPC
<1>6. LineMatches' /\ TicketsBounded'
  BY <1>1, <1>3, <1>4 DEF LineMatches, TicketsBounded, Items
<1>7. LineInOrder'
  BY <1>1, <1>3, <1>5 DEF LineInOrder
<1>8. QueueInOrder'
  <2>. SUFFICES ASSUME NEW i \in DOMAIN queue', NEW k \in DOMAIN queue', i < k,
                       queue'[i] # Stop, queue'[k] # Stop
                PROVE  ticket'[queue'[i]] < ticket'[queue'[k]]
    BY DEF QueueInOrder
  <2>1. i \in DOMAIN queue /\ queue'[i] = queue[i] /\ queue[i] \in Job \ {j}
    <3>1. i \in DOMAIN queue /\ queue'[i] = queue[i]
      BY <1>3
    <3>2. queue[i] \in Queued
      BY <3>1 DEF Queued, Items
    <3>. QED
      BY <3>1, <3>2, <1>2, QueuedAreJobs
  <2>2. CASE k = Len(queue) + 1
    BY <2>1, <2>2, <1>1, <1>3 DEF TicketsBounded
  <2>3. CASE k # Len(queue) + 1
    <3>1. k \in DOMAIN queue /\ queue'[k] = queue[k]
      BY <1>3, <2>3
    <3>2. queue[k] \in Queued
      BY <3>1 DEF Queued, Items
    <3>3. queue[k] \in Job \ {j}
      BY <3>2, <1>2, QueuedAreJobs
    <3>. QED
      BY <3>1, <3>3, <2>1, <1>1, <1>3 DEF QueueInOrder
  <2>. QED
    BY <2>2, <2>3
<1>9. TakenBeforeQueued'
  <2>1. Queued' = Queued \cup {j}
    BY <1>1, QueuedWhenPut
  <2>2. ASSUME NEW t \in AtSemaphore, NEW k \in Queued
        PROVE  ticket'[job[t]] < ticket'[k]
    BY <1>1, <1>2, <1>3, <1>5, QueuedAreJobs DEF TakenBeforeQueued
  <2>3. ASSUME NEW t \in AtSemaphore
        PROVE  ticket'[job[t]] < ticket'[j]
    BY <1>1, <1>3, <1>5 DEF TicketsBounded
  <2>. QED
    BY <1>1, <1>4, <2>1, <2>2, <2>3 DEF TakenBeforeQueued
<1>. QED
  BY <1>6, <1>7, <1>8, <1>9

(* A worker takes the head of the queue to the end of the line. *)
LEMMA TakeKeepsOrder ==
  ASSUME QueueInv, OrderInv, NEW t \in Task, TakeJob(t)
  PROVE  OrderInv'
<1>. USE DEF QueueInv, OrderInv
<1>. DEFINE j == Head(queue)
<1>1. /\ queue # <<>> /\ j # Stop /\ queue' = Tail(queue)
      /\ job' = [job EXCEPT ![t] = j]
      /\ waiters' = Append(waiters, t)
      /\ pc' = [pc EXCEPT ![t] = "acquire"]
      /\ UNCHANGED <<ticket, clock, cancelled>>
      /\ Runnable(t) /\ pc[t] # "acquire"
  BY DEF TakeJob, MayTake, Goto, callerVars, closerVars
<1>2. /\ j \in Queued /\ j \in Job /\ Queued' = Queued \ {j}
  BY <1>1, QueuedWhenTaken DEF OnePlace
<1>3. /\ QueueInOrder'
      /\ \A k \in Queued' : ticket[j] < ticket[k]
  BY <1>1, QueueOrderOfTail DEF Queued
<1>. HIDE DEF j
<1>4. /\ waiters \in Seq(Task) /\ Len(waiters) \in Nat
      /\ DOMAIN waiters = 1..Len(waiters)
      /\ DOMAIN waiters' = 1..(Len(waiters) + 1)
      /\ \A i \in 1..Len(waiters) : waiters'[i] = waiters[i]
      /\ waiters'[Len(waiters) + 1] = t
      /\ Items(waiters') = Items(waiters) \cup {t}
  BY <1>1, ItemsOfAppend DEF TypeOK
<1>5. AtSemaphore' = AtSemaphore \cup {t} /\ t \notin AtSemaphore
  BY <1>1 DEF AtSemaphore, Runnable, TypeOK
<1>6. /\ \A i \in DOMAIN waiters : waiters[i] \in AtSemaphore
      /\ \A u \in AtSemaphore : job'[u] = job[u] /\ ticket[job[u]] < ticket[j]
      /\ job'[t] = j
  BY <1>1, <1>2, <1>5 DEF LineMatches, Items, TakenBeforeQueued, TypeOK, AtSemaphore
<1>7. LineMatches' /\ TicketsBounded'
  BY <1>1, <1>4, <1>5 DEF LineMatches, TicketsBounded
<1>8. LineInOrder'
  <2>. SUFFICES ASSUME NEW i \in DOMAIN waiters', NEW k \in DOMAIN waiters', i < k
                PROVE  ticket[job'[waiters'[i]]] < ticket[job'[waiters'[k]]]
    BY <1>1 DEF LineInOrder
  <2>1. i \in DOMAIN waiters /\ waiters'[i] = waiters[i]
    BY <1>4
  <2>2. CASE k = Len(waiters) + 1
    BY <2>1, <2>2, <1>4, <1>6
  <2>3. CASE k # Len(waiters) + 1
    <3>1. k \in DOMAIN waiters /\ waiters'[k] = waiters[k]
      BY <2>3, <1>4
    <3>. QED
      BY <2>1, <3>1, <1>6 DEF LineInOrder
  <2>. QED
    BY <2>2, <2>3
<1>9. TakenBeforeQueued'
  BY <1>1, <1>2, <1>3, <1>5, <1>6 DEF TakenBeforeQueued
<1>. QED
  BY <1>3, <1>7, <1>8, <1>9

(* A worker leaves the line at the semaphore from its head. *)
LEMMA AcquireKeepsOrder ==
  ASSUME QueueInv, OrderInv, NEW t \in Task, Acquire(t) \/ AcquireOrphan(t)
  PROVE  OrderInv'
<1>. USE DEF QueueInv, OrderInv
<1>1. /\ pc[t] = "acquire" /\ waiters # <<>> /\ Head(waiters) = t
      /\ waiters' = Tail(waiters)
      /\ \E p \in {"handler", "top"} : pc' = [pc EXCEPT ![t] = p]
      /\ \A u \in Task : u # t => job'[u] = job[u]
      /\ UNCHANGED <<ticket, clock, cancelled, queue>>
  BY DEF Acquire, AcquireOrphan, MayAcquire, Goto, TypeOK, callerVars, queueVars, closerVars
<1>2. AtSemaphore' = AtSemaphore \ {t}
  BY <1>1 DEF AtSemaphore, Runnable, TypeOK
<1>3. /\ DOMAIN waiters = 1..Len(waiters) /\ Len(waiters) \in Nat /\ Len(waiters) > 0
      /\ waiters[1] = t
      /\ DOMAIN waiters' = 1..(Len(waiters) - 1)
      /\ \A i \in 1..(Len(waiters) - 1) : waiters'[i] = waiters[i + 1]
      /\ Items(waiters) = Items(waiters') \cup {t}
  <2>1. waiters \in Seq(Task)
    BY DEF TypeOK
  <2>2. Items(waiters) = Items(waiters') \cup {t}
    BY <1>1, <2>1, ItemsOfTail
  <2>. QED
    BY <1>1, <2>1, <2>2
<1>4. \A i \in DOMAIN waiters : waiters[i] \in AtSemaphore /\ job[waiters[i]] \in Job
  BY DEF LineMatches, Items, AtSemaphore, JobsMatchPC
<1>5. ASSUME NEW i \in DOMAIN waiters'
      PROVE  /\ i + 1 \in DOMAIN waiters /\ waiters'[i] = waiters[i + 1]
             /\ waiters'[i] # t /\ job'[waiters'[i]] = job[waiters[i + 1]]
  <2>1. i + 1 \in DOMAIN waiters /\ 1 \in DOMAIN waiters /\ 1 < i + 1
        /\ waiters'[i] = waiters[i + 1]
    BY <1>3
  <2>2. ticket[job[t]] < ticket[job[waiters'[i]]]
    BY <1>3, <2>1 DEF LineInOrder
  <2>3. waiters'[i] # t
    BY <1>3, <1>4, <2>1, <2>2 DEF TypeOK
  <2>4. waiters'[i] \in Task
    BY <1>4, <2>1 DEF AtSemaphore
  <2>. QED
    BY <1>1, <2>1, <2>3, <2>4
<1>6. LineMatches' /\ TicketsBounded'
  <2>1. t \notin Items(waiters')
    BY <1>5 DEF Items
  <2>2. Items(waiters') = AtSemaphore \ {t}
    BY <1>3, <2>1 DEF LineMatches
  <2>. QED
    BY <1>1, <1>2, <2>2 DEF LineMatches, TicketsBounded
<1>7. LineInOrder'
  <2>. SUFFICES ASSUME NEW i \in DOMAIN waiters', NEW k \in DOMAIN waiters', i < k
                PROVE  ticket[job'[waiters'[i]]] < ticket[job'[waiters'[k]]]
    BY <1>1 DEF LineInOrder
  <2>1. i + 1 < k + 1
    BY <1>3
  <2>. QED
    BY <1>5, <2>1 DEF LineInOrder
<1>8. QueueInOrder' /\ TakenBeforeQueued'
  BY <1>1, <1>2 DEF QueueInOrder, TakenBeforeQueued, Queued, AtSemaphore
<1>. QED
  BY <1>6, <1>7, <1>8

(* shutdown() without waiting empties the line. *)
LEMMA CloseKeepsOrder ==
  ASSUME QueueInv, OrderInv, WorkersAreListed, NEW n \in Nat, NEW wait,
         PlaceSentinels(n, wait), UNCHANGED <<pc, job, callerVars>>
  PROVE  OrderInv'
<1>. USE DEF QueueInv, OrderInv
<1>1. UNCHANGED <<ticket, clock>>
  BY DEF callerVars
<1>2. QueueInOrder' /\ Queued' = Queued
  <2>1. PICK fit \in Nat : queue' = queue \o Sentinels(fit)
    BY SentinelsFit
  <2>2. QueueInOrder'
    BY <1>1, <2>1, QueueOrderOfSentinels
  <2>. QED
    BY <2>2, QueuedWhenClosing DEF OnePlace
<1>3. CASE UNCHANGED <<workerTasks, cancelled, waiters>>
  <2>1. AtSemaphore' = AtSemaphore
    BY <1>3 DEF AtSemaphore, Runnable
  <2>. QED
    BY <1>1, <1>2, <1>3, <2>1, OrderFrame
<1>4. CASE CancelAll
  <2>1. AtSemaphore' = {}
    BY <1>4 DEF CancelAll, AtSemaphore, Runnable, WorkersAreListed, Live
  <2>2. waiters' = <<>> /\ DOMAIN waiters' = {}
    BY <1>4 DEF CancelAll
  <2>3. Items(waiters') = {}
    BY <2>2 DEF Items
  <2>. QED
    BY <1>1, <1>2, <2>1, <2>2, <2>3
       DEF LineMatches, TicketsBounded, LineInOrder, TakenBeforeQueued
<1>. QED
  BY <1>3, <1>4, ListWhenClosing

LEMMA OrderInvStep ==
  ASSUME QueueInv, WorkersAreListed, OrderInv, [Next]_vars
  PROVE  OrderInv'
<1>. USE DEF QueueInv, OrderInv
<1>1. ASSUME UNCHANGED <<ticket, clock, waiters, queue>>, AtSemaphore' = AtSemaphore,
             \A t \in AtSemaphore : job'[t] = job[t]
      PROVE  OrderInv'
  <2>1. QueueInOrder' /\ Queued' = Queued
    BY <1>1 DEF QueueInOrder, Queued
  <2>. QED
    BY <1>1, <2>1, OrderFrame
<1>2. ASSUME UNCHANGED <<ticket, clock, waiters, queue, pc, job, cancelled>>
      PROVE  OrderInv'
  BY <1>1, <1>2 DEF AtSemaphore, Runnable
<1>3. CASE Create
  <2>1. ASSUME NEW j \in Job, Store(j) \/ SubmitRejects(j)
        PROVE  OrderInv'
    BY <2>1, <1>2 DEF Store, SubmitRejects, queueVars, workerVars, closerVars
  <2>. QED
    BY <1>3, <2>1, SubmitKeepsOrder DEF Create
<1>4. CASE Start
  <2>1. AtSemaphore' = AtSemaphore
    BY <1>4 DEF Start, Unborn, AtSemaphore, Runnable
  <2>. QED
    BY <1>1, <1>4, <2>1 DEF Start, callerVars, queueVars
<1>5. ASSUME NEW t \in Task, TakeSentinel(t)
      PROVE  OrderInv'
  <2>1. /\ queue # <<>> /\ queue' = Tail(queue)
        /\ pc' = [pc EXCEPT ![t] = "ended"] /\ pc[t] # "acquire"
        /\ UNCHANGED <<ticket, clock, waiters, job, cancelled>>
    BY <1>5 DEF TakeSentinel, MayTake, Goto, callerVars, closerVars
  <2>2. AtSemaphore' = AtSemaphore
    BY <2>1 DEF AtSemaphore, Runnable, TypeOK
  <2>3. QueueInOrder' /\ Queued' \subseteq Queued
    BY <2>1, QueueOrderOfTail, QueuedWhenTaken DEF OnePlace
  <2>. QED
    BY <2>1, <2>2, <2>3, OrderFrame
<1>6. ASSUME NEW t \in Task, \/ LoopExit(t) \/ Park(t) \/ Timeout(t)
                             \/ CallbackReturns(t) \/ CancelDelivered(t)
                             \/ \E outcome \in Outcome : HandlerReturns(t, outcome)
      PROVE  OrderInv'
  <2>1. /\ UNCHANGED <<ticket, clock, waiters, queue, cancelled>>
        /\ pc[t] # "acquire" \/ t \in cancelled
        /\ \E p \in {"ended", "get", "top", "callback"} : pc' = [pc EXCEPT ![t] = p]
        /\ job' = job \/ job' = [job EXCEPT ![t] = NoJob]
    BY <1>6 DEF LoopExit, Park, Timeout, CallbackReturns, CancelDelivered, HandlerReturns,
                Goto, callerVars, queueVars, closerVars
  <2>2. AtSemaphore' = AtSemaphore /\ t \notin AtSemaphore
    BY <2>1 DEF AtSemaphore, Runnable, TypeOK
  <2>3. \A u \in AtSemaphore : job'[u] = job[u]
    BY <2>1, <2>2 DEF TypeOK, AtSemaphore
  <2>. QED
    BY <1>1, <2>1, <2>2, <2>3
<1>7. CASE Work
  BY <1>7, <1>5, <1>6, TakeKeepsOrder, AcquireKeepsOrder DEF Work, Loop, Execute
<1>8. CASE Close
  <2>1. ASSUME NEW wait \in BOOLEAN, Shutdown(wait)
        PROVE  OrderInv'
    BY <2>1, CloseKeepsOrder, WorkersCount DEF Shutdown
  <2>2. CASE ShutdownResumes
    BY <2>2, CloseKeepsOrder DEF ShutdownResumes, TypeOK
  <2>3. CASE GatherReturns
    BY <2>3, <1>2 DEF GatherReturns, callerVars, queueVars, workerVars
  <2>. QED
    BY <1>8, <2>1, <2>2, <2>3 DEF Close
<1>9. CASE UNCHANGED vars
  BY <1>9, <1>2 DEF vars, callerVars, queueVars, workerVars, closerVars
<1>. QED
  BY <1>3, <1>4, <1>7, <1>8, <1>9 DEF Next

LEMMA OrderInvInit == Init => OrderInv
<1>. SUFFICES ASSUME Init PROVE OrderInv
  OBVIOUS
<1>1. AtSemaphore = {} /\ Queued = {} /\ DOMAIN waiters = {} /\ DOMAIN queue = {}
      /\ Items(waiters) = {}
  BY DEF Init, AtSemaphore, Queued, Items
<1>2. TicketsBounded
  BY DEF Init, TicketsBounded
<1>. QED
  BY <1>1, <1>2 DEF OrderInv, LineMatches, QueueInOrder, LineInOrder, TakenBeforeQueued

LEMMA OrderInvariant == Spec => []OrderInv
<1>1. QueueInv /\ WorkersAreListed /\ OrderInv /\ [Next]_vars => OrderInv'
  BY OrderInvStep
<1>. QED
  BY <1>1, OrderInvInit, QueueInvariant, WorkersStayListed, PTL DEF Spec

\* The worker at the head of the line has the oldest job that is waiting.
LEMMA HeadIsOldest ==
  ASSUME QueueInv, OrderInv, waiters # <<>>
  PROVE  /\ Head(waiters) \in AtSemaphore
         /\ \A u \in AtSemaphore : ticket[job[Head(waiters)]] <= ticket[job[u]]
         /\ \A k \in Queued : ticket[job[Head(waiters)]] <= ticket[k]
<1>. USE DEF QueueInv, OrderInv
<1>1. /\ DOMAIN waiters = 1..Len(waiters) /\ Len(waiters) \in Nat /\ Len(waiters) > 0
      /\ Head(waiters) = waiters[1]
  BY DEF TypeOK
<1>2. Head(waiters) \in AtSemaphore
  BY <1>1 DEF LineMatches, Items
<1>3. \A u \in AtSemaphore : job[u] \in Job /\ ticket[job[u]] \in Nat
  BY DEF AtSemaphore, JobsMatchPC, TypeOK
<1>4. ASSUME NEW u \in AtSemaphore
      PROVE  ticket[job[Head(waiters)]] <= ticket[job[u]]
  <2>1. PICK i \in DOMAIN waiters : waiters[i] = u
    BY DEF LineMatches, Items
  <2>2. CASE i = 1
    BY <2>1, <2>2, <1>1, <1>3
  <2>3. CASE i > 1
    BY <2>1, <2>3, <1>1, <1>2, <1>3 DEF LineInOrder
  <2>. QED
    BY <2>2, <2>3, <1>1
<1>5. ASSUME NEW k \in Queued
      PROVE  ticket[job[Head(waiters)]] <= ticket[k]
  <2>1. ticket[k] \in Nat
    BY QueuedAreJobs DEF TypeOK
  <2>. QED
    BY <2>1, <1>2, <1>3 DEF TakenBeforeQueued
<1>. QED
  BY <1>2, <1>4, <1>5

(* Jobs begin in the order of their acceptance, whichever workers take them,
   however the semaphore delays them and whatever is shut down meanwhile. *)
THEOREM JobsStartInOrder == Spec => StartsInOrder
<1>1. ASSUME QueueInv, OrderInv, [Next]_vars, NEW t \in Task, Begins(t)
      PROVE  waiters # <<>> /\ Head(waiters) = t
  PROOF
  <2>. USE <1>1 DEF Begins, QueueInv, TypeOK
  <2>1. ASSUME pc' = pc
        PROVE  FALSE
    BY <2>1
  <2>2. ~Start
    BY DEF Start, Unborn
  <2>3. ~Create /\ ~Close /\ ~UNCHANGED vars
    BY <2>1 DEF Create, Store, SubmitAccepts, SubmitRejects, Close, Shutdown, ShutdownResumes,
           GatherReturns, vars, workerVars
  <2>4. PICK u \in Task : Loop(u) \/ Execute(u) \/ Timeout(u) \/ CancelDelivered(u)
    BY <2>2, <2>3 DEF Next, Work
  <2>5. \E p \in PC : pc' = [pc EXCEPT ![u] = p]
    BY <2>4 DEF Loop, LoopExit, Park, TakeSentinel, TakeJob, Execute, Acquire,
                AcquireOrphan, CallbackReturns, HandlerReturns, Timeout, CancelDelivered,
                Goto, PC
  <2>6. u = t
    BY <2>5
  <2>7. Acquire(t) \/ AcquireOrphan(t)
    BY <2>4, <2>6 DEF Loop, LoopExit, Park, TakeSentinel, TakeJob, MayTake, Execute,
                CallbackReturns, HandlerReturns, Timeout, CancelDelivered, Runnable
  <2>. QED
    BY <2>7 DEF Acquire, AcquireOrphan, MayAcquire
<1>2. ASSUME QueueInv, OrderInv, NEW k \in Job, StillWaiting(k), waiters # <<>>
      PROVE  ticket[job[Head(waiters)]] <= ticket[k]
  BY <1>2, HeadIsOldest DEF StillWaiting, AtSemaphore, Holds
<1>3. QueueInv /\ OrderInv /\ [Next]_vars =>
        [\A t \in Task : Begins(t) =>
           \A k \in Job : StillWaiting(k) => ticket[job[t]] <= ticket[k]]_vars
  BY <1>1, <1>2
<1>. QED
  BY <1>3, QueueInvariant, OrderInvariant, PTL DEF Spec, StartsInOrder

-----------------------------------------------------------------------------
(* The stage of a job, without the CHOOSE of HeldBy *)

WorkerStage(t) ==
  CASE pc[t] = "callback" -> "notifying"
    [] pc[t] = "handler" -> "running"
    [] pc[t] = "acquire" /\ Runnable(t) -> "claimed"
    [] OTHER -> "lost"

StagesAreExact ==
  /\ \A j \in Job : caller[j] # "accepted" =>
       StageOf(j) = IF caller[j] = "idle" THEN "new" ELSE caller[j]
  /\ \A j \in Queued : StageOf(j) = "waiting"
  /\ \A t \in Task : job[t] # NoJob => StageOf(job[t]) = WorkerStage(t)
  /\ \A j \in Job : caller[j] = "accepted" /\ j \notin Queued /\ (\A t \in Task : job[t] # j) =>
       StageOf(j) = "closed"

LEMMA StagesExact == QueueInv => StagesAreExact
<1>. SUFFICES ASSUME QueueInv PROVE StagesAreExact
  OBVIOUS
<1>. USE DEF QueueInv
<1>1. ASSUME NEW j \in Job, caller[j] # "accepted"
      PROVE  StageOf(j) = IF caller[j] = "idle" THEN "new" ELSE caller[j]
  BY <1>1 DEF StageOf
<1>2. ASSUME NEW j \in Queued
      PROVE  StageOf(j) = "waiting"
  BY DEF StageOf, TakenWereAccepted
<1>3. ASSUME NEW t \in Task, job[t] # NoJob
      PROVE  StageOf(job[t]) = WorkerStage(t)
  <2>1. caller[job[t]] = "accepted" /\ job[t] \notin Queued
    BY <1>3 DEF TakenWereAccepted, OnePlace
  <2>2. HeldBy(job[t]) = t
    <3>1. job[HeldBy(job[t])] = job[t] /\ HeldBy(job[t]) \in Task
      BY DEF HeldBy
    <3>. QED
      BY <1>3, <3>1 DEF OnePlace
  <2>. QED
    BY <2>1, <2>2 DEF StageOf, WorkerStage
<1>4. ASSUME NEW j \in Job, caller[j] = "accepted", j \notin Queued,
             \A t \in Task : job[t] # j
      PROVE  StageOf(j) = "closed"
  BY <1>4 DEF StageOf
<1>. QED
  BY <1>1, <1>2, <1>3, <1>4 DEF StagesAreExact

LEMMA StagesExactNext == QueueInv' => StagesAreExact'
BY StagesExact, PTL

\* A job that is neither handed over nor moved keeps its stage.
LEMMA StageFrame ==
  ASSUME QueueInv, QueueInv', NEW k \in Job, caller'[k] = caller[k],
         k \in Queued' <=> k \in Queued,
         \A t \in Task : /\ job'[t] = k <=> job[t] = k
                         /\ job[t] = k => WorkerStage(t)' = WorkerStage(t)
  PROVE  StageOf(k)' = StageOf(k)
<1>1. StagesAreExact /\ StagesAreExact'
  BY StagesExact, StagesExactNext
<1>. HIDE DEF StageOf
<1>2. CASE caller[k] # "accepted"
  BY <1>1, <1>2 DEF StagesAreExact
<1>3. CASE k \in Queued
  BY <1>1, <1>3 DEF StagesAreExact
<1>4. ASSUME NEW t \in Task, job[t] = k
      PROVE  StageOf(k)' = StageOf(k)
  <2>1. k # NoJob /\ job'[t] = k
    BY <1>4, QueueAssumption
  <2>. QED
    BY <1>1, <1>4, <2>1 DEF StagesAreExact
<1>5. CASE caller[k] = "accepted" /\ k \notin Queued /\ \A t \in Task : job[t] # k
  BY <1>1, <1>5 DEF StagesAreExact
<1>. QED
  BY <1>2, <1>3, <1>4, <1>5

LEMMA WorkerStages ==
  ASSUME TypeOK, JobsMatchPC, NEW t \in Task, job[t] # NoJob
  PROVE  /\ pc[t] = "callback" <=> WorkerStage(t) = "notifying"
         /\ pc[t] = "handler" <=> WorkerStage(t) = "running"
         /\ t \in AtSemaphore <=> WorkerStage(t) = "claimed"
         /\ WorkerStage(t) \in {"notifying", "running", "claimed", "lost"}
<1>1. CASE pc[t] = "callback"
  <2>1. WorkerStage(t) = "notifying"
    BY <1>1 DEF WorkerStage
  <2>. QED
    BY <1>1, <2>1 DEF AtSemaphore
<1>2. CASE pc[t] = "handler"
  <2>1. WorkerStage(t) = "running"
    BY <1>2 DEF WorkerStage
  <2>. QED
    BY <1>2, <2>1 DEF AtSemaphore
<1>3. CASE pc[t] = "acquire" /\ Runnable(t)
  <2>1. WorkerStage(t) = "claimed"
    BY <1>3 DEF WorkerStage
  <2>. QED
    BY <1>3, <2>1 DEF AtSemaphore
<1>4. CASE pc[t] \notin {"callback", "handler"} /\ ~(pc[t] = "acquire" /\ Runnable(t))
  <2>1. WorkerStage(t) = "lost"
    BY <1>4 DEF WorkerStage
  <2>. QED
    BY <1>4, <2>1 DEF AtSemaphore
<1>. QED
  BY <1>1, <1>2, <1>3, <1>4

\* Where the jobs of the service are in the queue and with the workers.
LEMMA StagesOfService ==
  ASSUME QueueInv
  PROVE  /\ Service!At("waiting") = Queued
         /\ Service!At("claimed") = {job[t] : t \in AtSemaphore}
         /\ Service!At("running") \cup Service!At("notifying") = {job[t] : t \in Holding}
<1>. USE DEF QueueInv
<1>1. StagesAreExact
  BY StagesExact
<1>. HIDE DEF StageOf
<1>2. \A j \in Job : caller[j] \in {"idle", "stored", "accepted", "rejected"}
  BY DEF TypeOK
<1>3. ASSUME NEW j \in Job
      PROVE  \/ /\ StageOf(j) \in {"new", "stored", "rejected"}
                /\ caller[j] # "accepted"
                /\ j \notin Queued /\ \A t \in Task : job[t] # j
             \/ /\ StageOf(j) = "waiting" /\ j \in Queued /\ \A t \in Task : job[t] # j
             \/ \E t \in Task : /\ job[t] = j /\ j # NoJob /\ StageOf(j) = WorkerStage(t)
                               /\ j \notin Queued
                               /\ \A u \in Task : job[u] = j => u = t
             \/ StageOf(j) = "closed" /\ j \notin Queued /\ \A t \in Task : job[t] # j
  <2>1. CASE caller[j] # "accepted"
    <3>1. j \notin Queued /\ \A t \in Task : job[t] # j
      BY <2>1, QueueAssumption DEF TakenWereAccepted
    <3>. QED
      BY <1>1, <1>2, <2>1, <3>1 DEF StagesAreExact
  <2>2. CASE j \in Queued
    BY <1>1, <2>2 DEF StagesAreExact, OnePlace
  <2>3. ASSUME NEW t \in Task, job[t] = j
        PROVE  /\ j # NoJob /\ StageOf(j) = WorkerStage(t) /\ j \notin Queued
               /\ \A u \in Task : job[u] = j => u = t
    BY <1>1, <2>3, QueueAssumption DEF StagesAreExact, OnePlace
  <2>4. CASE caller[j] = "accepted" /\ j \notin Queued /\ \A t \in Task : job[t] # j
    BY <1>1, <2>4 DEF StagesAreExact
  <2>. QED
    BY <2>1, <2>2, <2>3, <2>4
<1>4. \A t \in AtSemaphore \cup Holding : job[t] \in Job /\ t \in Task /\ job[t] # NoJob
  BY QueueAssumption DEF AtSemaphore, Holding, JobsMatchPC
<1>5. \A s : Service!At(s) = {j \in Job : StageOf(j) = s}
  BY DEF Service!At
<1>6. Service!At("waiting") = Queued
  BY <1>3, <1>5, WorkerStages, QueuedAreJobs
<1>7. Service!At("claimed") = {job[t] : t \in AtSemaphore}
  BY <1>3, <1>4, <1>5, WorkerStages
<1>8. Service!At("running") \cup Service!At("notifying") = {job[t] : t \in Holding}
  BY <1>3, <1>4, <1>5, WorkerStages DEF Holding
<1>. QED
  BY <1>6, <1>7, <1>8

\* The queued jobs are no more than the items of the queue.
LEMMA QueuedFit ==
  ASSUME TypeOK
  PROVE  Cardinality(Queued) \in Nat /\ Cardinality(Queued) <= Len(queue)
<1>1. Len(queue) \in Nat /\ DOMAIN queue = 1..Len(queue) /\ queue \in [1..Len(queue) -> Items(queue)]
  BY DEF TypeOK, Items
<1>2. IsFiniteSet(1..Len(queue)) /\ Cardinality(1..Len(queue)) = Len(queue)
  BY <1>1, FS_Interval
<1>3. queue \in Surjection(1..Len(queue), Items(queue))
  BY <1>1 DEF Surjection, Items
<1>4. IsFiniteSet(Items(queue)) /\ Cardinality(Items(queue)) <= Len(queue)
  BY <1>2, <1>3, FS_Surjection
<1>5. IsFiniteSet(Queued) /\ Cardinality(Queued) <= Cardinality(Items(queue))
  BY <1>4, FS_Subset DEF Queued
<1>6. Cardinality(Queued) \in Nat /\ Cardinality(Items(queue)) \in Nat
  BY <1>4, <1>5, FS_CardinalityType
<1>. QED
  BY <1>1, <1>4, <1>5, <1>6

\* The jobs in execution are no more than the workers that execute.
LEMMA BusyFit ==
  ASSUME QueueInv
  PROVE  /\ Cardinality({job[t] : t \in Holding}) \in Nat
         /\ Cardinality({job[t] : t \in Holding}) <= Cardinality(Holding)
<1>. DEFINE f == [t \in Holding |-> job[t]]
            S == {job[t] : t \in Holding}
<1>1. f \in Surjection(Holding, S)
  BY DEF Surjection
<1>2. IsFiniteSet(Holding)
  BY HoldingIsFinite DEF QueueInv
<1>. HIDE DEF f, S
<1>3. IsFiniteSet(S) /\ Cardinality(S) <= Cardinality(Holding)
  BY <1>1, <1>2, FS_Surjection
<1>4. Cardinality(S) \in Nat
  BY <1>3, FS_CardinalityType
<1>. QED
  BY <1>3, <1>4 DEF S

-----------------------------------------------------------------------------
(* JobQueue implements JobService: one step of the service for every step   *)
(* of the queue that moves a job, and none for every other.                *)

LEMMA MoveOne ==
  ASSUME NEW j \in Job, NEW s, StageOf(j)' = s,
         \A k \in Job \ {j} : StageOf(k)' = StageOf(k)
  PROVE  Service!Move(j, s)
<1>. HIDE DEF StageOf
<1>. QED
  BY DEF Service!Move

LEMMA MoveNone ==
  ASSUME UNCHANGED <<store, ticket, clock>>, \A k \in Job : StageOf(k)' = StageOf(k)
  PROVE  UNCHANGED Service!serviceVars
<1>. HIDE DEF StageOf
<1>. QED
  BY DEF Service!serviceVars

LEMMA StoreRefines ==
  ASSUME QueueInv, QueueInv', NEW j \in Job, Store(j)
  PROVE  Service!Store(j)
<1>1. /\ caller[j] = "idle" /\ caller'[j] = "stored"
      /\ \A k \in Job \ {j} : caller'[k] = caller[k]
      /\ UNCHANGED <<queue, pc, job, cancelled>>
  BY DEF Store, QueueInv, TypeOK, queueVars, workerVars, closerVars
<1>2. Queued' = Queued /\ \A t \in Task : WorkerStage(t)' = WorkerStage(t)
  BY <1>1 DEF Queued, WorkerStage, Runnable
<1>3. StageOf(j) = "new" /\ StageOf(j)' = "stored"
  BY <1>1, StagesExact, StagesExactNext DEF StagesAreExact
<1>4. \A k \in Job \ {j} : StageOf(k)' = StageOf(k)
  BY <1>1, <1>2, StageFrame
<1>5. Service!Move(j, "stored")
  BY <1>3, <1>4, MoveOne
<1>. HIDE DEF StageOf
<1>. QED
  BY <1>3, <1>5 DEF Store, Service!Store

\* Before submit() a job is where Handed says.
LEMMA HandedOver ==
  ASSUME QueueInv, NEW j \in Job, MaySubmit(j)
  PROVE  StageOf(j) = Service!Handed[j]
<1>1. StageOf(j) = IF j \in Orphans THEN "new" ELSE "stored"
  BY StagesExact DEF StagesAreExact, MaySubmit
<1>. HIDE DEF StageOf
<1>. QED
  BY <1>1 DEF Service!Handed

\* The service counts as the queue does.
LEMMA SameCardinality == \A S : Service!Cardinality(S) = Cardinality(S)
BY DEF Service!Cardinality, Cardinality

LEMMA AcceptRefines ==
  ASSUME QueueInv, QueueInv', NEW j \in Job, SubmitAccepts(j)
  PROVE  Service!Accept(j)
<1>1. /\ MaySubmit(j) /\ HasRoom /\ queue' = Append(queue, j)
      /\ \A k \in Job \ {j} : caller'[k] = caller[k]
      /\ UNCHANGED <<pc, job, cancelled>>
  BY DEF SubmitAccepts, Put, QueueInv, TypeOK, workerVars, closerVars
<1>2. Queued' = Queued \cup {j}
  BY <1>1, QueuedWhenPut DEF QueueInv
<1>3. \A t \in Task : WorkerStage(t)' = WorkerStage(t)
  BY <1>1 DEF WorkerStage, Runnable
<1>4. StageOf(j)' = "waiting"
  BY <1>2, StagesExactNext DEF StagesAreExact
<1>5. \A k \in Job \ {j} : StageOf(k)' = StageOf(k)
  BY <1>1, <1>2, <1>3, StageFrame
<1>6. Service!Move(j, "waiting")
  BY <1>4, <1>5, MoveOne
<1>7. StageOf(j) = Service!Handed[j]
  BY <1>1, HandedOver
<1>8. Service!Cardinality(Service!At("waiting")) < MaxQueue
  <2>1. Service!At("waiting") = Queued /\ MaxQueue \in Nat
    BY StagesOfService, QueueAssumption
  <2>2. Cardinality(Queued) \in Nat /\ Cardinality(Queued) <= Len(queue) /\ Len(queue) \in Nat
    BY QueuedFit DEF QueueInv, TypeOK
  <2>3. Len(queue) < MaxQueue
    BY <1>1 DEF HasRoom
  <2>. QED
    BY <2>1, <2>2, <2>3, SameCardinality
<1>. HIDE DEF StageOf
<1>. QED
  BY <1>6, <1>7, <1>8 DEF SubmitAccepts, Service!Accept

LEMMA RejectRefines ==
  ASSUME QueueInv, QueueInv', NEW j \in Job, SubmitRejects(j)
  PROVE  Service!Reject(j)
<1>1. /\ MaySubmit(j) /\ caller'[j] = "rejected"
      /\ \A k \in Job \ {j} : caller'[k] = caller[k]
      /\ UNCHANGED <<queue, pc, job, cancelled>>
  BY DEF SubmitRejects, QueueInv, TypeOK, queueVars, workerVars, closerVars
<1>2. Queued' = Queued /\ \A t \in Task : WorkerStage(t)' = WorkerStage(t)
  BY <1>1 DEF Queued, WorkerStage, Runnable
<1>3. StageOf(j)' = "rejected"
  BY <1>1, StagesExactNext DEF StagesAreExact
<1>4. \A k \in Job \ {j} : StageOf(k)' = StageOf(k)
  BY <1>1, <1>2, StageFrame
<1>5. Service!Move(j, "rejected") /\ StageOf(j) = Service!Handed[j]
  BY <1>1, <1>3, <1>4, MoveOne, HandedOver
<1>. HIDE DEF StageOf
<1>. QED
  BY <1>5 DEF SubmitRejects, Service!Reject

LEMMA ClaimRefines ==
  ASSUME QueueInv, QueueInv', OrderInv, NEW t \in Task, TakeJob(t),
         NEW j \in Job, j = Head(queue)
  PROVE  Service!Claim(j)
<1>1. /\ queue # <<>> /\ j # Stop /\ queue' = Tail(queue) /\ Runnable(t)
      /\ job'[t] = j /\ pc'[t] = "acquire" /\ pc[t] \in {"top", "get"}
      /\ \A u \in Task \ {t} : job'[u] = job[u] /\ pc'[u] = pc[u]
      /\ UNCHANGED <<caller, store, ticket, clock, cancelled>>
  BY DEF TakeJob, MayTake, Goto, QueueInv, TypeOK, callerVars, closerVars
<1>2. /\ j \in Queued /\ Queued' = Queued \ {j}
  BY <1>1, QueuedWhenTaken DEF QueueInv, OnePlace
<1>3. Service!Oldest(j, Service!At("waiting"))
  <2>1. \A k \in Queued' : ticket[j] < ticket[k]
    BY <1>1, QueueOrderOfTail DEF OrderInv, QueueInv, Queued
  <2>2. \A k \in Queued : ticket[k] \in Nat
    BY QueuedAreJobs DEF QueueInv, TypeOK
  <2>3. \A k \in Queued : ticket[j] <= ticket[k]
    BY <1>2, <2>1, <2>2
  <2>. QED
    BY <2>3, StagesOfService DEF Service!Oldest
<1>4. job[t] = NoJob
  BY <1>1 DEF QueueInv, JobsMatchPC
<1>5. StageOf(j) = "waiting" /\ StageOf(j)' = "claimed"
  <2>1. WorkerStage(t)' = "claimed"
    BY <1>1 DEF WorkerStage, Runnable
  <2>2. j # NoJob
    BY <1>2, QueueAssumption
  <2>. QED
    BY <1>1, <1>2, <2>1, <2>2, StagesExact, StagesExactNext DEF StagesAreExact
<1>6. ASSUME NEW k \in Job \ {j}
      PROVE  StageOf(k)' = StageOf(k)
  <2>1. k # NoJob
    BY QueueAssumption
  <2>2. \A u \in Task \ {t} : WorkerStage(u)' = WorkerStage(u)
    BY <1>1 DEF WorkerStage, Runnable
  <2>. QED
    BY <1>1, <1>2, <1>4, <2>1, <2>2, StageFrame
<1>7. Service!Move(j, "claimed")
  BY <1>2, <1>5, <1>6, MoveOne
<1>. HIDE DEF StageOf
<1>. QED
  BY <1>1, <1>2, <1>3, <1>5, <1>7 DEF Service!Claim

LEMMA BeginRefines ==
  ASSUME QueueInv, QueueInv', OrderInv, ExecutionIsBounded, NEW t \in Task,
         Acquire(t) \/ AcquireOrphan(t), NEW j \in Job, j = job[t]
  PROVE  Service!Begin(j)
<1>. USE DEF QueueInv
<1>1. /\ MayAcquire(t) /\ pc[t] = "acquire" /\ t \in AtSemaphore
      /\ \A u \in Task \ {t} : job'[u] = job[u] /\ pc'[u] = pc[u]
      /\ UNCHANGED <<caller, store, ticket, clock, queue, cancelled>>
  BY DEF Acquire, AcquireOrphan, MayAcquire, Goto, TypeOK, AtSemaphore, callerVars, queueVars,
         closerVars
<1>2. j # NoJob /\ j \notin Queued /\ Queued' = Queued /\ caller[j] = "accepted"
      /\ \A u \in Task \ {t} : job[u] # j
  BY <1>1, QueueAssumption DEF OnePlace, Queued, TakenWereAccepted
<1>3. \A u \in Task \ {t} : WorkerStage(u)' = WorkerStage(u)
  BY <1>1 DEF WorkerStage, Runnable
<1>4. StageOf(j) = "claimed"
  <2>1. WorkerStage(t) = "claimed"
    BY <1>1, <1>2, WorkerStages
  <2>. QED
    BY <1>2, <2>1, StagesExact DEF StagesAreExact
<1>5. StageOf(j)' = IF store[j] = "absent" THEN "closed" ELSE "running"
  <2>1. CASE Acquire(t)
    <3>1. pc'[t] = "handler" /\ job'[t] = j /\ store[j] # "absent"
      BY <2>1 DEF Acquire, InStore, Goto, TypeOK
    <3>2. WorkerStage(t)' = "running"
      BY <3>1 DEF WorkerStage
    <3>. QED
      BY <1>2, <3>1, <3>2, StagesExactNext DEF StagesAreExact
  <2>2. CASE AcquireOrphan(t)
    <3>1. job'[t] = NoJob /\ store[j] = "absent"
      BY <2>2 DEF AcquireOrphan, InStore, TypeOK
    <3>2. \A u \in Task : job'[u] # j
      BY <1>1, <1>2, <3>1
    <3>. QED
      BY <1>1, <1>2, <3>1, <3>2, StagesExactNext DEF StagesAreExact
  <2>. QED
    BY <2>1, <2>2
<1>6. ASSUME NEW k \in Job \ {j}
      PROVE  StageOf(k)' = StageOf(k)
  <2>1. k # NoJob /\ job[t] # k /\ job'[t] # k
    BY QueueAssumption DEF Acquire, AcquireOrphan, TypeOK
  <2>. QED
    BY <1>1, <1>2, <1>3, <2>1, StageFrame
<1>7. Service!Move(j, IF store[j] = "absent" THEN "closed" ELSE "running")
  BY <1>5, <1>6, MoveOne
<1>8. Service!Oldest(j, Service!At("claimed"))
  <2>1. \A u \in AtSemaphore : ticket[j] <= ticket[job[u]]
    BY <1>1, HeadIsOldest DEF MayAcquire
  <2>. QED
    BY <2>1, StagesOfService DEF Service!Oldest
<1>9. Service!Cardinality(Service!At("running") \cup Service!At("notifying")) < MaxWorkers
  <2>1. permits \in Int /\ permits > 0 /\ permits + Cardinality(Holding) = MaxWorkers
    BY <1>1 DEF MayAcquire, TypeOK, ExecutionIsBounded
  <2>2. Cardinality(Holding) \in Nat /\ MaxWorkers \in Nat
    BY HoldingIsFinite, QueueAssumption
  <2>. DEFINE busy == {job[u] : u \in Holding}
  <2>3. Service!At("running") \cup Service!At("notifying") = busy
    BY StagesOfService
  <2>4. Cardinality(busy) \in Nat /\ Cardinality(busy) <= Cardinality(Holding)
    BY BusyFit
  <2>. HIDE DEF busy
  <2>5. Cardinality(busy) < MaxWorkers
    BY <2>1, <2>2, <2>4
  <2>. QED
    BY <2>3, <2>5, SameCardinality
<1>. HIDE DEF StageOf
<1>. QED
  BY <1>1, <1>4, <1>7, <1>8, <1>9 DEF Service!Begin

LEMMA FinishRefines ==
  ASSUME QueueInv, QueueInv', NEW t \in Task, NEW outcome \in Outcome,
         HandlerReturns(t, outcome), NEW j \in Job, j = job[t]
  PROVE  Service!Finish(j, outcome)
<1>. USE DEF QueueInv
<1>1. /\ pc[t] = "handler" /\ pc'[t] = "callback"
      /\ store' = [store EXCEPT ![j] = outcome]
      /\ \A u \in Task \ {t} : pc'[u] = pc[u]
      /\ UNCHANGED <<caller, ticket, clock, queue, job, cancelled>>
  BY DEF HandlerReturns, Goto, TypeOK, queueVars, closerVars
<1>2. j # NoJob /\ Queued' = Queued
  BY <1>1, QueueAssumption DEF Queued
<1>3. \A u \in Task \ {t} : WorkerStage(u)' = WorkerStage(u)
  BY <1>1 DEF WorkerStage, Runnable
<1>4. WorkerStage(t) = "running" /\ WorkerStage(t)' = "notifying"
  BY <1>1 DEF WorkerStage
<1>5. StageOf(j) = "running" /\ StageOf(j)' = "notifying"
  BY <1>1, <1>2, <1>4, StagesExact, StagesExactNext DEF StagesAreExact
<1>6. \A k \in Job \ {j} : StageOf(k)' = StageOf(k)
  BY <1>1, <1>2, <1>3, StageFrame
<1>7. Service!Move(j, "notifying")
  BY <1>5, <1>6, MoveOne
<1>. HIDE DEF StageOf
<1>. QED
  BY <1>1, <1>5, <1>7 DEF Service!Finish

\* on_complete ends: it has returned, or its worker is interrupted in it.
LEMMA CloseRefines ==
  ASSUME QueueInv, QueueInv', NEW t \in Task, pc[t] = "callback",
         CallbackReturns(t) \/ CancelDelivered(t), NEW j \in Job, j = job[t]
  PROVE  Service!Close(j)
<1>. USE DEF QueueInv
<1>1. /\ job'[t] = NoJob
      /\ \A u \in Task \ {t} : job'[u] = job[u] /\ pc'[u] = pc[u]
      /\ UNCHANGED <<caller, store, ticket, clock, queue, cancelled>>
  BY DEF CallbackReturns, CancelDelivered, Goto, TypeOK, callerVars, queueVars, closerVars
<1>2. j # NoJob /\ j \notin Queued /\ Queued' = Queued /\ caller[j] = "accepted"
      /\ \A u \in Task \ {t} : job[u] # j
  BY <1>1, QueueAssumption DEF OnePlace, Queued, TakenWereAccepted
<1>3. \A u \in Task \ {t} : WorkerStage(u)' = WorkerStage(u)
  BY <1>1 DEF WorkerStage, Runnable
<1>4. StageOf(j) = "notifying"
  <2>1. WorkerStage(t) = "notifying"
    BY DEF WorkerStage
  <2>. QED
    BY <1>2, <2>1, StagesExact DEF StagesAreExact
<1>5. StageOf(j)' = "closed"
  <2>1. \A u \in Task : job'[u] # j
    BY <1>1, <1>2
  <2>. QED
    BY <1>1, <1>2, <2>1, StagesExactNext DEF StagesAreExact
<1>6. ASSUME NEW k \in Job \ {j}
      PROVE  StageOf(k)' = StageOf(k)
  <2>1. k # NoJob
    BY QueueAssumption
  <2>. QED
    BY <1>1, <1>2, <1>3, <2>1, StageFrame
<1>7. Service!Move(j, "closed")
  BY <1>5, <1>6, MoveOne
<1>. HIDE DEF StageOf
<1>. QED
  BY <1>1, <1>4, <1>7 DEF Service!Close

\* A worker interrupted in its handler loses its job.
LEMMA InterruptRefines ==
  ASSUME QueueInv, QueueInv', NEW t \in Task, pc[t] = "handler", CancelDelivered(t),
         NEW j \in Job, j = job[t]
  PROVE  Service!Lose({j})
<1>. USE DEF QueueInv
<1>1. /\ pc'[t] = "ended"
      /\ \A u \in Task \ {t} : pc'[u] = pc[u]
      /\ UNCHANGED <<caller, store, ticket, clock, queue, cancelled, job>>
  BY DEF CancelDelivered, Goto, TypeOK, callerVars, queueVars, closerVars
<1>2. j # NoJob /\ Queued' = Queued
  BY <1>1, QueueAssumption DEF Queued
<1>3. \A u \in Task \ {t} : WorkerStage(u)' = WorkerStage(u)
  BY <1>1 DEF WorkerStage, Runnable
<1>4. WorkerStage(t) = "running" /\ WorkerStage(t)' = "lost"
  BY <1>1 DEF WorkerStage
<1>5. StageOf(j) = "running" /\ StageOf(j)' = "lost"
  BY <1>1, <1>2, <1>4, StagesExact, StagesExactNext DEF StagesAreExact
<1>6. \A k \in Job \ {j} : StageOf(k)' = StageOf(k)
  BY <1>1, <1>2, <1>3, StageFrame
<1>. HIDE DEF StageOf
<1>7. j \in Service!At("claimed") \cup Service!At("running")
  BY <1>5 DEF Service!At
<1>. QED
  BY <1>1, <1>5, <1>6, <1>7 DEF Service!Lose

\* A step that leaves the jobs where they are is no step of the service.
LEMMA Stutters ==
  ASSUME QueueInv, QueueInv', UNCHANGED <<store, caller, ticket, clock, job>>,
         Queued' = Queued,
         \A t \in Task : job[t] # NoJob => WorkerStage(t)' = WorkerStage(t)
  PROVE  UNCHANGED Service!serviceVars
<1>1. ASSUME NEW k \in Job
      PROVE  StageOf(k)' = StageOf(k)
  <2>1. k # NoJob
    BY QueueAssumption
  <2>. QED
    BY <2>1, StageFrame
<1>. QED
  BY <1>1, MoveNone

\* Workers without a job, and cancelled ones that have lost theirs already.
LEMMA IdleStutters ==
  ASSUME QueueInv, QueueInv', NEW t \in Task,
         \/ LoopExit(t) \/ Park(t) \/ Timeout(t) \/ TakeSentinel(t)
         \/ CancelDelivered(t) /\ pc[t] \notin {"handler", "callback"}
  PROVE  UNCHANGED Service!serviceVars
<1>. USE DEF QueueInv
<1>1. /\ pc[t] \in {"top", "get"} \/ (pc[t] = "acquire" /\ t \in cancelled /\ pc'[t] = "ended")
      /\ \A u \in Task \ {t} : pc'[u] = pc[u]
      /\ UNCHANGED <<store, caller, ticket, clock, job, cancelled>>
  BY DEF LoopExit, Park, Timeout, TakeSentinel, MayTake, CancelDelivered, Goto, TypeOK, PC,
         callerVars, closerVars
<1>2. Queued' = Queued
  <2>1. CASE TakeSentinel(t)
    BY <2>1, QueuedWhenTaken DEF TakeSentinel, MayTake, OnePlace
  <2>2. CASE UNCHANGED queue
    BY <2>2 DEF Queued
  <2>. QED
    BY <2>1, <2>2 DEF LoopExit, Park, Timeout, CancelDelivered, queueVars
<1>3. ASSUME NEW u \in Task, job[u] # NoJob
      PROVE  WorkerStage(u)' = WorkerStage(u)
  <2>1. CASE u # t
    BY <2>1, <1>1 DEF WorkerStage, Runnable
  <2>2. CASE u = t
    <3>1. pc[t] = "acquire" /\ t \in cancelled /\ pc'[t] = "ended"
      BY <2>2, <1>1, <1>3 DEF JobsMatchPC
    <3>2. ~Runnable(t)
      BY <3>1 DEF Runnable
    <3>3. WorkerStage(t) = "lost"
      BY <3>1, <3>2 DEF WorkerStage
    <3>4. WorkerStage(t)' = "lost"
      BY <3>1 DEF WorkerStage
    <3>. QED
      BY <2>2, <3>3, <3>4
  <2>. QED
    BY <2>1, <2>2
<1>. QED
  BY <1>1, <1>2, <1>3, Stutters

LEMMA StartStutters ==
  ASSUME QueueInv, QueueInv', Start
  PROVE  UNCHANGED Service!serviceVars
<1>. USE DEF QueueInv
<1>1. /\ \A u \in Task : pc[u] # "unborn" => pc'[u] = pc[u]
      /\ UNCHANGED <<store, caller, ticket, clock, job, cancelled, queue>>
  BY DEF Start, Unborn, callerVars, queueVars
<1>2. \A u \in Task : job[u] # NoJob => pc[u] # "unborn"
  BY DEF JobsMatchPC
<1>3. \A u \in Task : job[u] # NoJob => WorkerStage(u)' = WorkerStage(u)
  BY <1>1, <1>2 DEF WorkerStage, Runnable
<1>. QED
  BY <1>1, <1>3, Stutters DEF Queued

\* shutdown() of a queue takes the jobs at the semaphore with it, unless it
\* waits for them.
LEMMA ClosingRefines ==
  ASSUME QueueInv, QueueInv', WorkersAreListed, NEW n \in Nat, NEW wait,
         PlaceSentinels(n, wait), UNCHANGED <<pc, job, callerVars>>
  PROVE  (\E S \in SUBSET Job : Service!Lose(S)) \/ UNCHANGED Service!serviceVars
<1>. USE DEF QueueInv
<1>1. UNCHANGED <<store, caller, ticket, clock, pc, job>>
  BY DEF callerVars
<1>2. Queued' = Queued
  BY QueuedWhenClosing DEF OnePlace
<1>3. CASE UNCHANGED <<workerTasks, cancelled, waiters>>
  <2>1. \A u \in Task : WorkerStage(u)' = WorkerStage(u)
    BY <1>1, <1>3 DEF WorkerStage, Runnable
  <2>. QED
    BY <1>1, <1>2, <2>1, Stutters
<1>4. CASE CancelAll
  <2>1. ASSUME NEW u \in Task, u \notin AtSemaphore, job[u] # NoJob
        PROVE  WorkerStage(u)' = WorkerStage(u)
    <3>1. CASE pc[u] = "acquire"
      <4>1. ~Runnable(u) /\ ~Runnable(u)'
        BY <1>4, <2>1, <3>1 DEF AtSemaphore, CancelAll, Runnable
      <4>. QED
        BY <1>1, <4>1 DEF WorkerStage
    <3>2. CASE pc[u] # "acquire"
      BY <1>1, <3>2 DEF WorkerStage
    <3>. QED
      BY <3>1, <3>2
  <2>2. ASSUME NEW u \in AtSemaphore
        PROVE  WorkerStage(u)' = "lost"
    <3>1. pc'[u] = "acquire" /\ ~Runnable(u)'
      BY <1>1, <1>4 DEF AtSemaphore, CancelAll, Runnable, WorkersAreListed, Live
    <3>. QED
      BY <3>1 DEF WorkerStage
  <2>. DEFINE S == {job[u] : u \in AtSemaphore}
  <2>3. CASE S = {}
    BY <1>1, <1>2, <2>1, <2>3, Stutters
  <2>4. CASE S # {}
    <3>1. \A u \in AtSemaphore : u \in Task /\ job[u] \in Job /\ job[u] # NoJob
      BY QueueAssumption DEF AtSemaphore, JobsMatchPC
    <3>2. ASSUME NEW k \in S
          PROVE  StageOf(k)' = "lost"
      BY <1>1, <2>2, <3>1, StagesExactNext DEF StagesAreExact
    <3>3. ASSUME NEW k \in Job, k \notin S
          PROVE  StageOf(k)' = StageOf(k)
      <4>1. k # NoJob
        BY QueueAssumption
      <4>2. \A u \in Task : job[u] = k => WorkerStage(u)' = WorkerStage(u)
        BY <2>1, <3>3, <4>1
      <4>. QED
        BY <1>1, <1>2, <4>2, StageFrame
    <3>4. S \in SUBSET Job /\ S \subseteq Service!At("claimed") \cup Service!At("running")
      BY <3>1, StagesOfService
    <3>. HIDE DEF S, StageOf
    <3>5. Service!Lose(S)
      BY <1>1, <2>4, <3>2, <3>3, <3>4 DEF Service!Lose
    <3>. QED
      BY <3>4, <3>5
  <2>. QED
    BY <2>3, <2>4
<1>. QED
  BY <1>3, <1>4, ListWhenClosing

LEMMA RefinementStep ==
  ASSUME QueueInv, QueueInv', WorkersAreListed, ExecutionIsBounded, OrderInv, [Next]_vars
  PROVE  [Service!ServiceNext]_(Service!serviceVars)
<1>. USE DEF QueueInv, Service!ServiceNext
<1>1. CASE Create
  BY <1>1, StoreRefines, AcceptRefines, RejectRefines DEF Create
<1>2. ASSUME NEW t \in Task, TakeJob(t)
      PROVE  [Service!ServiceNext]_(Service!serviceVars)
  <2>1. Head(queue) \in Job
    BY <1>2, QueueAssumption DEF TakeJob, MayTake, TypeOK
  <2>2. PICK j \in Job : j = Head(queue)
    BY <2>1
  <2>. QED
    BY <1>2, <2>2, ClaimRefines
<1>3. ASSUME NEW t \in Task, pc[t] \in {"acquire", "handler", "callback"}
      PROVE  \E j \in Job : j = job[t]
  BY <1>3 DEF JobsMatchPC
<1>4. ASSUME NEW t \in Task, Acquire(t) \/ AcquireOrphan(t)
      PROVE  [Service!ServiceNext]_(Service!serviceVars)
  <2>1. PICK j \in Job : j = job[t]
    BY <1>3, <1>4 DEF Acquire, AcquireOrphan, MayAcquire
  <2>. QED
    BY <1>4, <2>1, BeginRefines
<1>5. ASSUME NEW t \in Task, NEW outcome \in Outcome, HandlerReturns(t, outcome)
      PROVE  [Service!ServiceNext]_(Service!serviceVars)
  <2>1. PICK j \in Job : j = job[t]
    BY <1>3, <1>5 DEF HandlerReturns
  <2>2. Service!Finish(j, outcome) /\ outcome \in Service!Outcome
    BY <1>5, <2>1, FinishRefines DEF Outcome, Service!Outcome
  <2>. QED
    BY <2>2
<1>6. ASSUME NEW t \in Task, CallbackReturns(t)
      PROVE  [Service!ServiceNext]_(Service!serviceVars)
  <2>1. pc[t] = "callback"
    BY <1>6 DEF CallbackReturns
  <2>2. PICK j \in Job : j = job[t]
    BY <1>3, <2>1
  <2>. QED
    BY <1>6, <2>1, <2>2, CloseRefines
<1>7. ASSUME NEW t \in Task, CancelDelivered(t)
      PROVE  [Service!ServiceNext]_(Service!serviceVars)
  <2>1. CASE pc[t] = "callback"
    <3>1. PICK j \in Job : j = job[t]
      BY <1>3, <2>1
    <3>. QED
      BY <1>7, <2>1, <3>1, CloseRefines
  <2>2. CASE pc[t] = "handler"
    <3>1. PICK j \in Job : j = job[t]
      BY <1>3, <2>2
    <3>2. Service!Lose({j}) /\ {j} \in SUBSET Job
      BY <1>7, <2>2, <3>1, InterruptRefines
    <3>. QED
      BY <3>2
  <2>3. CASE pc[t] \notin {"handler", "callback"}
    BY <1>7, <2>3, IdleStutters
  <2>. QED
    BY <2>1, <2>2, <2>3
<1>8. CASE Work
  BY <1>8, <1>2, <1>4, <1>5, <1>6, <1>7, IdleStutters DEF Work, Loop, Execute
<1>9. CASE Close
  <2>1. ASSUME NEW wait \in BOOLEAN, Shutdown(wait)
        PROVE  [Service!ServiceNext]_(Service!serviceVars)
    <3>1. /\ PlaceSentinels(Cardinality(workerTasks), wait)
          /\ UNCHANGED <<pc, job, callerVars>> /\ Cardinality(workerTasks) \in Nat
      BY <2>1, WorkersCount DEF Shutdown
    <3>. QED
      BY <3>1, ClosingRefines
  <2>2. CASE ShutdownResumes
    <3>1. /\ PlaceSentinels(putsLeft, closerWaits)
          /\ UNCHANGED <<pc, job, callerVars>> /\ putsLeft \in Nat
      BY <2>2 DEF ShutdownResumes, TypeOK
    <3>. QED
      BY <3>1, ClosingRefines
  <2>3. CASE GatherReturns
    <3>1. UNCHANGED <<store, caller, ticket, clock, job, queue, pc, cancelled>>
      BY <2>3 DEF GatherReturns, callerVars, queueVars, workerVars
    <3>. QED
      BY <3>1, Stutters DEF Queued, WorkerStage, Runnable
  <2>. QED
    BY <1>9, <2>1, <2>2, <2>3 DEF Close
<1>10. CASE UNCHANGED vars
  <2>1. UNCHANGED <<store, caller, ticket, clock, job, queue, pc, cancelled>>
    BY <1>10 DEF vars, callerVars, queueVars, workerVars, closerVars
  <2>. QED
    BY <2>1, Stutters DEF Queued, WorkerStage, Runnable
<1>. QED
  BY <1>1, <1>8, <1>9, <1>10, StartStutters DEF Next

(* What the servers rely on: the workers, the sentinels, the semaphore and
   any shutdown or restart are invisible to them. *)
THEOREM QueueImplementsService == Spec => ImplementsService
<1>1. Init => Service!ServiceInit
  BY DEF Init, Service!ServiceInit, StageOf
<1>2. /\ QueueInv /\ QueueInv' /\ WorkersAreListed /\ ExecutionIsBounded /\ OrderInv
      /\ [Next]_vars
      => [Service!ServiceNext]_(Service!serviceVars)
  BY RefinementStep
<1>. QED
  BY <1>1, <1>2, QueueInvariant, WorkersStayListed, ExecutionsAreBounded, OrderInvariant, PTL
     DEF Spec, ImplementsService, Service!ServiceSpec
=============================================================================
