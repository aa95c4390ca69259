----------------------------- MODULE GrpcServer -----------------------------
(***************************************************************************)
(* grpc_api/server: CreateHashJob and CreateFibJob over the job queue, and *)
(* the server stream WatchJobs, fed by one queue per watcher.              *)
(*                                                                         *)
(* The queue is JobService, as in RestServer.  The lock of WatcherManager  *)
(* is left out: it is never held over a suspension (the watchers' queues   *)
(* have no bound, so put() does not wait), hence never waited for, and     *)
(* add_watcher(), remove_watcher() and broadcast() are parts of the steps  *)
(* that call them.                                                         *)
(***************************************************************************)
EXTENDS JobService, Sequences

CONSTANT Watcher     \* the calls of WatchJobs a run may see

ASSUME GrpcAssumption ==
  /\ IsFiniteSet(Watcher)
  /\ Orphans = {}

VARIABLES
  order,     \* the keys of the dict store, in the order of insertion
  watchers,  \* watcher_manager._watchers, a watcher for its queue
  phase,     \* where each call of WatchJobs is
  size,      \* the size of the dict when its iteration began
  pos,       \* the entries the iteration has yielded
  mail,      \* the updates in the watcher's queue
  told       \* what the watching client was told last of each job

watchVars == <<watchers, phase, size, pos, mail, told>>
vars == <<serviceVars, order, watchVars>>

Init ==
  /\ ServiceInit
  /\ order = <<>>
  /\ watchers = {}
  /\ phase = [w \in Watcher |-> "new"]
  /\ size = [w \in Watcher |-> 0]
  /\ pos = [w \in Watcher |-> 0]
  /\ mail = [w \in Watcher |-> <<>>]
  /\ told = [w \in Watcher |-> [j \in Job |-> "absent"]]

Enter(w, p) == phase' = [phase EXCEPT ![w] = p]
\* The client gets a JobStatus; the conversion keeps the status.
Tell(w, j, status) == told' = [told EXCEPT ![w][j] = status]

-----------------------------------------------------------------------------
(* CreateHashJob, CreateFibJob: the entry is stored and the job submitted
   without a suspension.  Watchers are not notified in either case. *)

CreateAccepted(j) ==
  /\ stage[j] = "new"
  /\ Cardinality(At("waiting")) < MaxQueue
  /\ Move(j, "waiting")
  /\ store' = [store EXCEPT ![j] = "pending"]
  /\ clock' = clock + 1
  /\ ticket' = [ticket EXCEPT ![j] = clock + 1]
  /\ order' = Append(order, j)
  /\ UNCHANGED watchVars

(* RESOURCE_EXHAUSTED *)
CreateRejected(j) ==
  /\ stage[j] = "new"
  /\ Cardinality(At("waiting")) = MaxQueue
  /\ Move(j, "rejected")
  /\ store' = [store EXCEPT ![j] = "failed"]
  /\ order' = Append(order, j)
  /\ UNCHANGED <<ticket, clock, watchVars>>

-----------------------------------------------------------------------------
(* The workers, with on_complete = JobServiceServicer._on_job_complete *)

WorkerClaims(j) ==
  /\ Cardinality(At("claimed") \cup At("running") \cup At("notifying")) < MaxWorkers
  /\ Claim(j)
  /\ UNCHANGED <<order, watchVars>>

WorkerBegins(j) ==
  /\ Begin(j)
  /\ UNCHANGED <<order, watchVars>>

PutAll(j, status) ==
  mail' = [w \in Watcher |-> IF w \in watchers
                             THEN Append(mail[w], [job |-> j, status |-> status])
                             ELSE mail[w]]

\* Mutant: the JobStatus is built when the job is created.
WorkerAnnouncesOldStatus(j, outcome) ==
  /\ Finish(j, outcome)
  /\ PutAll(j, "pending")
  /\ UNCHANGED <<order, watchers, phase, size, pos, told>>

(* The outcome is stored, converted and put into every watcher's queue. *)
WorkerFinishes(j, outcome) ==
  /\ Finish(j, outcome)
  /\ PutAll(j, outcome)
  /\ UNCHANGED <<order, watchers, phase, size, pos, told>>

CallbackReturns(j) ==
  /\ Close(j)
  /\ UNCHANGED <<order, watchVars>>

-----------------------------------------------------------------------------
(* WatchJobs *)

(* The watcher is added and the iteration over store.values() begins in one
   step: it yields the first entry, or falls through an empty dict. *)
WatchJobs(w) ==
  /\ phase[w] = "new"
  /\ watchers' = watchers \cup {w}
  /\ size' = [size EXCEPT ![w] = Len(order)]
  /\ \/ /\ order = <<>>
        /\ Enter(w, "streaming")
        /\ UNCHANGED <<pos, told>>
     \/ /\ order # <<>>
        /\ Enter(w, "listing")
        /\ pos' = [pos EXCEPT ![w] = 1]
        /\ Tell(w, Head(order), store[Head(order)])
  /\ UNCHANGED <<serviceVars, order, mail>>

(* The dict has the size it had: the next entry, converted as it is now. *)
ListNext(w) ==
  /\ phase[w] = "listing" /\ Len(order) = size[w]
  /\ pos[w] < size[w]
  /\ pos' = [pos EXCEPT ![w] = @ + 1]
  /\ LET j == order[pos[w] + 1] IN Tell(w, j, store[j])
  /\ UNCHANGED <<serviceVars, order, watchers, phase, size, mail>>

\* Mutant: add_watcher() comes after the initial list.
ListEndsBeforeSubscribing(w) ==
  /\ phase[w] = "listing" /\ Len(order) = size[w]
  /\ pos[w] = size[w]
  /\ Enter(w, "streaming")
  /\ mail' = [mail EXCEPT ![w] = <<>>]
  /\ UNCHANGED <<serviceVars, order, watchers, size, pos, told>>

ListEnds(w) ==
  /\ phase[w] = "listing" /\ Len(order) = size[w]
  /\ pos[w] = size[w]
  /\ Enter(w, "streaming")
  /\ UNCHANGED <<serviceVars, order, watchers, size, pos, mail, told>>

\* Mutant: remove_watcher() outside the finally block.
ListBreaksOnly(w) ==
  /\ phase[w] = "listing" /\ Len(order) # size[w]
  /\ Enter(w, "broken")
  /\ mail' = [mail EXCEPT ![w] = <<>>]
  /\ UNCHANGED <<serviceVars, order, watchers, size, pos, told>>

(* "dictionary changed size during iteration", also after the last entry:
   the RuntimeError passes the finally block and ends the stream. *)
ListBreaks(w) ==
  /\ phase[w] = "listing" /\ Len(order) # size[w]
  /\ Enter(w, "broken")
  /\ watchers' = watchers \ {w}
  /\ mail' = [mail EXCEPT ![w] = <<>>]
  /\ UNCHANGED <<serviceVars, order, size, pos, told>>

\* Mutant: of several updates only the latest is sent.
DeliverLatest(w) ==
  /\ phase[w] = "streaming" /\ mail[w] # <<>>
  /\ LET m == mail[w][Len(mail[w])] IN Tell(w, m.job, m.status)
  /\ mail' = [mail EXCEPT ![w] = <<>>]
  /\ UNCHANGED <<serviceVars, order, watchers, phase, size, pos>>

(* wait_for(queue.get(), 30) returns an update, which is yielded; on a
   timeout the loop goes on with nothing changed. *)
Deliver(w) ==
  /\ phase[w] = "streaming" /\ mail[w] # <<>>
  /\ LET m == Head(mail[w]) IN Tell(w, m.job, m.status)
  /\ mail' = [mail EXCEPT ![w] = Tail(mail[w])]
  /\ UNCHANGED <<serviceVars, order, watchers, phase, size, pos>>

(* The client cancels the call or its connection fails. *)
ClientLeaves(w) ==
  /\ phase[w] \in {"listing", "streaming"}
  /\ Enter(w, "leaving")
  /\ UNCHANGED <<serviceVars, order, watchers, size, pos, mail, told>>

(* CancelledError or GeneratorExit reaches the generator: its queue is
   removed and dropped with whatever it holds. *)
RemoveWatcher(w) ==
  /\ phase[w] = "leaving"
  /\ Enter(w, "ended")
  /\ watchers' = watchers \ {w}
  /\ mail' = [mail EXCEPT ![w] = <<>>]
  /\ UNCHANGED <<serviceVars, order, size, pos, told>>

-----------------------------------------------------------------------------
Create(j) == CreateAccepted(j) \/ CreateRejected(j)

Workers(j) ==
  \/ WorkerClaims(j) \/ WorkerBegins(j) \/ CallbackReturns(j)
  \/ \E outcome \in Outcome : WorkerFinishes(j, outcome)

Stream(w) ==
  ListNext(w) \/ ListEnds(w) \/ ListBreaks(w) \/ Deliver(w) \/ RemoveWatcher(w)

Next ==
  \/ \E j \in Job : Create(j) \/ Workers(j)
  \/ \E w \in Watcher : WatchJobs(w) \/ Stream(w) \/ ClientLeaves(w)

(* Workers and streams are tasks of one event loop, and gRPC sends what a
   stream yields or cancels it. *)
Fairness ==
  /\ \A j \in Job : WF_vars(Workers(j))
  /\ \A w \in Watcher : WF_vars(Stream(w))

Spec == Init /\ [][Next]_vars /\ Fairness

-----------------------------------------------------------------------------
Update == [job : Job, status : Outcome]

(* The types; the queues carry outcomes only, at most one of each job. *)
TypeOK ==
  /\ ServiceTypeOK
  /\ order \in Seq(Job) /\ Len(order) = Cardinality(Job \ At("new"))
  /\ watchers \subseteq Watcher
  /\ phase \in [Watcher -> {"new", "listing", "streaming", "leaving", "ended", "broken"}]
  /\ size \in [Watcher -> 0..Len(order)]
  /\ pos \in [Watcher -> 0..Len(order)]
  /\ mail \in [Watcher -> Seq(Update)]
  /\ \A w \in Watcher : Len(mail[w]) <= Cardinality(Job)
  /\ told \in [Watcher -> [Job -> Status]]

(* The manager feeds exactly the streams that are open, however they end:
   no queue is left behind to fill up. *)
OpenStreamsAreWatched ==
  watchers = {w \in Watcher : phase[w] \in {"listing", "streaming", "leaving"}}

Watching(w) == phase[w] \in {"listing", "streaming"}
Ended(j) == stage[j] \in {"notifying", "closed"}

\* w is still to be told of j.
OnItsWay(w, j) ==
  \/ \E i \in DOMAIN mail[w] : mail[w][i] = [job |-> j, status |-> store[j]]
  \/ phase[w] = "listing" /\ \E i \in (pos[w] + 1)..Len(order) : order[i] = j

(* A watcher misses no outcome of a worker: neither between the initial list
   and the updates nor while the list is still being sent.  (The failure of a
   job the queue refuses is not an update: only on_complete makes updates.) *)
NothingIsMissed ==
  \A w \in Watcher, j \in Job :
    Watching(w) /\ Ended(j) => told[w][j] = store[j] \/ OnItsWay(w, j)

(* A client that has been told an outcome is never told anything else of that
   job, although the list and the updates reach it through two channels. *)
NeverBackwards ==
  [][\A w \in Watcher, j \in Job :
       told[w][j] \in Outcome => told'[w][j] = told[w][j]]_vars

(* A watcher is told every outcome in the end, unless its stream ends. *)
WatchersCatchUp ==
  \A w \in Watcher, j \in Job :
    Watching(w) /\ Ended(j) ~> told[w][j] = store[j] \/ ~Watching(w)

(* What the service says of WatchJobs, that it sends the initial list and
   then streams the changes of status: only the client ends a stream. *)
StreamsLast == \A w \in Watcher : phase[w] # "broken"
=============================================================================
