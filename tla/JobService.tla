----------------------------- MODULE JobService -----------------------------
(***************************************************************************)
(* What the job queue promises to the servers built on it, without its     *)
(* workers, its sentinels and its semaphore.  A job is stored as pending   *)
(* by its creator, handed over (accepted or rejected), claimed by a worker *)
(* in the order of acceptance, begun, finished with an outcome that is     *)
(* never changed again, announced through its on_complete callback and     *)
(* then left alone.  A job whose worker is cancelled is lost: it stays     *)
(* pending for ever.                                                       *)
(*                                                                         *)
(* JobQueue is shown to implement this specification; RestServer and       *)
(* GrpcServer are built from its actions.                                  *)
(***************************************************************************)
EXTENDS Naturals, FiniteSets

CONSTANTS
  Job,          \* the identifiers of the jobs a run may create
  Orphans,      \* the jobs submitted without an entry in the store
  MaxQueue,     \* max_queue_size
  MaxWorkers    \* max_workers

ASSUME ServiceAssumption ==
  /\ IsFiniteSet(Job)
  /\ Orphans \subseteq Job
  /\ MaxQueue \in Nat \ {0}
  /\ MaxWorkers \in Nat \ {0}

VARIABLES
  store,        \* store[j].status, "absent" when j has no entry
  stage,        \* how far the service has taken the job
  ticket,       \* the position of the job in the order of acceptance, 0 before
  clock         \* the number of jobs accepted so far

serviceVars == <<store, stage, ticket, clock>>

Status == {"absent", "pending", "done", "failed"}
Outcome == {"done", "failed"}
Stage == {"new", "stored", "rejected", "waiting", "claimed",
          "running", "notifying", "closed", "lost"}

At(s) == {j \in Job : stage[j] = s}

\* j entered the service before every other job of S.
Oldest(j, S) == \A k \in S : ticket[j] <= ticket[k]

Move(j, s) == stage' = [stage EXCEPT ![j] = s]

\* What the creator does before it hands the job over.
Handed == [j \in Job |-> IF j \in Orphans THEN "new" ELSE "stored"]

ServiceInit ==
  /\ store = [j \in Job |-> "absent"]
  /\ stage = [j \in Job |-> "new"]
  /\ ticket = [j \in Job |-> 0]
  /\ clock = 0

(* The creator puts the pending payload into the shared store. *)
Store(j) ==
  /\ j \notin Orphans
  /\ stage[j] = "new"
  /\ Move(j, "stored")
  /\ store' = [store EXCEPT ![j] = "pending"]
  /\ UNCHANGED <<ticket, clock>>

(* submit() returns True. *)
Accept(j) ==
  /\ stage[j] = Handed[j]
  /\ Cardinality(At("waiting")) < MaxQueue
  /\ Move(j, "waiting")
  /\ clock' = clock + 1
  /\ ticket' = [ticket EXCEPT ![j] = clock + 1]
  /\ UNCHANGED store

\* Mutant: the creator forgets to mark the job it could not hand over.
RejectSilently(j) ==
  /\ stage[j] = Handed[j]
  /\ Move(j, "rejected")
  /\ UNCHANGED <<store, ticket, clock>>

(* submit() returns False and the creator marks its job failed. *)
Reject(j) ==
  /\ stage[j] = Handed[j]
  /\ Move(j, "rejected")
  /\ store' = IF j \in Orphans THEN store ELSE [store EXCEPT ![j] = "failed"]
  /\ UNCHANGED <<ticket, clock>>

(* A worker takes the oldest waiting job. *)
Claim(j) ==
  /\ stage[j] = "waiting"
  /\ Oldest(j, At("waiting"))
  /\ Move(j, "claimed")
  /\ UNCHANGED <<store, ticket, clock>>

(* The oldest claimed job begins; with no entry in the store it ends there,
   without an outcome and without a callback. *)
Begin(j) ==
  /\ stage[j] = "claimed"
  /\ Oldest(j, At("claimed"))
  /\ Cardinality(At("running") \cup At("notifying")) < MaxWorkers
  /\ Move(j, IF store[j] = "absent" THEN "closed" ELSE "running")
  /\ UNCHANGED <<store, ticket, clock>>

(* The handler returns or raises: the outcome is stored, then announced. *)
Finish(j, outcome) ==
  /\ stage[j] = "running"
  /\ Move(j, "notifying")
  /\ store' = [store EXCEPT ![j] = outcome]
  /\ UNCHANGED <<ticket, clock>>

(* on_complete has returned, raised, or been cancelled. *)
Close(j) ==
  /\ stage[j] = "notifying"
  /\ Move(j, "closed")
  /\ UNCHANGED <<store, ticket, clock>>

(* The workers of the jobs in S are cancelled. *)
Lose(S) ==
  /\ S # {}
  /\ S \subseteq At("claimed") \cup At("running")
  /\ stage' = [j \in Job |-> IF j \in S THEN "lost" ELSE stage[j]]
  /\ UNCHANGED <<store, ticket, clock>>

ServiceNext ==
  \/ \E j \in Job : \/ Store(j) \/ Accept(j) \/ Reject(j)
                    \/ Claim(j) \/ Begin(j) \/ Close(j)
                    \/ \E outcome \in Outcome : Finish(j, outcome)
  \/ \E S \in SUBSET Job : Lose(S)

ServiceSpec == ServiceInit /\ [][ServiceNext]_serviceVars

-----------------------------------------------------------------------------
ServiceTypeOK ==
  /\ store \in [Job -> Status]
  /\ stage \in [Job -> Stage]
  /\ ticket \in [Job -> Nat]
  /\ clock \in Nat

(* The answer of GET /jobs/{id} tells a client how far its job is: an
   outcome is visible exactly from the moment the handler has ended (or the
   queue has refused the job), and a job nobody works on any more without an
   outcome was lost or never had an entry. *)
StatusMatchesStage ==
  \A j \in Job \ Orphans :
    /\ (store[j] \in Outcome) <=> (stage[j] \in {"rejected", "notifying", "closed"})
    /\ (store[j] = "absent") <=> (stage[j] = "new")
=============================================================================
