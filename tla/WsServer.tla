------------------------------- MODULE WsServer -------------------------------
(***************************************************************************)
(* websocket_api/server.py: the endpoint /ws.  One coroutine per           *)
(* connection accepts, sends the init message and then handles one request *)
(* after the other; every send is a suspension.  A job's on_complete keeps *)
(* the connection of its creator, and a worker sends the job_update there  *)
(* while the endpoint may be in the middle of another request.             *)
(*                                                                         *)
(* Only the server's half: each operator leaves the clients' variables to  *)
(* the module that composes it with them.  A job names the request that    *)
(* creates it; the id is minted by the server.  Lists of jobs are reduced  *)
(* to the fact that they are sent.                                         *)
(***************************************************************************)
EXTENDS JobService, Sequences

CONSTANTS
  Conn,     \* the connections
  NoJob,    \* a message about no job; the endpoint is creating none
  NoConn    \* the connection of a job not requested yet

ASSUME WsAssumption ==
  /\ Orphans = {}
  /\ NoJob \notin Job
  /\ NoConn \notin Conn

VARIABLES
  form,     \* form[j]: "async", "sync", or "invalid" (params or type refused)
  conn,     \* "none", "open", "deaf" (the client reads no more), or "broken"
  inbox,    \* the requests the endpoint has not received yet
  outbox,   \* the messages the client has not taken yet
  at,       \* where the endpoint of each connection is
  made,     \* the job it is creating
  socket,   \* the connection on_complete of each job sends to
  updated   \* history: the jobs whose job_update was sent before it was broken

wireVars == <<conn, inbox, outbox>>
endpointVars == <<form, at, made, socket, updated>>
wsVars == <<serviceVars, wireVars, endpointVars>>

Form == {"async", "sync", "invalid"}
Ask == {"create_job", "get_job", "list_jobs", "get_queue_status"}
Request == [ask : Ask, job : Job \cup {NoJob}]
MessageType == {"init", "job_created", "job_update", "job_result", "job",
                "jobs", "queue_status", "error"}
Message == [type : MessageType, job : Job \cup {NoJob}, status : Status]

About(type, j) == [type |-> type, job |-> j, status |-> "absent"]
Plain(type) == About(type, NoJob)

WsInit ==
  /\ ServiceInit
  /\ form \in [Job -> Form]
  /\ conn = [c \in Conn |-> "none"]
  /\ inbox = [c \in Conn |-> <<>>]
  /\ outbox = [c \in Conn |-> <<>>]
  /\ at = [c \in Conn |-> "off"]
  /\ made = [c \in Conn |-> NoJob]
  /\ socket = [j \in Job |-> NoConn]
  /\ updated = {}

-----------------------------------------------------------------------------
(* The wire *)

\* A message to a client that reads no more or has gone vanishes.
Push(c, m) ==
  outbox' = IF conn[c] = "open" THEN [outbox EXCEPT ![c] = Append(@, m)] ELSE outbox

\* The handshake: the endpoint accepts, sends init and waits for requests. A
\* late init is one that the client has not taken yet.
Open(c) ==
  /\ conn[c] = "none"
  /\ conn' = [conn EXCEPT ![c] = "open"]
  /\ outbox' = [outbox EXCEPT ![c] = <<Plain("init")>>]
  /\ at' = [at EXCEPT ![c] = "receive"]
  /\ UNCHANGED <<inbox, form, made, socket, updated>>

(* The network breaks the connection: the last requests and the last
   messages on their way are lost. *)
Break(c) ==
  /\ conn[c] \in {"open", "deaf"}
  /\ conn' = [conn EXCEPT ![c] = "broken"]
  /\ \E n \in 0..Len(inbox[c]) : inbox' = [inbox EXCEPT ![c] = SubSeq(@, 1, n)]
  /\ \E n \in 0..Len(outbox[c]) : outbox' = [outbox EXCEPT ![c] = SubSeq(@, 1, n)]
  /\ UNCHANGED <<serviceVars, endpointVars>>

-----------------------------------------------------------------------------
(* The endpoint *)

\* An exception leaves the endpoint: so does the one it meets when it sends
\* the error message, the connection being broken.
EndpointEnds(c) ==
  /\ at' = [at EXCEPT ![c] = "ended"]
  /\ made' = [made EXCEPT ![c] = NoJob]

\* send_json(m), and what is next; on a broken connection it may raise.
Sends(c, m, next) ==
  \/ /\ Push(c, m)
     /\ at' = [at EXCEPT ![c] = next]
     /\ made' = [made EXCEPT ![c] = IF next = "receive" THEN NoJob ELSE @]
  \/ /\ conn[c] = "broken"
     /\ EndpointEnds(c)
     /\ UNCHANGED outbox

\* receive_text() returns the request, which _handle_message dispatches on.
Receives(c, ask, j) ==
  /\ at[c] = "receive"
  /\ inbox[c] # <<>> /\ Head(inbox[c]) = [ask |-> ask, job |-> j]
  /\ inbox' = [inbox EXCEPT ![c] = Tail(@)]

(* hash and fib: the params validate and the pending entry is stored. *)
StoresJob(c, j) ==
  /\ Receives(c, "create_job", j)
  /\ form[j] = "async"
  /\ Store(j)
  /\ made' = [made EXCEPT ![c] = j]
  /\ socket' = [socket EXCEPT ![j] = c]
  /\ at' = [at EXCEPT ![c] = "created"]
  /\ UNCHANGED <<conn, outbox, form, updated>>

\* Mutant: the job is submitted before job_created is sent.
SubmitsFirst(c) ==
  /\ at[c] = "created"
  /\ stage[made[c]] = "stored"
  /\ Accept(made[c])
  /\ UNCHANGED <<wireVars, endpointVars>>

\* Mutant: as above, and then job_created is sent.
SendsCreatedLate(c) ==
  \/ SubmitsFirst(c)
  \/ /\ at[c] = "created" /\ stage[made[c]] # "stored"
     /\ Sends(c, About("job_created", made[c]), "receive")
     /\ UNCHANGED <<serviceVars, conn, inbox, form, socket, updated>>

(* job_created is sent before the job is submitted: if that raises, the entry
   stays pending. *)
SendsCreated(c) ==
  /\ at[c] = "created"
  /\ Sends(c, About("job_created", made[c]), "submit")
  /\ UNCHANGED <<serviceVars, conn, inbox, form, socket, updated>>

\* Mutant: the endpoint still has the job in hand when it receives again.
SubmitsHolding(c) ==
  /\ at[c] = "submit"
  /\ Accept(made[c])
  /\ at' = [at EXCEPT ![c] = "receive"]
  /\ UNCHANGED <<wireVars, form, made, socket, updated>>

(* submit() returns True. *)
Submits(c) ==
  /\ at[c] = "submit"
  /\ Accept(made[c])
  /\ at' = [at EXCEPT ![c] = "receive"]
  /\ made' = [made EXCEPT ![c] = NoJob]
  /\ UNCHANGED <<wireVars, form, socket, updated>>

\* Mutant: the job the full queue refuses is marked failed, and nobody is told.
IsRefusedSilently(c) ==
  /\ at[c] = "submit"
  /\ Reject(made[c])
  /\ at' = [at EXCEPT ![c] = "receive"]
  /\ made' = [made EXCEPT ![c] = NoJob]
  /\ UNCHANGED <<wireVars, form, socket, updated>>

\* job_update of j goes to the connection c.
Tells(c, j, status) ==
  Push(c, [type |-> "job_update", job |-> j, status |-> status])

\* j's job_update has been sent, and not to a broken connection.
Notes(c, j) == updated' = IF conn[c] = "broken" THEN updated ELSE updated \cup {j}

(* The queue is full, of these jobs and of other clients': the job is marked
   failed and its creator told. *)
IsRefused(c) ==
  /\ at[c] = "submit"
  /\ Reject(made[c])
  /\ Sends(c, [type |-> "job_update", job |-> made[c], status |-> "failed"], "receive")
  /\ Notes(c, made[c])
  /\ UNCHANGED <<conn, inbox, form, socket>>

\* The other requests do not touch the store: one answer.
Replies(c, ask, j, m) ==
  /\ Receives(c, ask, j)
  /\ Sends(c, m, "receive")
  /\ UNCHANGED <<serviceVars, conn, form, socket, updated>>

(* echo, calc and stats: the handler runs here and its result is the answer. *)
ExecutesSync(c, j) ==
  /\ form[j] = "sync"
  /\ Replies(c, "create_job", j, About("job_result", j))

(* The params do not validate, the handler raises, or the type is unknown. *)
RefusesRequest(c, j) ==
  /\ form[j] = "invalid"
  /\ Replies(c, "create_job", j, Plain("error"))

(* The record as it is now, or an error: not found. *)
GetsJob(c, j) ==
  Replies(c, "get_job", j, IF store[j] = "absent" THEN About("error", j)
                           ELSE [type |-> "job", job |-> j, status |-> store[j]])

ListsJobs(c) == Replies(c, "list_jobs", NoJob, Plain("jobs"))

GetsQueueStatus(c) == Replies(c, "get_queue_status", NoJob, Plain("queue_status"))

(* receive_text() raises WebSocketDisconnect. *)
Disconnects(c) ==
  /\ at[c] = "receive"
  /\ conn[c] = "broken" /\ inbox[c] = <<>>
  /\ EndpointEnds(c)
  /\ UNCHANGED <<serviceVars, wireVars, form, socket, updated>>

Endpoint(c) ==
  \/ SendsCreated(c) \/ Submits(c) \/ IsRefused(c)
  \/ \E j \in Job : \/ StoresJob(c, j) \/ ExecutesSync(c, j)
                    \/ RefusesRequest(c, j) \/ GetsJob(c, j)
  \/ ListsJobs(c) \/ GetsQueueStatus(c) \/ Disconnects(c)

-----------------------------------------------------------------------------
(* The queue's workers *)

WorkerClaims(j) ==
  /\ Cardinality(At("claimed") \cup At("running") \cup At("notifying")) < MaxWorkers
  /\ Claim(j)
  /\ UNCHANGED <<wireVars, endpointVars>>

WorkerBegins(j) ==
  /\ Begin(j)
  /\ UNCHANGED <<wireVars, endpointVars>>

WorkerFinishes(j, outcome) ==
  /\ Finish(j, outcome)
  /\ UNCHANGED <<wireVars, endpointVars>>

(* on_complete: _broadcast_job_update on the creator's connection.  On a
   broken one nothing arrives; an exception is only logged. *)
CallbackSends(j) ==
  /\ Close(j)
  /\ Tells(socket[j], j, store[j])
  /\ Notes(socket[j], j)
  /\ UNCHANGED <<conn, inbox, form, at, made, socket>>

Workers(j) ==
  \/ WorkerClaims(j) \/ WorkerBegins(j) \/ CallbackSends(j)
  \/ \E outcome \in Outcome : WorkerFinishes(j, outcome)

Server == (\E c \in Conn : Endpoint(c)) \/ (\E j \in Job : Workers(j))

-----------------------------------------------------------------------------
WsTypeOK ==
  /\ ServiceTypeOK
  /\ form \in [Job -> Form]
  /\ conn \in [Conn -> {"none", "open", "deaf", "broken"}]
  /\ inbox \in [Conn -> Seq(Request)]
  /\ outbox \in [Conn -> Seq(Message)]
  /\ at \in [Conn -> {"off", "receive", "created", "submit", "ended"}]
  /\ made \in [Conn -> Job \cup {NoJob}]
  /\ \A c \in Conn : made[c] # NoJob <=> at[c] \in {"created", "submit"}
  /\ socket \in [Job -> Conn \cup {NoConn}]
  /\ updated \subseteq Job

(* The job_update of a job is the last thing a connection is told of it: it
   never overtakes job_created and is never sent twice, although a worker
   sends it while the endpoint handles requests (get_job is another
   answer, on request). *)
UpdateComesLast ==
  \A c \in Conn : \A i, k \in DOMAIN outbox[c] :
    i < k /\ outbox[c][i].type = "job_update" /\ outbox[c][k].job = outbox[c][i].job
      => outbox[c][k].type = "job"

(* Every job that has got its entry is announced to its creator with a
   job_update, as long as the creator's connection holds: none is left
   pending between its storing and its submission, and the job the full queue
   refuses is announced as well. *)
UpdateArrives ==
  \A j \in Job : store[j] # "absent" ~>
    (j \in updated \/ \E c \in Conn : socket[j] = c /\ conn[c] = "broken")
=============================================================================
