----------------------------- MODULE RestServer -----------------------------
(***************************************************************************)
(* rest_api: POST /hash_jobs and /fib_jobs over the job queue, and the     *)
(* WebSocket stream /ws/jobs, whose manager broadcasts every job to all    *)
(* connections while it holds one asyncio.Lock.                            *)
(*                                                                         *)
(* The queue is JobService (JobQueue implements it): this module adds what *)
(* the request handlers and the worker's on_complete callback do around    *)
(* the service's actions.  The global queue is started once and never shut *)
(* down by the server, and every job has its entry, so Lose(S) does not    *)
(* happen and Orphans is empty.                                            *)
(***************************************************************************)
EXTENDS JobService, Sequences

CONSTANTS
  Client,      \* the WebSocket connections a run may see
  InitLimit    \* how many jobs an init message lists (50)

ASSUME RestAssumption ==
  /\ IsFiniteSet(Client)
  /\ InitLimit \in Nat \ {0}
  /\ Orphans = {}
  /\ Client \cap Job = {}

VARIABLES
  entries,  \* the jobs in the store, in the order of their insertion
  answer,   \* the answer of the POST that creates j: "none", "202" or "503"
  news,     \* the status a broadcast of j under way carries, or "none"
  line,     \* the holder of ws_manager._lock and, behind it, who waits for it
  sent,     \* how many connections the broadcast at the head has served
  dead,     \* the connections its send_text() raised for
  active,   \* ws_manager.active_connections
  conn,     \* where the handler websocket_jobs of each connection is
  gone,     \* the connections whose client has left
  view,     \* what each client knows: the last status it got for each job
  leftOut   \* history: the status, when the client connected, of the jobs that
            \* its init message left out

socketVars == <<active, conn, gone, view, leftOut>>
lockVars == <<line, sent, dead>>
vars == <<serviceVars, entries, answer, news, lockVars, socketVars>>

Init ==
  /\ ServiceInit
  /\ entries = <<>>
  /\ answer = [j \in Job |-> "none"]
  /\ news = [j \in Job |-> "none"]
  /\ line = <<>>
  /\ sent = 0
  /\ dead = {}
  /\ active = <<>>
  /\ conn = [c \in Client |-> "new"]
  /\ gone = {}
  /\ view = [c \in Client |-> [j \in Job |-> "absent"]]
  /\ leftOut = [c \in Client |-> [j \in Job |-> "absent"]]

\* asyncio.Lock is first come, first served.
Holds(x) == line # <<>> /\ Head(line) = x
Registered == {active[i] : i \in DOMAIN active}

\* s without the elements of S, in the order of s.
Without(s, S) ==
  LET kept == {i \in DOMAIN s : s[i] \notin S}
      Rank(i) == Cardinality({k \in kept : k < i})
  IN [n \in 1..Cardinality(kept) |-> s[CHOOSE i \in kept : Rank(i) = n - 1]]

-----------------------------------------------------------------------------
(* broadcast() *)

(* The early return without connections; otherwise the message is fixed
   before the lock is asked for. *)
Broadcast(j, status) ==
  IF active = <<>> THEN UNCHANGED <<news, line>>
  ELSE /\ news' = [news EXCEPT ![j] = status]
       /\ line' = Append(line, j)

\* Nobody is broadcasting j: the await in its handler or worker has returned.
Quiet(j) == news[j] = "none"

\* Mutant: an exception of send_text() leaves the loop.
SendStopsAtFailure(j) ==
  /\ Holds(j) /\ sent < Len(active)
  /\ LET c == active[sent + 1]
     IN IF c \in gone
        THEN /\ sent' = Len(active)
             /\ UNCHANGED <<dead, view>>
        ELSE /\ sent' = sent + 1
             /\ view' = [view EXCEPT ![c][j] = news[j]]
             /\ UNCHANGED dead
  /\ UNCHANGED <<serviceVars, entries, answer, news, line, active, conn, gone, leftOut>>

(* send_text() to the next connection: it reaches a client that is there;
   to one that has left it raises, or is lost without an error. *)
Send(j) ==
  /\ Holds(j) /\ sent < Len(active)
  /\ sent' = sent + 1
  /\ LET c == active[sent + 1]
     IN \/ /\ c \notin gone
           /\ view' = [view EXCEPT ![c][j] = news[j]]
           /\ UNCHANGED dead
        \/ /\ c \in gone
           /\ dead' \in {dead, dead \cup {c}}
           /\ UNCHANGED view
  /\ UNCHANGED <<serviceVars, entries, answer, news, line, active, conn, gone, leftOut>>

\* Mutant: disconnect() is awaited for each dead connection, under the lock it
\* wants to take.
EndBroadcastByDisconnect(j) ==
  /\ Holds(j) /\ sent = Len(active)
  /\ dead = {}
  /\ sent' = 0
  /\ line' = Tail(line)
  /\ news' = [news EXCEPT ![j] = "none"]
  /\ UNCHANGED <<serviceVars, entries, answer, dead, socketVars>>

(* The dead connections are removed and the lock is released. *)
EndBroadcast(j) ==
  /\ Holds(j) /\ sent = Len(active)
  /\ active' = Without(active, dead)
  /\ dead' = {}
  /\ sent' = 0
  /\ line' = Tail(line)
  /\ news' = [news EXCEPT ![j] = "none"]
  /\ UNCHANGED <<serviceVars, entries, answer, conn, gone, view, leftOut>>

-----------------------------------------------------------------------------
(* POST /hash_jobs, POST /fib_jobs *)

\* Mutant: the new job is not announced.
PostInSilence(j) ==
  /\ Store(j)
  /\ entries' = Append(entries, j)
  /\ UNCHANGED <<answer, news, lockVars, socketVars>>

(* The payload is stored and announced to the connections. *)
Post(j) ==
  /\ Store(j)
  /\ entries' = Append(entries, j)
  /\ Broadcast(j, "pending")
  /\ UNCHANGED <<answer, sent, dead, socketVars>>

(* submit() succeeds and the handler answers at once. *)
SubmitJob(j) ==
  /\ Quiet(j)
  /\ Accept(j)
  /\ answer' = [answer EXCEPT ![j] = "202"]
  /\ UNCHANGED <<entries, news, lockVars, socketVars>>

(* The queue is full: the job is marked failed and that is broadcast. *)
QueueFull(j) ==
  /\ Quiet(j)
  /\ Cardinality(At("waiting")) = MaxQueue
  /\ Reject(j)
  /\ Broadcast(j, "failed")
  /\ UNCHANGED <<entries, answer, sent, dead, socketVars>>

Refuse(j) ==
  /\ stage[j] = "rejected" /\ Quiet(j) /\ answer[j] = "none"
  /\ answer' = [answer EXCEPT ![j] = "503"]
  /\ UNCHANGED <<serviceVars, entries, news, lockVars, socketVars>>

-----------------------------------------------------------------------------
(* The workers, with on_complete = RestApiServer._on_job_complete *)

(* A worker has one job from the claim to the end of the callback. *)
WorkerClaims(j) ==
  /\ Cardinality(At("claimed") \cup At("running") \cup At("notifying")) < MaxWorkers
  /\ Claim(j)
  /\ UNCHANGED <<entries, answer, news, lockVars, socketVars>>

WorkerBegins(j) ==
  /\ Begin(j)
  /\ UNCHANGED <<entries, answer, news, lockVars, socketVars>>

\* Mutant: the payload is broadcast as it was when the job was created.
WorkerAnnouncesOldPayload(j, outcome) ==
  /\ Finish(j, outcome)
  /\ Broadcast(j, "pending")
  /\ UNCHANGED <<entries, answer, sent, dead, socketVars>>

(* The outcome is stored and the callback starts to broadcast it without a
   suspension in between. *)
WorkerFinishes(j, outcome) ==
  /\ Finish(j, outcome)
  /\ Broadcast(j, outcome)
  /\ UNCHANGED <<entries, answer, sent, dead, socketVars>>

CallbackReturns(j) ==
  /\ Quiet(j)
  /\ Close(j)
  /\ UNCHANGED <<entries, answer, news, lockVars, socketVars>>

-----------------------------------------------------------------------------
(* WebSocket /ws/jobs *)

(* connect(): the socket is accepted, then the lock is asked for. *)
Dial(c) ==
  /\ conn[c] = "new"
  /\ conn' = [conn EXCEPT ![c] = "joining"]
  /\ line' = Append(line, c)
  /\ UNCHANGED <<serviceVars, entries, answer, news, sent, dead, active, gone, view, leftOut>>

\* list(jobs.values())[-50:], the jobs of the init message.
Recent == {entries[i] : i \in {k \in DOMAIN entries : k > Len(entries) - InitLimit}}

(* The connection is appended, the lock released and the init message built
   and handed to the socket, all without a suspension. *)
Register(c) ==
  /\ conn[c] = "joining" /\ Holds(c)
  /\ active' = Append(active, c)
  /\ line' = Tail(line)
  /\ conn' = [conn EXCEPT ![c] = "open"]
  /\ view' = IF c \in gone THEN view
             ELSE [view EXCEPT ![c] = [j \in Job |-> IF j \in Recent THEN store[j] ELSE "absent"]]
  /\ leftOut' = [leftOut EXCEPT ![c] = [j \in Job |-> IF j \in Recent THEN "absent" ELSE store[j]]]
  /\ UNCHANGED <<serviceVars, entries, answer, news, sent, dead, gone>>

(* The client closes its side or its network fails. *)
ClientLeaves(c) ==
  /\ conn[c] \in {"joining", "open"} /\ c \notin gone
  /\ gone' = gone \cup {c}
  /\ UNCHANGED <<serviceVars, entries, answer, news, lockVars, active, conn, view, leftOut>>

\* Mutant: no disconnect() in a finally block.
HangUpOnly(c) ==
  /\ conn[c] = "open" /\ c \in gone
  /\ conn' = [conn EXCEPT ![c] = "closed"]
  /\ UNCHANGED <<serviceVars, entries, answer, news, lockVars, active, gone, view, leftOut>>

\* Mutant: disconnect() removes the connection without the lock.
HangUpWithoutLock(c) ==
  /\ conn[c] = "open" /\ c \in gone
  /\ conn' = [conn EXCEPT ![c] = "closed"]
  /\ active' = Without(active, {c})
  /\ UNCHANGED <<serviceVars, entries, answer, news, lockVars, gone, view, leftOut>>

(* The receive loop or the ping raises; disconnect() asks for the lock. *)
HangUp(c) ==
  /\ conn[c] = "open" /\ c \in gone
  /\ conn' = [conn EXCEPT ![c] = "leaving"]
  /\ line' = Append(line, c)
  /\ UNCHANGED <<serviceVars, entries, answer, news, sent, dead, active, gone, view, leftOut>>

(* The connection is removed unless a broadcast has already done so. *)
Unregister(c) ==
  /\ conn[c] = "leaving" /\ Holds(c)
  /\ active' = Without(active, {c})
  /\ line' = Tail(line)
  /\ conn' = [conn EXCEPT ![c] = "closed"]
  /\ UNCHANGED <<serviceVars, entries, answer, news, sent, dead, gone, view, leftOut>>

-----------------------------------------------------------------------------
Handlers(j) == SubmitJob(j) \/ QueueFull(j) \/ Refuse(j)

Workers(j) ==
  \/ WorkerClaims(j) \/ WorkerBegins(j) \/ CallbackReturns(j)
  \/ \E outcome \in Outcome : WorkerFinishes(j, outcome)

Sockets(c) == Register(c) \/ HangUp(c) \/ Unregister(c)

Next ==
  \/ \E j \in Job : Post(j) \/ Handlers(j) \/ Workers(j) \/ Send(j) \/ EndBroadcast(j)
  \/ \E c \in Client : Dial(c) \/ ClientLeaves(c) \/ Sockets(c)

(* Handlers, workers and connection handlers are tasks of one event loop; a
   send returns or raises in the end (the server's WebSocket keepalive closes
   a client that takes nothing).  Clients are not obliged to anything. *)
Fairness ==
  /\ \A j \in Job : /\ WF_vars(Handlers(j)) /\ WF_vars(Workers(j))
                    /\ WF_vars(Send(j)) /\ WF_vars(EndBroadcast(j))
  /\ \A c \in Client : WF_vars(Sockets(c))

Spec == Init /\ [][Next]_vars /\ Fairness

-----------------------------------------------------------------------------
(* The types, and that the list a broadcast walks through by position does
   not change under it. *)
TypeOK ==
  /\ ServiceTypeOK
  /\ entries \in Seq(Job)
  /\ answer \in [Job -> {"none", "202", "503"}]
  /\ news \in [Job -> Status \cup {"none"}]
  /\ line \in Seq(Job \cup Client)
  /\ sent \in 0..Len(active) /\ dead \subseteq Registered
  /\ active \in Seq(Client) /\ Cardinality(Registered) = Len(active)
  /\ conn \in [Client -> {"new", "joining", "open", "leaving", "closed"}]
  /\ gone \subseteq Client
  /\ view \in [Client -> [Job -> Status]]
  /\ leftOut \in [Client -> [Job -> Status]]

Present(c) == conn[c] = "open" /\ c \notin gone

\* The broadcast of j under way has still to be sent to c.
OnItsWay(j, c) ==
  \/ \E i \in 2..Len(line) : line[i] = j
  \/ Holds(j) /\ \E i \in (sent + 1)..Len(active) : active[i] = c

\* InitLimit jobs are newer than j.
TooOld(j) == \E i \in DOMAIN entries : entries[i] = j /\ i + InitLimit <= Len(entries)

(* The stream misses nothing: a connected client either knows the status in
   the store or a broadcast with just that status is on its way to it; the one
   exception is a job that was too old for the init message and whose status has
   not changed since.  This ties the snapshot of the init message, the early return
   of broadcast() without connections, the position in the list and the lock
   together. *)
NothingIsMissed ==
  \A c \in Client, j \in Job :
    Present(c) => \/ view[c][j] = store[j]
                  \/ news[j] = store[j] /\ OnItsWay(j, c)
                  \/ view[c][j] = "absent" /\ store[j] = leftOut[c][j] /\ TooOld(j)

(* A connected client hears of a job as pending (or in its init message)
   before it hears the outcome; of a job that was too old for its init message
   the outcome may be the first thing it hears. *)
CreatedBeforeOutcome ==
  [][\A c \in Client, j \in Job :
       Present(c) /\ view'[c][j] # view[c][j] =>
         \/ view[c][j] = IF view'[c][j] = "pending" THEN "absent" ELSE "pending"
         \/ /\ leftOut[c][j] # "absent" /\ TooOld(j)
            /\ view[c][j] = "absent" /\ view'[c][j] \in Outcome]_vars

(* Every POST is answered: neither the lock nor a broadcast holds it up for
   ever. *)
EveryPostIsAnswered == \A j \in Job : stage[j] = "stored" ~> answer[j] # "none"

(* Every accepted job gets its outcome, although each worker waits for the
   lock and for every connection before it takes the next job. *)
AcceptedJobsEnd == \A j \in Job : stage[j] = "waiting" ~> store[j] \in Outcome

(* A connected client learns every outcome or leaves, unless the job had ended
   before the client connected and was too old for the init message. *)
ClientsCatchUp ==
  \A c \in Client, j \in Job :
    Present(c) /\ store[j] \in Outcome /\ leftOut[c][j] \notin Outcome
      ~> view[c][j] = store[j] \/ c \in gone

(* A client that has left is removed from the list for good. *)
DepartedAreForgotten == \A c \in Client : c \in gone ~> [](c \notin Registered)
=============================================================================
