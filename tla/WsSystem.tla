------------------------------- MODULE WsSystem -------------------------------
(***************************************************************************)
(* The clients of the WebSocket server, each over connections of its own:  *)
(*                                                                         *)
(*   - the UI (communication_ui/rest/websocket_client.py): a batch sends   *)
(*     its requests one after the other over one connection and waits for  *)
(*     the answer to each, and a single request has a connection of its    *)
(*     own; messages carry no request id, so an answer is whatever comes   *)
(*     next;                                                               *)
(*   - WebSocketJobClient (websocket_api/client.py): one object whose      *)
(*     calls run one after the other, each in an event loop of its own and *)
(*     over a new connection, except get_queue_status(), which takes the   *)
(*     connection of the previous loop if there is one.                    *)
(***************************************************************************)
EXTENDS WsServer

CONSTANTS
  Batch,     \* the connection of the UI's batch
  BatchJob,  \* the requests of the batch
  Single,    \* the UI's single requests; each names its connection as well
  ApiConn,   \* the connections of WebSocketJobClient
  ApiJob,    \* the jobs it may create and ask for
  Api,       \* WebSocketJobClient
  Parties,   \* bound: which clients are used in the same behaviour
  MaxUnread  \* bound: the requests the endpoint has not received

ASSUME WsSystemAssumption ==
  /\ Single \subseteq Job
  /\ Batch \notin Single \cup ApiConn /\ Single \cap ApiConn = {}
  /\ Conn = {Batch} \cup Single \cup ApiConn
  /\ Job = BatchJob \cup Single \cup ApiJob
  /\ Api \notin {Batch} \cup Single
  /\ Parties \subseteq SUBSET ({Batch, Api} \cup Single)
  /\ MaxUnread \in Nat
  /\ BatchJob # {} /\ BatchJob \cap (Single \cup ApiJob) = {} /\ Single \cap ApiJob = {}

VARIABLES
  party,     \* the clients in use
  uiPc,      \* where the call on each UI connection is
  sent,      \* the requests it has sent or failed to send
  results,   \* its successes and failures, in the order of their arrival
  websocket, \* WebSocketJobClient.websocket, NoConn for None
  apiPc,     \* where its current call is
  asked,     \* the request of that call
  attempt,   \* attempt[j]: "none", "tried", or "created" when create_job returned it
  reply      \* what the last call returned

uiVars == <<party, uiPc, sent, results>>
apiVars == <<websocket, apiPc, asked, attempt, reply>>
vars == <<wsVars, uiVars, apiVars>>

Ui == {Batch} \cup Single
Requests(u) == IF u = Batch THEN BatchJob ELSE {u}

UiResult == [ok : BOOLEAN, job : Job \cup {NoJob}]
Failure == [ok |-> FALSE, job |-> NoJob]
Success(j) == [ok |-> TRUE, job |-> j]

QueueStatus == [ask |-> "get_queue_status", job |-> NoJob]
Reply == [type : MessageType \cup {"none", "timeout"}, job : Job \cup {NoJob},
          status : Status, asked : Request, known : BOOLEAN]
NoReply == [type |-> "none", job |-> NoJob, status |-> "absent",
            asked |-> QueueStatus, known |-> FALSE]

\* The requests of a batch have one type and one set of params; bound: so have
\* all requests of a behaviour.
Init ==
  /\ WsInit
  /\ \A i, j \in Job : form[i] = form[j]
  /\ party \in Parties
  /\ uiPc = [u \in Ui |-> "idle"]
  /\ sent = [u \in Ui |-> {}]
  /\ results = [u \in Ui |-> <<>>]
  /\ websocket = NoConn
  /\ apiPc = "idle"
  /\ asked = QueueStatus
  /\ attempt = [j \in ApiJob |-> "none"]
  /\ reply = NoReply

-----------------------------------------------------------------------------
(* The UI: _run_websocket_batch_persistent and _create_job_async *)

UiEnter(u, p) == uiPc' = [uiPc EXCEPT ![u] = p]

\* Every request that has no result yet becomes a failure.
UiFailsRest(u) ==
  /\ UiEnter(u, "done")
  /\ results' = [results EXCEPT ![u] = @ \o
       [i \in 1..Cardinality(Requests(u)) - Len(@) |-> Failure]]
  /\ UNCHANGED sent

\* One result more, and the next request; after the last one the `async with`
\* block is left and the connection closed.
UiRecords(u, r) ==
  /\ results' = [results EXCEPT ![u] = Append(@, r)]
  /\ \/ /\ sent'[u] # Requests(u)
        /\ UiEnter(u, "send")
        /\ UNCHANGED conn
     \/ /\ sent'[u] = Requests(u)
        /\ UiEnter(u, "done")
        /\ conn' = [conn EXCEPT ![u] = "broken"]

UiConnects(u) ==
  /\ u \in party /\ uiPc[u] = "idle"
  /\ Open(u)
  /\ UiEnter(u, "init")
  /\ UNCHANGED <<serviceVars, party, sent, results, apiVars>>

\* Mutant: a batch that cannot connect reports one failure.
UiCannotConnectOnce(u) ==
  /\ u \in party /\ uiPc[u] = "idle"
  /\ UiEnter(u, "done")
  /\ results' = [results EXCEPT ![u] = <<Failure>>]
  /\ UNCHANGED <<wsVars, party, sent, apiVars>>

UiCannotConnect(u) ==
  /\ u \in party /\ uiPc[u] = "idle"
  /\ UiFailsRest(u)
  /\ UNCHANGED <<wsVars, party, apiVars>>

(* The first message within 2 s is taken for init and dropped; without one
   the requests begin all the same. *)
UiTakesInit(u) ==
  /\ uiPc[u] = "init"
  /\ \/ outbox[u] # <<>> /\ outbox' = [outbox EXCEPT ![u] = Tail(@)]
     \/ UNCHANGED outbox
  /\ UiEnter(u, "send")
  /\ UNCHANGED <<serviceVars, conn, inbox, endpointVars, party, sent, results, apiVars>>

(* The connection is closed before that. *)
UiLosesInit(u) ==
  /\ uiPc[u] = "init"
  /\ conn[u] = "broken" /\ outbox[u] = <<>>
  /\ UiFailsRest(u)
  /\ UNCHANGED <<wsVars, party, apiVars>>

(* send() of the next request; on a broken connection it may raise, which is
   one failure. *)
UiSends(u) ==
  \E j \in Requests(u) \ sent[u] :
    /\ uiPc[u] = "send"
    /\ sent' = [sent EXCEPT ![u] = @ \cup {j}]
    /\ \/ /\ inbox' = IF conn[u] = "open"
                      THEN [inbox EXCEPT ![u] = Append(@, [ask |-> "create_job", job |-> j])]
                      ELSE inbox
          /\ UiEnter(u, "wait")
          /\ UNCHANGED <<conn, results>>
       \/ /\ conn[u] = "broken"
          /\ UiRecords(u, Failure)
          /\ UNCHANGED inbox
    /\ UNCHANGED <<serviceVars, outbox, endpointVars, party, apiVars>>

\* What the client asks for: a result at once, or a job. It goes by the type.
Wanted(u, m) ==
  m.type = IF \E j \in Requests(u) : form[j] = "sync" THEN "job_result" ELSE "job_created"

\* The batch ignores the job_update of an earlier asynchronous request.
Ignored(u, m) == u = Batch /\ m.type = "job_update"

(* recv() returns the next message, which may be the late answer to an earlier
   request, or init. *)
UiReads(u) ==
  /\ uiPc[u] = "wait" /\ outbox[u] # <<>>
  /\ outbox' = [outbox EXCEPT ![u] = Tail(@)]
  /\ UNCHANGED sent
  /\ LET m == Head(outbox[u]) IN
       \/ /\ Ignored(u, m)
          /\ UNCHANGED <<uiPc, results, conn>>
       \/ /\ ~Ignored(u, m)
          /\ UiRecords(u, IF Wanted(u, m) THEN Success(m.job) ELSE Failure)
  /\ UNCHANGED <<serviceVars, inbox, endpointVars, party, apiVars>>

(* 10 s have passed, or recv() raises because the connection is closed: one
   failure. *)
UiGivesUp(u) ==
  /\ uiPc[u] = "wait"
  /\ UNCHANGED sent
  /\ UiRecords(u, Failure)
  /\ UNCHANGED <<serviceVars, inbox, outbox, endpointVars, party, apiVars>>

UiCall(u) ==
  \/ UiConnects(u) \/ UiCannotConnect(u) \/ UiTakesInit(u) \/ UiLosesInit(u)
  \/ UiSends(u) \/ UiReads(u) \/ UiGivesUp(u)

-----------------------------------------------------------------------------
(* WebSocketJobClient *)

ApiAsk == [ask : {"create_job", "get_job"}, job : ApiJob]
          \cup [ask : {"list_jobs", "get_queue_status"}, job : {NoJob}]

MayAsk(r) ==
  /\ Api \in party /\ apiPc = "idle"
  /\ r.ask = "create_job" => attempt[r.job] = "none"

\* The call has begun.
Asks(r) ==
  /\ asked' = r
  /\ attempt' = IF r.ask = "create_job" THEN [attempt EXCEPT ![r.job] = "tried"] ELSE attempt
  /\ UNCHANGED <<reply, uiVars>>

\* get_queue_status() keeps what the last call left behind.
Reuses(r) == r.ask = "get_queue_status" /\ websocket # NoConn

(* The object is cleared and a new connection made. *)
ApiConnects(r, c) ==
  /\ MayAsk(r) /\ ~Reuses(r)
  /\ Open(c)
  /\ Asks(r)
  /\ websocket' = c
  /\ apiPc' = "init"
  /\ UNCHANGED serviceVars

(* RuntimeError: the client stays without a connection. *)
ApiCannotConnect(r) ==
  /\ MayAsk(r) /\ ~Reuses(r)
  /\ websocket # NoConn
  /\ websocket' = NoConn
  /\ UNCHANGED <<wsVars, apiPc, asked, attempt, reply, uiVars>>

\* The request goes out; to a broken connection it goes nowhere.
Posts(r) ==
  inbox' = IF conn[websocket] = "broken" THEN inbox
           ELSE [inbox EXCEPT ![websocket] = Append(@, r)]

(* init has come or 2 s have passed; a late init is skipped further on. *)
ApiSends ==
  /\ apiPc = "init"
  /\ Posts(asked)
  /\ apiPc' = "wait"
  /\ UNCHANGED <<serviceVars, conn, outbox, endpointVars, websocket,
                 asked, attempt, reply, uiVars>>

(* The request goes out on the connection of the last loop, whose listener
   has been cancelled: nobody reads the answer. *)
ApiSendsAgain ==
  /\ MayAsk(QueueStatus) /\ Reuses(QueueStatus)
  /\ Len(inbox[websocket]) < MaxUnread
  /\ Posts(QueueStatus)
  /\ Asks(QueueStatus)
  /\ apiPc' = "stale"
  /\ UNCHANGED <<serviceVars, conn, outbox, endpointVars, websocket>>

(* The queue is bound to the last loop: a new connection is made, but the
   request is not sent again. *)
ApiReconnects(c) ==
  /\ apiPc = "stale"
  /\ Open(c)
  /\ websocket' = c
  /\ apiPc' = "wait"
  /\ UNCHANGED <<serviceVars, asked, attempt, reply, uiVars>>

\* create_job() has returned j.
Created(j) == j \in ApiJob /\ attempt[j] = "created"

\* The call returns or raises; asyncio.run() cancels the listener, so that
\* nobody reads the connection any more, and the object keeps it.
ApiReturns(m) ==
  /\ apiPc' = "idle"
  /\ asked' = QueueStatus
  /\ reply' = [type |-> m.type, job |-> m.job, status |-> m.status,
               asked |-> asked, known |-> Created(asked.job)]
  /\ attempt' = [j \in ApiJob |->
       IF m.type = "job_created" /\ m.job = j THEN "created" ELSE attempt[j]]
  /\ conn' = [conn EXCEPT ![websocket] = IF @ = "open" THEN "deaf" ELSE @]
  /\ outbox' = [outbox EXCEPT ![websocket] = <<>>]
  /\ UNCHANGED <<serviceVars, inbox, endpointVars, websocket, uiVars>>

\* The type of message each request waits for.
Answer(r) ==
  CASE r.ask = "create_job" -> IF form[r.job] = "sync" THEN "job_result" ELSE "job_created"
    [] r.ask = "get_job" -> "job"
    [] r.ask = "list_jobs" -> "jobs"
    [] r.ask = "get_queue_status" -> "queue_status"

\* Mutant: the next message is taken for the answer, whatever its type.
ApiReadsAny ==
  /\ apiPc = "wait" /\ outbox[websocket] # <<>>
  /\ ApiReturns(Head(outbox[websocket]))

(* _wait_for_message: messages of other types are dropped; an error raises. *)
ApiReads ==
  /\ apiPc = "wait" /\ outbox[websocket] # <<>>
  /\ LET m == Head(outbox[websocket]) IN
       \/ /\ m.type \in {Answer(asked), "error"}
          /\ ApiReturns(m)
       \/ /\ m.type \notin {Answer(asked), "error"}
          /\ outbox' = [outbox EXCEPT ![websocket] = Tail(@)]
          /\ UNCHANGED <<serviceVars, conn, inbox, endpointVars, websocket, apiPc,
                         asked, attempt, reply, uiVars>>

(* 10 s have passed. *)
ApiTimesOut ==
  /\ apiPc \in {"wait", "stale"}
  /\ ApiReturns([type |-> "timeout", job |-> NoJob, status |-> "absent"])

(* send() on a broken connection raises. *)
ApiFails ==
  /\ apiPc = "init" /\ conn[websocket] = "broken"
  /\ ApiReturns(Plain("error"))

(* close() *)
ApiCloses ==
  /\ apiPc = "idle" /\ websocket # NoConn
  /\ websocket' = NoConn
  /\ UNCHANGED <<wsVars, apiPc, asked, attempt, reply, uiVars>>

ApiCall ==
  \/ \E r \in ApiAsk : ApiCannotConnect(r) \/ \E c \in ApiConn : ApiConnects(r, c)
  \/ \E c \in ApiConn : ApiReconnects(c)
  \/ ApiSends \/ ApiSendsAgain \/ ApiReads \/ ApiTimesOut \/ ApiFails \/ ApiCloses

-----------------------------------------------------------------------------
Serves == Server /\ UNCHANGED <<uiVars, apiVars>>

Breaks == (\E c \in Conn : Break(c)) /\ UNCHANGED <<uiVars, apiVars>>

Next == Serves \/ Breaks \/ ApiCall \/ \E u \in Ui : UiCall(u)

(* The server's coroutines run; nothing is assumed of clients and network. *)
Fairness ==
  /\ \A c \in Conn : WF_vars(Endpoint(c) /\ UNCHANGED <<uiVars, apiVars>>)
  /\ \A j \in Job : WF_vars(Workers(j) /\ UNCHANGED <<uiVars, apiVars>>)

Spec == Init /\ [][Next]_vars /\ Fairness

-----------------------------------------------------------------------------
TypeOK ==
  /\ WsTypeOK
  /\ party \in Parties
  /\ uiPc \in [Ui -> {"idle", "init", "send", "wait", "done"}]
  /\ \A u \in Ui : sent[u] \subseteq Requests(u)
  /\ results \in [Ui -> Seq(UiResult)]
  /\ websocket \in ApiConn \cup {NoConn}
  /\ apiPc \in {"idle", "init", "wait", "stale"}
  /\ apiPc # "idle" => websocket # NoConn
  /\ asked \in Request
  /\ attempt \in [ApiJob -> {"none", "tried", "created"}]
  /\ reply \in Reply

(* A UI call that has ended has one result for each request it was asked for,
   whatever broke or timed out on the way; and its successes are different
   requests of its own that the server has really taken on, although a late
   answer is taken for that of the next request. *)
ResultsAddUp ==
  \A u \in Ui :
    LET successes == {i \in DOMAIN results[u] : results[u][i].ok} IN
      /\ uiPc[u] = "done" => Len(results[u]) = Cardinality(Requests(u))
      /\ \A i \in successes :
           /\ results[u][i].job \in Requests(u)
           /\ form[results[u][i].job] = "async" => store[results[u][i].job] # "absent"
           /\ \A k \in successes : results[u][i].job = results[u][k].job => i = k

(* What a call of WebSocketJobClient returns is the answer to its own request,
   never one left over from an earlier call: create_job returns its job,
   get_job the job asked for with an outcome only if that is its outcome, and
   a job that create_job has returned is found. *)
RepliesAreOwn ==
  /\ reply.type \in {Answer(reply.asked), "error", "timeout", "none"}
  /\ reply.job \in {reply.asked.job, NoJob}
  /\ reply.status \in Outcome => store[reply.job] = reply.status
  /\ reply.asked.ask = "get_job" /\ reply.known => reply.type # "error" \/ reply.job = NoJob
=============================================================================
