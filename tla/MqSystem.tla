------------------------------ MODULE MqSystem ------------------------------
(***************************************************************************)
(* mq_api: jobs requested over Redis Pub/Sub.  A request goes to the       *)
(* channel job_requests, which the worker loop of the server reads; the    *)
(* result goes to job_results, which the clients read.  Pub/Sub keeps      *)
(* nothing: a message reaches those who are subscribed when it is          *)
(* published, and nobody else.                                             *)
(*                                                                         *)
(* Two kinds of clients: MQJobClient (mq_api/client.py), one object whose  *)
(* create_job() calls run one after the other and request by POST /jobs;   *)
(* and the UI (communication_ui/rest/mq_client.py), each of whose calls    *)
(* subscribes and publishes for itself.  A call is named by its job.       *)
(* Redis is external: it delivers in order, may refuse a publish or a      *)
(* subscription, and may drop any subscription; get_message() then raises  *)
(* and its loop tries again until it has subscribed anew.  Asynchronous    *)
(* jobs (hash, fib) only.                                                  *)
(***************************************************************************)
EXTENDS JobService, Sequences

CONSTANTS
  ApiJob,    \* the jobs created by MQJobClient
  UiJob,     \* the jobs created by the UI
  Invalid,   \* the jobs whose type is unknown or whose params do not validate
  Api,       \* MQJobClient as a subscriber
  NoJob      \* no job is being refused by the worker loop

ASSUME MqAssumption ==
  /\ Job = ApiJob \cup UiJob /\ ApiJob \cap UiJob = {}
  /\ Orphans = {}
  /\ Invalid \subseteq Job
  /\ Api \notin Job /\ NoJob \notin Job

VARIABLES
  call,        \* where the create call of each job is
  reply,       \* what it returned: an outcome, "timeout" or "error"
  subscriber,  \* MQJobClient._subscriber_task: "none", "live" or "dead"
  redis,       \* whether MQJobClient.redis_client is set
  link,        \* the subscription of each subscriber to job_results: "none",
               \* "up", or "down" (broken, and not yet made anew)
  got,         \* the results that have reached each subscriber
  connected,   \* whether the worker loop is subscribed to job_requests
  requests,    \* the requests it has not read yet
  refusing,    \* the job whose failure the worker loop is publishing
  published,   \* history: the jobs whose result was published
  missed       \* history: the jobs whose result was published while the
               \* subscription it was meant for was broken, or was on its way
               \* there when that broke

callVars == <<call, reply, subscriber, redis, link>>
resultVars == <<got, published, missed>>
loopVars == <<connected, requests, refusing>>
vars == <<serviceVars, callVars, resultVars, loopVars>>

Subscribers == UiJob \cup {Api}
Result == [job : Job, status : Outcome]

\* Who has to get the result of j.
Owner(j) == IF j \in UiJob THEN j ELSE Api

Init ==
  /\ ServiceInit
  /\ call = [j \in Job |-> "idle"]
  /\ reply = [j \in Job |-> "none"]
  /\ subscriber = "none"
  /\ redis = FALSE
  /\ link = [s \in Subscribers |-> "none"]
  /\ got = [s \in Subscribers |-> {}]
  /\ connected = TRUE
  /\ requests = <<>>
  /\ refusing = NoJob
  /\ published = {}
  /\ missed = {}

Enter(j, p) == call' = [call EXCEPT ![j] = p]

\* publish("job_requests", ...)
Request(j) == requests' = IF connected THEN Append(requests, j) ELSE requests

\* publish("job_results", ...), which may raise without having reached anyone.
PublishResult(j, status) ==
  \/ /\ got' = [s \in Subscribers |->
                  IF link[s] = "up" THEN got[s] \cup {[job |-> j, status |-> status]}
                  ELSE got[s]]
     /\ published' = published \cup {j}
     /\ missed' = IF link[Owner(j)] = "down" THEN missed \cup {j} ELSE missed
  \/ UNCHANGED resultVars

-----------------------------------------------------------------------------
(* The subscriptions: subscriber_loop of both clients *)

(* The connection of s breaks: what was on its way is lost in part or as a
   whole (what has been read stays; the model does not tell them apart).
   get_message() raises and the loop sleeps. *)
Breaks(s) ==
  /\ link[s] = "up"
  /\ link' = [link EXCEPT ![s] = "down"]
  /\ \E kept \in SUBSET got[s] : got' = [got EXCEPT ![s] = kept]
  /\ missed' = missed \cup {j \in published : Owner(j) = s}
  /\ UNCHANGED <<serviceVars, call, reply, subscriber, redis, loopVars, published>>

(* A later get_message() reconnects and subscribes again. *)
Resubscribes(s) ==
  /\ link[s] = "down"
  /\ link' = [link EXCEPT ![s] = "up"]
  /\ UNCHANGED <<serviceVars, call, reply, subscriber, redis, loopVars, resultVars>>

-----------------------------------------------------------------------------
(* The UI: create_single_mq *)

\* Mutant: subscribe() is not awaited.
UiSubscribesUnawaited(j) ==
  /\ j \in UiJob /\ call[j] = "idle"
  /\ Enter(j, "subscribed")
  /\ UNCHANGED <<serviceVars, reply, subscriber, redis, link, loopVars, resultVars>>

UiSubscribes(j) ==
  /\ j \in UiJob /\ call[j] = "idle"
  /\ Enter(j, "subscribed")
  /\ link' = [link EXCEPT ![j] = "up"]
  /\ UNCHANGED <<serviceVars, reply, subscriber, redis, loopVars, resultVars>>

UiPublishes(j) ==
  /\ call[j] = "subscribed"
  /\ Request(j)
  /\ Enter(j, "waiting")
  /\ UNCHANGED <<serviceVars, reply, subscriber, redis, link, connected, refusing, resultVars>>

\* The call returns and its finally block closes the subscription.
UiReturns(j, r) ==
  /\ Enter(j, "returned")
  /\ reply' = [reply EXCEPT ![j] = r]
  /\ link' = [link EXCEPT ![j] = "none"]
  /\ got' = [got EXCEPT ![j] = {}]
  /\ UNCHANGED <<serviceVars, subscriber, redis, loopVars, published, missed>>

\* Mutant: the first result on the channel is taken.
UiReceivesAny(j) ==
  /\ j \in UiJob /\ call[j] = "waiting"
  /\ \E m \in got[j] : UiReturns(j, m.status)

(* The result store has the id of this call's job. *)
UiReceives(j) ==
  /\ j \in UiJob /\ call[j] = "waiting"
  /\ \E m \in got[j] : m.job = j /\ UiReturns(j, m.status)

\* Mutant: the timeout leaves the subscription open.
UiTimesOutOnly(j) ==
  /\ j \in UiJob /\ call[j] = "waiting"
  /\ Enter(j, "returned")
  /\ reply' = [reply EXCEPT ![j] = "timeout"]
  /\ UNCHANGED <<serviceVars, subscriber, redis, link, loopVars, resultVars>>

(* subscribe() or publish() raises, or what the finally block awaits does:
   the call ends with the error, whatever it had received. *)
UiFails(j) ==
  /\ j \in UiJob /\ call[j] \in {"idle", "subscribed", "waiting"}
  /\ UiReturns(j, "error")

(* 30 s have passed; a result may have arrived since the last look. *)
UiTimesOut(j) ==
  /\ j \in UiJob /\ call[j] = "waiting"
  /\ UiReturns(j, "timeout")

-----------------------------------------------------------------------------
(* MQJobClient.create_job: asyncio.run(_create_job_async()) *)

MayPost(j) ==
  /\ j \in ApiJob /\ call[j] = "idle"
  /\ \A k \in ApiJob : call[k] \in {"idle", "returned"}

(* The handler of POST /jobs publishes the request and answers 202. *)
ApiPosts(j) ==
  /\ MayPost(j)
  /\ Request(j)
  /\ Enter(j, "posted")
  /\ UNCHANGED <<serviceVars, reply, subscriber, redis, link, connected, refusing, resultVars>>

(* The answer has arrived: _wait_for_result() starts the subscriber unless
   _subscriber_task says that there is one; the subscriber subscribes unless
   redis_client says that it has. *)
ApiWaits(j) ==
  /\ j \in ApiJob /\ call[j] = "posted"
  /\ Enter(j, "waiting")
  /\ \/ /\ subscriber = "none"
        /\ subscriber' = "live"
        /\ redis' = TRUE
        /\ link' = IF redis THEN link ELSE [link EXCEPT ![Api] = "up"]
     \/ /\ subscriber # "none"
        /\ UNCHANGED <<subscriber, redis, link>>
  /\ UNCHANGED <<serviceVars, reply, loopVars, resultVars>>

(* The end of asyncio.run() cancels the subscriber task; the object keeps the
   dead task and the connection of the closed loop. *)
ApiReturns(j, r) ==
  /\ Enter(j, "returned")
  /\ reply' = [reply EXCEPT ![j] = r]
  /\ subscriber' = IF subscriber = "live" THEN "dead" ELSE subscriber
  /\ link' = [link EXCEPT ![Api] = "none"]
  /\ UNCHANGED <<serviceVars, loopVars, published, missed>>

(* _result_store.pop(job_id) *)
ApiReceives(j) ==
  /\ j \in ApiJob /\ call[j] = "waiting"
  /\ \E m \in got[Api] : /\ m.job = j
                         /\ ApiReturns(j, m.status)
                         /\ got' = [got EXCEPT ![Api] = @ \ {m}]
  /\ UNCHANGED redis

(* 30 s have passed without the result in the store: "pending". *)
ApiTimesOut(j) ==
  /\ j \in ApiJob /\ call[j] = "waiting"
  /\ \A m \in got[Api] : m.job # j
  /\ ApiReturns(j, "timeout")
  /\ UNCHANGED <<redis, got>>

(* subscribe() raises: a RuntimeError, but redis_client is set already, and
   the subscriber that a later call starts listens to nothing. *)
ApiCannotSubscribe(j) ==
  /\ j \in ApiJob /\ call[j] = "posted" /\ subscriber = "none" /\ ~redis
  /\ redis' = TRUE
  /\ ApiReturns(j, "error")
  /\ UNCHANGED got

(* RuntimeError: the POST fails before the request is published, or its
   answer is lost or takes longer than 10 s. *)
ApiFails(j) ==
  /\ MayPost(j) \/ call[j] = "posted"
  /\ ApiReturns(j, "error")
  /\ UNCHANGED <<redis, got>>

-----------------------------------------------------------------------------
(* The worker loop: _process_job_request *)

NextRequest(j) ==
  /\ refusing = NoJob
  /\ requests # <<>> /\ Head(requests) = j
  /\ requests' = Tail(requests)

\* The entry is stored and the job submitted without a suspension.
LoopAccepts(j) ==
  /\ NextRequest(j) /\ j \notin Invalid
  /\ stage[j] = "new" /\ Cardinality(At("waiting")) < MaxQueue
  /\ Move(j, "waiting")
  /\ store' = [store EXCEPT ![j] = "pending"]
  /\ clock' = clock + 1
  /\ ticket' = [ticket EXCEPT ![j] = clock + 1]
  /\ UNCHANGED <<callVars, connected, refusing, resultVars>>

LoopRejects(j) ==
  /\ NextRequest(j) /\ j \notin Invalid
  /\ stage[j] = "new" /\ Cardinality(At("waiting")) = MaxQueue
  /\ Move(j, "rejected")
  /\ store' = [store EXCEPT ![j] = "failed"]
  /\ refusing' = j
  /\ UNCHANGED <<ticket, clock, callVars, connected, resultVars>>

(* The unknown type or the ValidationError: failed, without an entry. *)
LoopRefuses(j) ==
  /\ NextRequest(j) /\ j \in Invalid
  /\ refusing' = j
  /\ UNCHANGED <<serviceVars, callVars, connected, resultVars>>

\* Mutant: a refused request ends the worker loop.
LoopPublishesLast(j) ==
  /\ refusing = j
  /\ PublishResult(j, "failed")
  /\ UNCHANGED <<serviceVars, callVars, loopVars>>

(* The failure is published; an exception is logged, and the loop goes on. *)
LoopPublishes(j) ==
  /\ refusing = j
  /\ PublishResult(j, "failed")
  /\ refusing' = NoJob
  /\ UNCHANGED <<serviceVars, callVars, connected, requests>>

(* The Redis connection breaks: get_message() raises, what was still to be
   read is lost in part or as a whole, and so is what is published now. *)
LoopDisconnects ==
  /\ connected
  /\ connected' = FALSE
  /\ \E n \in 0..Len(requests) : requests' = SubSeq(requests, 1, n)
  /\ UNCHANGED <<serviceVars, callVars, refusing, resultVars>>

(* After a second get_message() reconnects and subscribes again. *)
LoopReconnects ==
  /\ ~connected
  /\ connected' = TRUE
  /\ UNCHANGED <<serviceVars, callVars, requests, refusing, resultVars>>

-----------------------------------------------------------------------------
(* The queue's workers; on_complete publishes the result. *)

WorkerClaims(j) ==
  /\ Cardinality(At("claimed") \cup At("running") \cup At("notifying")) < MaxWorkers
  /\ Claim(j)
  /\ UNCHANGED <<callVars, loopVars, resultVars>>

WorkerBegins(j) ==
  /\ Begin(j)
  /\ UNCHANGED <<callVars, loopVars, resultVars>>

WorkerFinishes(j, outcome) ==
  /\ Finish(j, outcome)
  /\ UNCHANGED <<callVars, loopVars, resultVars>>

(* The status is read from the store; an exception is only logged. *)
CallbackPublishes(j) ==
  /\ Close(j)
  /\ PublishResult(j, store[j])
  /\ UNCHANGED <<callVars, loopVars>>

-----------------------------------------------------------------------------
Ui(j) == UiPublishes(j) \/ UiReceives(j) \/ UiTimesOut(j) \/ UiFails(j)

ApiCall(j) ==
  ApiWaits(j) \/ ApiReceives(j) \/ ApiTimesOut(j) \/ ApiCannotSubscribe(j) \/ ApiFails(j)

Loop == \E j \in Job : LoopAccepts(j) \/ LoopRejects(j) \/ LoopRefuses(j) \/ LoopPublishes(j)

Workers(j) ==
  \/ WorkerClaims(j) \/ WorkerBegins(j) \/ CallbackPublishes(j)
  \/ \E outcome \in Outcome : WorkerFinishes(j, outcome)

Next ==
  \/ \E j \in Job : \/ UiSubscribes(j) \/ Ui(j) \/ Workers(j)
                    \/ ApiPosts(j) \/ ApiCall(j)
  \/ \E s \in Subscribers : Breaks(s) \/ Resubscribes(s)
  \/ Loop \/ LoopDisconnects \/ LoopReconnects

(* The server's tasks run: the worker loop, which tries to reconnect every
   second, and the queue's workers.  Nothing is assumed of the clients. *)
Fairness == WF_vars(Loop \/ LoopReconnects) /\ WF_vars(\E j \in Job : Workers(j))

Spec == Init /\ [][Next]_vars /\ Fairness

-----------------------------------------------------------------------------
(* The types, and that only calls in progress have a subscription. *)
TypeOK ==
  /\ ServiceTypeOK
  /\ call \in [Job -> {"idle", "subscribed", "posted", "waiting", "returned"}]
  /\ reply \in [Job -> Outcome \cup {"none", "timeout", "error"}]
  /\ subscriber \in {"none", "live", "dead"}
  /\ redis \in BOOLEAN
  /\ link \in [Subscribers -> {"none", "up", "down"}]
  /\ \A j \in UiJob : link[j] # "none" => call[j] \in {"subscribed", "waiting"}
  /\ link[Api] # "none" => subscriber = "live"
  /\ got \in [Subscribers -> SUBSET Result]
  /\ connected \in BOOLEAN
  /\ requests \in Seq(Job)
  /\ refusing \in Job \cup {NoJob}
  /\ published \subseteq Job /\ missed \subseteq published

(* An outcome that a call returns is the outcome of its own job as the store
   has it (an invalid job fails without an entry), although every subscriber
   gets everybody's results and some of them late. *)
RepliesAreTrue ==
  \A j \in Job : reply[j] \in Outcome =>
    store[j] = IF j \in Invalid THEN "absent" ELSE reply[j]

Received(j, s) == \E m \in got[s] : m.job = j

(* A UI call that still waits has the result of its job if that was published,
   unless its subscription was broken at that moment or broke while the result
   was on its way: nothing is published between its request and its
   subscription, and a subscription that broke earlier and was made anew has
   done no harm. *)
UiMissesNothing ==
  \A j \in UiJob :
    call[j] = "waiting" /\ j \in published \ missed => Received(j, j)

(* As long as the worker loop keeps its subscription, every valid request
   ends with an outcome in the store, whatever other requests are refused and
   whatever results cannot be published. *)
RequestsAreServed ==
  []connected =>
    \A j \in Job \ Invalid : call[j] \in {"posted", "waiting"} ~> store[j] \in Outcome

(* What MQJobClient says, that it receives the results by Redis Pub/Sub and
   waits for the result of the job it has created: the same for its calls. *)
ApiMissesNothing ==
  \A j \in ApiJob :
    call[j] = "waiting" /\ j \in published \ missed => Received(j, Api)
=============================================================================
