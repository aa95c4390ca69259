# TLA+ models of api-communication-examples

The repository serves the same five kinds of jobs (`echo`, `calc`, `stats`,
`hash`, `fib`) over REST, gRPC, WebSocket and Redis Pub/Sub. The asynchronous
ones (`hash`, `fib`) go through one in-process job queue with a fixed number of
workers; every server adds a store of job entries and a way to hear of a job's
end. This directory holds TLA+ models of that machinery, the TLC runs that
check them, and proofs about the queue, the servers, their clients and what the
jobs compute.

## The system

| component | state | operations | talks to |
|---|---|---|---|
| job queue, `communication/job_queue.py` (and its copy `rest_api/core/job_queue.py`) | bounded `asyncio.Queue`, worker tasks, semaphore, `_shutdown` | `submit`, `start`, `shutdown`, `_worker`, `Job.execute` | the server's store (status, result), its `on_complete` callback |
| REST server, `rest_api/` | `store`, `ws_manager.active_connections` and its lock | POST `/hash_jobs`, `/fib_jobs`, GETs, `/ws/jobs` | queue; all connections, by broadcast |
| gRPC server, `grpc_api/server/` | `store`, `_watchers` (a queue each) | `CreateHashJob`, `CreateFibJob`, `GetJob`, `ListJobs`, `WatchJobs` | queue; watchers |
| WebSocket server, `websocket_api/server.py` | `store` | `create_job`, `get_job`, `list_jobs`, `get_queue_status` messages | queue; the creator's socket |
| MQ server, `mq_api/server.py` | `store`, worker task, Redis connections | POST/GET `/jobs`, messages of `job_requests` | queue; Redis `job_results` |
| clients, `*/client.py` | connection, message queue, result store | `create_job`, `get_job`, `watch_jobs` | one server each |
| web UI, `communication_ui/` | none of its own | batches of requests over each transport | all servers |
| job handlers, `communication/jobs/` | none | pure functions | called by `Job.execute` and the synchronous endpoints |

Everything runs on asyncio, one event loop per process: a step is the code
between two suspension points. What makes it hard: jobs, sentinels, timeouts,
cancellation and the semaphore meet in one worker loop; a queue that is
stopped may be started again; POST handlers, workers and connection handlers
share one lock that is held while slow clients are served; streams begin with
a snapshot and go on with updates; Redis forgets a message nobody listens to.

What makes each part correct:

* **queue** - no job is lost, doubled or overtaken; an outcome is final; at
  most `max_workers` executions; every accepted job ends; `shutdown` returns.
* **REST** - the status tells how far the job is; a connected client misses
  no status and sees them in order, but of jobs too old for its init message;
  the lock starves nobody; departed connections are forgotten.
* **gRPC** - a watcher misses no outcome and is never told an older status;
  ended streams leave nothing behind; only the client ends a stream.
* **MQ** - a reply belongs to its own call; a call that waits gets what is
  published while its subscription holds; one bad request does not stop the
  others.
* **WebSocket** - a stored job is announced to a living creator; its update
  comes last; the answer a client returns belongs to its request.
* **clients, UI** - counts add up; a success was run, a refusal left nothing
  running; a batch is answered.
* **handlers** - every transport computes the same and refuses the same.

## Modules

| module | models |
|---|---|
| `JobService` | the abstract service: what a server sees of the queue |
| `JobQueue` | the queue itself; implements `JobService` |
| `RestServer` | POST handlers, callback, broadcast and `/ws/jobs`, over `JobService` |
| `GrpcServer` | creation and `WatchJobs`, over `JobService` |
| `MqSystem` | Redis Pub/Sub, the MQ server, its client and the UI's, over `JobService` |
| `WsServer` | the endpoint `/ws` and `job_update`, over `JobService` |
| `WsSystem` | the UI's WebSocket calls and `WebSocketJobClient`, over `WsServer` |
| `JobHandlers` | parameters and results of the five kinds, and what they should be |
| `Transports` | what REST, gRPC and MQ make of a request and of its answer, over `JobHandlers` |
| `UiBatch` | batches of the UI and single calls of two clients, over `Transports` |
| `JobServiceProofs` | what every step of the service keeps; cited by the proofs of the servers |
| `JobQueueProofs` | proofs about the queue: its invariants, its order, and that it implements `JobService` |
| `RestServerProofs`, `GrpcServerProofs`, `MqSystemProofs`, `WsSystemProofs` | proofs about the servers, the latter two with their clients |
| `JobHandlersProofs` | the proof that the handlers compute what they should |
| `UiBatchProofs` | proofs about the batches of the UI, over every channel |
| `MCJobQueue`, `MCRestServer`, `MCGrpcServer`, `MCMqSystem`, `MCWsSystem`, `MCUiBatch` | the instances for TLC |

In every module an operator whose comment begins with *Mutant* is a plausible
mistake in the definition that follows it. No specification uses it; it exists
to show that a property notices the mistake.

### JobService

`stage[j]` runs from `new` over `stored`, `waiting`, `claimed`, `running` and
`notifying` to `closed`, or ends in `rejected` or `lost`; `store[j]` is the
status that GET returns. `Claim` and `Begin` follow the order of acceptance
(`ticket`), `Finish` writes the outcome, `Close` ends the callback, `Lose(S)`
is the cancellation of the workers of the jobs in `S`. The servers are built
from these actions; that is justified by the refinement, which `queue_safety`
checks and `QueueImplementsService` proves. The global queue is never shut down by a server, and a server
stores every job first, so `Lose` does not happen there and `Orphans` is empty.

### JobQueue

| code | model |
|---|---|
| `self.queue`, `_unfinished_tasks` | `queue` (jobs and the sentinel `Stop`), `unfinished` |
| `_shutdown`, `_worker_tasks` | `shutdown`, `workerTasks` |
| `_semaphore._value`, its waiters | `permits`, `waiters` |
| position of a worker, its local `job` | `pc[t]`, `job[t]` |
| tasks after `cancel()` | `cancelled`; `CancelDelivered` is the `CancelledError` |
| `submit` | `SubmitAccepts`, `SubmitRejects` |
| `start` | `Start` |
| `_worker` | `LoopExit`, `Park`, `TakeSentinel`, `TakeJob`, `Timeout` |
| `Job.execute` | `Acquire`, `AcquireOrphan`, `HandlerReturns`, `CallbackReturns` |
| `shutdown(wait)` | `Shutdown`, `ShutdownResumes` (after a full queue), `GatherReturns` |

Handlers are an outcome: `done` or `failed`. Some steps that cannot be
interleaved in the code are separate in the model, which therefore has more
interleavings than the code and never fewer; sentinels that fit are placed in
one step, because `put` does not suspend then. `Orphans` are jobs submitted
without a store entry. Assumed: one `shutdown` call at a time, and handlers
that do not swallow `CancelledError`. There are as many permits as workers, so
the workers of one generation never wait for the semaphore. A job waits there
only when `start` follows `shutdown(wait=False)` so closely that a cancelled
worker still holds its permit (`OnlyCancelledDelay`).

### RestServer

`line` is the lock of `ws_manager` with its holder in front and the tasks that
wait behind it: a job stands for the broadcast about it, a client for its
`connect` or `disconnect`. `news[j]` is the message, fixed before the lock is
asked for; `sent` and `dead` are the loop of the broadcast. `Post`,
`SubmitJob`, `QueueFull`, `Refuse` are the pieces of a POST between its
suspension points; `WorkerFinishes` is `Finish` with the start of
`_on_job_complete`; `Dial`, `Register`, `HangUp`, `Unregister` are the handler
of `/ws/jobs`. `view[c]` is what the client has received. A send to a client
that has left raises or is silently lost. The init message lists the last
`InitLimit` jobs (50 in the code) of `entries`, the order of insertion into the
store (`Recent`). A client that connects later is not told of the older ones:
it hears nothing of a job that has ended, and the outcome of another without its
creation. The history variable `leftOut` keeps what it was not told, so that
the properties except just this. The 30 s ping is left out: it
changes nothing but to notice a departed client (`HangUp`).

### GrpcServer

Creation is one step (no suspension between the store and `submit`). The
watcher's lock is not modelled because it is never held over a suspension.
`WatchJobs` subscribes and yields the first entry in one step; `ListNext`
yields the next one as long as the dict has the size it had (`size`);
otherwise the iterator raises and `ListBreaks` ends the stream, through the
`finally` block. `Deliver` yields from the watcher's queue `mail[w]`.

### MqSystem

A call is named by its job; `call[j]` is where it is. Both channels are Redis
Pub/Sub: `Request` reaches the worker loop if it is `connected`,
`PublishResult` reaches the subscribers whose `link` is `up`, or raises. Any
subscription may break (`Breaks`), with what was on its way; `get_message()`
then raises, its loop sleeps and subscribes anew (`Resubscribes`), and what was
published in between is lost. The history variable `missed` says to which jobs
that happened. The UI
subscribes, publishes and waits (`UiSubscribes`, `UiPublishes`, `UiReceives`,
`UiTimesOut`). `MQJobClient` posts, is answered, and only then starts its
subscriber (`ApiPosts`, `ApiWaits`); the end of `asyncio.run` leaves the
subscriber `dead` but not `None`, so that the next call starts none. If
`subscribe()` raises (`ApiCannotSubscribe`), `redis_client` is set all the same
(`redis`), and the next call starts a subscriber that listens to nothing. The worker
loop takes one request at a time (`LoopAccepts`, `LoopRejects`, `LoopRefuses`)
and publishes a failure before it takes the next (`LoopPublishes`);
`LoopDisconnects` and `LoopReconnects` are a broken Redis connection.
Synchronous jobs are in `UiBatch`.

### WsServer and WsSystem

`at[c]` is where the endpoint of a connection is, `made[c]` the job it is
creating. A creation is `StoresJob`, `SendsCreated`, and `Submits` or
`IsRefused`, since both sends suspend the endpoint; a worker's `CallbackSends`
may come between any two of them, on `socket[j]`, the connection that the
closure of `on_complete` keeps. A send on a broken connection may raise, which
ends the endpoint wherever it is (a job left pending by it has a broken
creator: this is the second half of `UpdateArrives`), or vanish. `get_job`,
`list_jobs` and `get_queue_status` are one answer each.

The UI's calls carry no request id: the next message is the answer
(`UiReads`), a late one that of the next request; its batch drops
`job_update`s. `WebSocketJobClient` runs every call in an event loop of its
own and over a new connection, and knows the answer by its type (`ApiReads`).
Only `get_queue_status` reuses what the last call left: it sends on a connection
whose listener is gone (`ApiSendsAgain`), then connects anew without sending
again (`ApiReconnects`), and times out.

### JobHandlers, Transports, UiBatch

A JSON value is a record named by its kind, and numbers count halves, so that
2.5, "2.5" and 2 differ where pydantic, `float()` and `int()` make a
difference, and so do "2" and "2.0" (`Digits` and `Point`): pydantic takes both
for an int, `int()` only the first. Floats are exact; booleans, nan, inf and
the digest of `hash` are left out. (So is the `OverflowError` that `coerce_int`
does not catch for an infinite count; no property speaks of it.) `Validates` and `Validated` are the params
models, `Execute` the handlers, `Right` what a result should be: `fib` by
doubling, the sum from the last value to the first (`AddsUpTo`), the median by
rank, quotients by cross-multiplication. Python's own
`sum()` and `sorted()` are `Total` and `Sorted`: the partial sums, and the values
in an order in which they do not decrease. `Fibonacci` is defined up to 40, the
largest `n` that validates.

`Transports` shows where the transports differ. gRPC puts defaults in the place
of what it does not understand: an unknown operation adds, null is 0, and
2.5 becomes 2 for `fib`; an unknown kind is an echo. On the other hand it cannot
build a `fib` of "6.0", which the other transports compute (`PointedFib`).
`RestJobClient` posts an
unknown kind to `/echo`. An error result, such as a division by zero, is a
success everywhere. A synchronous job posted to `/jobs` of the MQ server is
published to its own worker loop and run by the handler as well, and
`MQJobClient` raises for it, since the answer has neither status nor id. If Redis
raises when the worker loop publishes the result of a synchronous job, the loop
publishes a failure in its place (`LoopPublishes`), and the UI, which words all
failures over MQ alike, reports one for a job that ran (`MqReports`).

`UiBatch` runs a batch: `BatchOf` clamps count and concurrency, `call[i]` is a
call of the pool or of the shared connection, `wire[i]` and `answer[i]` its
request and answer, `ran[i]` counts how often the server took it on. Faults are
`Hangs`, `Breaks`, `LoopMisses`, a lost result, and Redis exceptions
(`MqRaises`, `MqEnds`, `SharedRaises`), for which one failure stands for the
whole batch. The MQ worker loop takes requests in any order, which is more than
the code allows. The queue's state is only whether it is full; the queue itself
is in the other models.

## Runs

| run | instance | shows |
|---|---|---|
| `queue_safety` | 3 jobs (1 orphan), 4 tasks, queue 3, workers 2, symmetry | all safety properties of the queue and that it implements `JobService`, over two generations of workers |
| `queue_liveness` | 3 jobs, 2 tasks, queue 2, workers 2 | accepted jobs end; `gather` ends |
| `queue_shutdown_hangs` | 3 jobs, 2 tasks, queue 1, workers 2 | **finding**: `shutdown` on a full queue never returns |
| `queue_restart_dies` | 1 job, 2 tasks, queue 2, workers 1 | **finding**: leftover sentinels end the workers of the next `start` |
| `rest_safety` | 2 jobs, 2 clients, init message of 1, queue 1, workers 1, symmetry | the stream misses nothing and keeps the order, but of jobs too old for the init message; the list does not change under the broadcast |
| `rest_liveness` | 2 jobs, 1 client, init message of 1, queue 1, workers 1 | POSTs are answered, jobs end, clients catch up, departed ones are forgotten |
| `grpc_watch` | 3 jobs, 1 watcher, queue 1, workers 1 | no outcome is missed or taken back; watchers catch up |
| `mq_requests` | 2 calls of the client (one invalid), 1 of the UI, queue 1, workers 1 | replies belong to their calls; UI calls miss no result but while their subscription is broken; the worker loop goes on, whatever it refuses or cannot publish |
| `mq_result_lost` | the same | **finding**: a published result does not reach the call that waits for it |
| `ws_clients` | a batch of 2 requests, a single one, or `WebSocketJobClient` with 1 job and 2 connections; queue 2, workers 1 | results add up; `job_update` comes last and reaches a living creator; replies belong to their calls |
| `ui_batches` | 24 payloads over 7 channels, batches up to 3, pool up to 2 | counts add up; results are right; transports refuse alike, but for the named cases; failures are honest; batches are answered |
| `grpc_watch_breaks` | 2 jobs, 1 watcher | **finding**: a job created during the initial list ends the stream |

**Bounds.** Two generations of workers are the fewest that let a restart meet
the leftovers of a shutdown, and one generation's cancelled workers meet the
next. Three jobs with two workers let jobs wait behind each other; with the
sentinels they fill a queue of three, the smallest bound at which a job of the
second generation waits for a permit of the first. The jobs and tasks are
each used once, which bounds every run without a state constraint. In
`RestServer` one worker and a queue of one make the second job wait or be
refused, and two connections are what a failing send needs to harm another
one. An init message of one job in place of 50 leaves out the first of two. The
liveness run has one connection, to stay short. In `GrpcServer` watchers share
nothing but the store, so one is enough; three jobs give it a list that is
still being sent while one job ends and another is created. In `MqSystem` two
calls of one client are the fewest that meet a dead subscriber, and with the
UI's call there are results of three jobs on one channel. A call may give up while its job is in
the server, so that the full queue, the invalid request and a valid one meet in
the loop.

In `WsSystem` a behaviour uses one of the clients (`Parties`): they share
nothing but the queue, and that it is full because of others is covered by
letting it refuse at any time. All requests of a behaviour have one form, as
those of a batch do; two requests are the fewest that meet a late answer, two
connections the fewest between which `get_queue_status` changes. `MaxUnread`
bounds the requests that pile up on a dead connection. In `UiBatch` the bounds
3 and 2 take the place of 20000 and 64 (`MAX_COUNT`, `MAX_CONCURRENCY`);
payloads with counts of 0, 9, 2.5 and "many" lie on both sides of them. Each of
the other payloads is a case of its own of validation, conversion or
computation, sent twice.

Deadlock is not checked: in every model the system may really stop, when all
jobs are done and no client does anything more.

**Fairness.** Weak fairness of every task of the event loop: asyncio runs
every task that is ready, in the order in which they became ready. It includes
that a handler and a callback return (they are pure functions and sends) and
that a send to a socket ends or raises (the server's WebSocket keepalive and
gRPC close a connection that takes nothing). The MQ worker loop reconnects in the
end; its requests are promised an outcome only while it stays connected. In
`WsSystem` only the server's coroutines are fair, nothing of clients and
network. In `UiBatch` threads are scheduled, timers fire and a server that does
not hang serves; nothing is assumed of faults. gRPC calls and `RestJobClient`
have no deadline, so their batches are promised an end only if the server does not hang. No
fairness is assumed of clients, of
`start`, `shutdown` or of anyone who creates a job.

## Proofs

Everything below is proved for any finite sets of jobs, tasks, connections,
watchers and calls. The assumptions are those that TLC evaluates on every run:
`QueueAssumption` (positive bounds, `Stop` is no job), `ServiceAssumption`
(positive bounds, finite sets), and in each server that the names used for "no job" and
"no connection" are none and that no job is submitted without an entry, in
`RestServer` also that the init message lists at least one job (`RestAssumption`, `GrpcAssumption`, `MqAssumption`, `WsAssumption`,
`WsSystemAssumption`). Every inductive invariant named here was first
checked by TLC on the instance of the run.

### The queue (`JobQueueProofs`)

| theorem | property |
|---|---|
| `TypeCorrect`, `JobsAreInOnePlace`, `PendingMeansOwed` | `TypeOK`, `OnePlace`, `PendingIsOwed` |
| `OutcomesAreFinal` | `OutcomeIsFinal` |
| `ExecutionsAreBounded` | `ExecutionIsBounded` |
| `WorkersStayListed`, `DelaysAreOfCancelled` | `WorkersAreListed`, `OnlyCancelledDelay` |
| `CounterCoversItems` | `UnfinishedCoversItems` |
| `JobsStartInOrder` | `StartsInOrder` |
| `QueueImplementsService` | `ImplementsService` |

The first four properties follow from one inductive invariant, `QueueInv`. None
of its parts is inductive alone. That a job is taken once (`OnePlace`) needs that
only accepted jobs are queued or held (`TakenWereAccepted`), or `submit` could
put a job next to itself; that an outcome is written once needs that a task holds
a job exactly between taking and giving it back (`JobsMatchPC`); that a pending
job is owed (`PendingIsOwed`) needs both, and that the store agrees with the
creator (`StoreMatchesCaller`). One lemma per group of actions (`CreateStep`,
`TakeStep`, `ExecuteStep`, `CancelStep`, `StartStep`, `CloseStep`) shows that
it is preserved; `QueueInvStep` puts them together.

The rest is inductive given `QueueInv`. `ExecutionIsBounded`: the lemmas about
permits count the tasks that hold one. `WorkersAreListed`: `shutdown` cancels
what it forgets, and `start` lists new tasks only when the list is empty.
`OnlyCancelledDelay` is a consequence of these two: every worker that waits or
executes and is not cancelled is listed, so there is a permit for each.
`UnfinishedCoversItems`: `Covers` strengthens the bound to the items queued and
the jobs held by anybody, cancelled or not.

For the order, `OrderInv` says that tickets grow along the queue
(`QueueInOrder`) and along the line at the semaphore (`LineInOrder`), that
everyone in the line is older than everyone in the queue
(`TakenBeforeQueued`), and that the line is made up of the workers that can
still go on (`LineMatches`: a cancelled worker leaves it at once). Then the
head of the line, or of the queue, is the oldest job (`HeadIsOldest`), and this is
also what the refinement needs at `Claim` and `Begin`. The refinement goes
action by action: each is a `Store`, `Accept`, `Reject`, `Claim`, `Begin`,
`Finish` or `Close` of one job (`StoreRefines` to `CloseRefines`), a `Lose`
(`InterruptRefines`, `ClosingRefines`), or a stutter. `StagesOfService` computes the mapped `stage`
from the place a job is in; `QueuedFit` and `BusyFit` carry the bounds of the
queue and of the workers over to those of the service. The fairness of
`JobService` is not part of it.

### The servers

| module | theorem | property |
|---|---|---|
| `JobServiceProofs` | `StatusIsTrue` | `StatusMatchesStage` |
| `RestServerProofs` | `RestTypeCorrect`, `StatusIsTrueOverRest` | `TypeOK`, `StatusMatchesStage` |
| | `ClientsMissNothing`, `ClientsHearInOrder` | `NothingIsMissed`, `CreatedBeforeOutcome` |
| `GrpcServerProofs` | `GrpcTypeCorrect`, `WatchersAreTheOpenStreams` | `TypeOK`, `OpenStreamsAreWatched` |
| | `WatchersMissNothing`, `WatchersNeverGoBack` | `NothingIsMissed`, `NeverBackwards` |
| `MqSystemProofs` | `MqTypeCorrect`, `RepliesTellTheTruth`, `UiGetsEveryResult` | `TypeOK`, `RepliesAreTrue`, `UiMissesNothing` |
| `WsSystemProofs` | `WsTypeCorrect`, `UpdatesComeLast` | `TypeOK`, `UpdateComesLast` |
| | `RepliesBelongToCalls`, `ResultsAlwaysAddUp` | `RepliesAreOwn`, `ResultsAddUp` |

All of these build on the lemmas of `JobServiceProofs`: whatever a server does
around them, the steps of the service keep the types and the truth of the
status, and an outcome is final (`OutcomeStays`).

**REST** (`RestInv`). The lock is asked for after the message is fixed, and
others may hold it for long; the message is still not stale when it is sent,
because a job is not submitted before its first broadcast ends and not closed
before its second does (`NewsIsTrue`). `ViewLags`: what a client knows is at
most one step behind, and the message on its way is that step. Both need
that a task is in the line exactly while its handler is between asking and
releasing (`LineIsExact`), that only a broadcast in front has sent to anybody
(`HalfDoneHolds`), and that the list is that of the connections registered
(`ListMatchesConnections`). Nothing is assumed of the number of jobs. For the cut
of the init message, `EntriesHold` says that every job of the store has its place
in the order; hence what a client is not told of is too old (`LeftOutIsOld`), and
stays so (`StaysOld`).

**gRPC** (`GrpcInv`). `NothingIsMissed` is inductive with `MailIsTrue` (an update
in a watcher's queue is the stored outcome), `CreatedAreListed` (every job is in
the dict the initial list goes through) and `ToldIsTrue`, which gives
`NeverBackwards`. `MailOnce` bounds the watcher's queue.

**MQ** (`MqInv`). `RepliesAreTrue` follows from `ResultsAreTrue`, the same for
the messages on their way and those kept; `UiMissesNothing` needs `UiCallsListen` (a
UI call that has published has a subscription, if perhaps a broken one) and
`OnlyRequested` (nothing is published for a call that has not asked), so that no
result can come before the subscription, and that whatever a broken
subscription costs is in `missed`. `InvalidStayOut` keeps the requests the worker loop refuses out of the queue.

**WebSocket** (`WsInv`). Three parts. `ServerInv`: a message in flight is true
(`MessagesAreTrue`), a job in the making belongs to one endpoint and is not
submitted (`MadeIsStored`); hence the answer `job_created` goes out before any
worker can have the job. `UiInv`: messages carry no request id, so the proof
follows each request instead (`OneTrace`): it is either not received, being
created, answered, or counted as a success, and in one place only; `Counts` says
that a call has one result per request sent but the one it waits for.
`ApiInv`: on the connection of a call under way there is nothing of another call
(`ConnectionIsOwn`), which is why every call, `get_queue_status` at last
included, must have a new connection before it reads. Every step is then either
one of `UiOk(u)`'s own or does not add to what `u` knows (`UiQuiet`,
`ApiQuiet`).

### The handlers (`JobHandlersProofs`)

| theorem | says |
|---|---|
| `FibIsFibonacci` | the loop of `fib` and the doubling formulas agree for all `n` in 0..40 |
| `ExecuteIsRight` | every handler returns what `Right` asks for, for all parameters that validate |

The induction theorems of the library take an operator and cannot be used, so
induction is stated for sets (`SetInduction`): a set that has 0 and with each
number the next contains `Nat`, because `<` is well-founded on it. A recursive
definition is a `CHOOSE`; `Iteration` gives a function that satisfies its
equation, so that the chosen one does (`PassOfFib`, `TotalAddsUp`). `FibDoubles`
proves both doubling formulas together, from `FibRecurrence`; with them
`FibIsFibonacci` shows that there is one solution, by induction on the bound up to
which two agree.

For `stats`, `OrderExists` sorts any list: the number of values that come before
a position, ties broken by place, is an injection of the positions into
themselves, and its inverse is the order. `PlaceIsRank` then counts: what
is at place `r` has rank `r`. `StatsIsRight` is this for the first, the
last and the two middle places, for lists of any length; `TotalAddsUp` shows that
the sum in the order of the list is the one from its end. `CalcIsRight` is
arithmetic, by operation. `ValidatedTypes` says that a handler gets numbers for
whatever validates.

### Batches of the UI

| module | theorem | property |
|---|---|---|
| `UiBatchProofs` | `UiBatchTypeCorrect`, `BatchesAddUp` | `TypeOK`, `BatchAddsUp` |
| | `ChannelsRefuseAlike`, `FailuresTellTheTruth` | `RefusedAlike`, `FailuresAreHonest` |
| | `ResultsAreAlwaysRight` | `ResultsAreRight` |

`UiBatchAssumption` asks for bounds of at least 1, and `PayloadAssumption` that
the browser sends values (`IsValue`): what is or spells a number is one,
and a list is a sequence of values. Nothing else is assumed of a payload.
`BatchOfIsSound` is `coerce_int()` and `run_batch()`: whatever comes, the count
and the pool are within their bounds.

The invariant, `BatchInv`, is a statement about each call by itself
(`CallFits`), so that a step of one call leaves the others alone (`SameFits`,
`StepOfCall`). `RunsFit` is its heart: per channel, how often a request was run
given where it still is. A request in the worker loop of `mq` has not been run;
one of POST /jobs may be in the loop and with the handler, so that it runs twice
at most. `OutcomeFits` says what an outcome implies, and holds on although
requests are run after the call has timed out: a call that reports a refusal
has either sent nothing or has an answer, so that nothing is left to run, except
of POST /jobs, which refuses only what its loop refuses as well. A failure over
MQ is weaker (`MayHaveRun`): nothing ran, or it was a synchronous job whose result
the loop could not publish.
`RefusedAlike` comes down to one lemma per path, from the builders
(`BuildersRefuse`, with the exception of "6.0" for `fib`) to the servers (`RestAnswers`, `GrpcAnswers`, `LoopAnswers`,
`PostAnswers`).

`ResultsAreRight` is inductive together with `BatchInv` once it is said of the
answers as well (`ResultsFit`). A server answers what `Execute` returns
(`ServersAreRight`). The gRPC builders and servicer convert by rules of their own,
and `BuildersConvert` and `ServicerIsRight` show that for parameters that validate
these make the same numbers as pydantic, and that an operation is never replaced by
the default. A client then reports the result of its answer or none
(`ReportsAreRight`); the UI's gRPC client, which would take a parameter named
`result` for the result, does so only for a kind that does not exist.

### Only model-checked

All safety properties of the passing runs are proved. Liveness is only checked
by TLC (`AcceptedJobsEnd`, `GatherEnds`, `EveryPostIsAnswered`,
`ClientsCatchUp`, `DepartedAreForgotten`, `WatchersCatchUp`,
`RequestsAreServed`, `UpdateArrives`, `BatchIsAnswered`): it is out of the
prover's reach, like `ENABLED`.

## Findings

* **`shutdown` can hang** (`queue_shutdown_hangs`): `put(None)` waits for room
  that no worker makes, since the workers leave on the flag set before.
* **A restarted queue loses workers** (`queue_restart_dies`): sentinels that
  nobody read end the workers of the next `start`.
* **`WatchJobs` breaks** (`grpc_watch_breaks`): a job created while the initial
  list is sent changes the dict under its iterator.
* **MQ results get lost** (`mq_result_lost`): the client subscribes after its
  request, and its later calls do not subscribe at all.

Stated, but not a run: a gRPC watcher never hears that a job was refused by the
full queue, since only `on_complete` makes updates.

## Not modelled

Left out:

* reads of the state without an effect: GET endpoints and `GetJob`, `ListJobs`,
  `GetQueueStatus` of REST, gRPC and MQ, the slices of the job lists, and the
  UI's proxies that pass one answer on. The UI's `/ws/jobs` proxy is a relay;
  its ping is never sent, because `receive(timeout)` returns None and ends it.
* `watch_jobs` of the clients: those of REST and gRPC read a stream that the
  server models describe; that of `WebSocketJobClient` never yields anything,
  since the server sends a `job_update` only to the creator's connection.
* code nothing calls: `shutdown_job_queue`, `_create_job_async` of
  `mq_client.py`, the pydantic wrapper `core/validation.py` (tests only).
  The global `get_job_queue` creates a queue and starts it in one step.
* templates, logging, process set-up, generated code, type aliases.
