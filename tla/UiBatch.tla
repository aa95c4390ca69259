------------------------------- MODULE UiBatch -------------------------------
(***************************************************************************)
(* A batch of equal requests that the UI sends for a browser               *)
(* (communication_ui/rest/app.py): the parameters as they come, the pool   *)
(* of threads or the one connection that makes the calls, the server that  *)
(* runs them, and the count of successes and failures.  Two more channels  *)
(* are single calls of the client libraries, RestJobClient and MQJobClient *)
(* (synchronous jobs; its asynchronous ones are in MqSystem).              *)
(*                                                                         *)
(* Faults: the server may hang, a connection may break, Redis may lose a   *)
(* message or raise.  Batches over WebSocket are in WsSystem.              *)
(***************************************************************************)
EXTENDS Transports

CONSTANTS
  Channel,         \* the channels in use
  Payload,         \* what the browser sends
  MAX_COUNT,       \* config.py: the largest batch
  MAX_CONCURRENCY  \* config.py: the largest pool

UiChannels == {"rest", "grpc", "grpc_shared", "mq", "mq_shared"}
ClientChannels == {"rest_client", "mq_client"}
GrpcChannels == {"grpc", "grpc_shared"}
\* The channels whose calls have a timeout.
TimedChannels == {"rest", "mq", "mq_shared", "mq_client"}

ASSUME UiBatchAssumption ==
  /\ Channel \subseteq UiChannels \cup ClientChannels
  /\ MAX_COUNT \in Nat \ {0} /\ MAX_CONCURRENCY \in Nat \ {0}

VARIABLES
  batch,    \* the channel, kind and params of the requests, how many, and
            \* how many calls are made at a time
  call,     \* call[i]: "queued", "waiting", "returned" or "raised"
  wire,     \* wire[i]: "none", "request", "published" to the loop too, "served", "lost"
  loop,     \* the requests published to the MQ worker loop
  answer,   \* what the server answered to each
  outcome,  \* what each call returned
  ran,      \* how often each request was run (or accepted for running)
  silent,   \* whether the server hangs
  report    \* what the browser is answered

vars == <<batch, call, wire, loop, answer, outcome, ran, silent, report>>

NoAnswer == [type |-> "none", result |-> NoResult]
NoOutcome == Returned("none")
NoReport == [status |-> 0, success |-> 0, failure |-> 0]

-----------------------------------------------------------------------------
(* The payload.                                                            *)

\* parse_params(): an object, or a string that spells one ("json").
ParseParams(raw) == IF raw.kind \in {"object", "json"} THEN raw.fields ELSE <<>>

\* The browser sends JSON values.
ASSUME PayloadAssumption ==
  \A p \in Payload :
    /\ IsValue(p.count) /\ IsValue(p.concurrency)
    /\ LET params == ParseParams(p.params) IN \A f \in DOMAIN params : IsValue(params[f])

Clamp(n, least, most) == IF n < least THEN least ELSE IF n > most THEN most ELSE n

\* Mutant: the lower bound is forgotten.
CoerceIntAtMost(v, default, most) ==
  LET n == IF IsFloat(v) /\ ~NotInt(v) THEN IntOf(v) ELSE default
  IN IF n > most THEN most ELSE n

\* coerce_int().
CoerceInt(v, default, most) ==
  Clamp(IF IsFloat(v) /\ ~NotInt(v) THEN IntOf(v) ELSE default, 1, most)

PoolSize(concurrency, count) == Clamp(IF concurrency < count THEN concurrency ELSE count,
                                      1, MAX_CONCURRENCY)

\* A shared connection carries all calls at once; a client library makes one.
BatchOf(ch, p) ==
  LET count == IF ch \in ClientChannels THEN 1 ELSE CoerceInt(p.count, 1, MAX_COUNT)
      concurrency == CoerceInt(p.concurrency, 8, MAX_CONCURRENCY)
  IN [channel |-> ch, kind |-> p.type, params |-> ParseParams(p.params), count |-> count,
      atOnce |-> IF ch \in {"grpc_shared", "mq_shared"} THEN count
                 ELSE PoolSize(concurrency, count)]

Init ==
  /\ \E ch \in Channel, p \in Payload :
       /\ ch = "mq_client" => p.type \notin {"hash", "fib"}
       /\ batch = BatchOf(ch, p)
  /\ call = [i \in 1..batch.count |-> "queued"]
  /\ wire = [i \in 1..batch.count |-> "none"]
  /\ loop = {}
  /\ answer = [i \in 1..batch.count |-> NoAnswer]
  /\ outcome = [i \in 1..batch.count |-> NoOutcome]
  /\ ran = [i \in 1..batch.count |-> 0]
  /\ silent = FALSE
  /\ report = NoReport

Calls == 1..batch.count
In(channels) == batch.channel \in channels

-----------------------------------------------------------------------------
(* The calls.                                                              *)

\* The pool and the loops start the calls in their order.
MayStart(i) ==
  /\ call[i] = "queued" /\ \A k \in Calls : k < i => call[k] # "queued"
  /\ Cardinality({k \in Calls : call[k] = "waiting"}) < batch.atOnce
  /\ report = NoReport

Ends(i, o) ==
  /\ call' = [call EXCEPT ![i] = "returned"]
  /\ outcome' = [outcome EXCEPT ![i] = o]

Sends(i) ==
  /\ call' = [call EXCEPT ![i] = "waiting"]
  /\ wire' = [wire EXCEPT ![i] = "request"]
  /\ UNCHANGED outcome

\* create_single() sends what is of a kind it knows; RestJobClient sends all.
RestStarts(i) ==
  /\ In({"rest", "rest_client"}) /\ MayStart(i)
  /\ IF In({"rest"}) /\ batch.kind \notin Kinds
     THEN Ends(i, Returned("unknown")) /\ UNCHANGED wire
     ELSE Sends(i)
  /\ UNCHANGED <<batch, loop, answer, ran, silent, report>>

GrpcStarts(i) ==
  /\ In(GrpcChannels) /\ MayStart(i)
  /\ IF GrpcBuilds(batch.kind, batch.params) THEN Sends(i)
     ELSE Ends(i, Returned("refused")) /\ UNCHANGED wire
  /\ UNCHANGED <<batch, loop, answer, ran, silent, report>>

PostStarts(i) ==
  /\ In({"mq_client"}) /\ MayStart(i) /\ Sends(i)
  /\ UNCHANGED <<batch, loop, answer, ran, silent, report>>

\* create_single_mq() and the shared batch subscribe and publish.
MqPublishes(i) ==
  /\ In({"mq", "mq_shared"}) /\ MayStart(i)
  /\ Sends(i)
  /\ loop' = loop \cup {i}
  /\ UNCHANGED <<batch, answer, ran, silent, report>>

\* The end of create_single_mq(): the finally block talks to Redis again and
\* may raise, and then nothing is returned.
MqEnds(i, o) ==
  \/ Ends(i, o)
  \/ call' = [call EXCEPT ![i] = "raised"] /\ UNCHANGED outcome

MqRaises(i) ==
  /\ In({"mq"}) /\ MayStart(i)
  /\ MqEnds(i, Returned("broken"))
  /\ UNCHANGED <<batch, wire, loop, answer, ran, silent, report>>

Answered(i) == call[i] = "waiting" /\ answer[i] # NoAnswer

RestReturns(i) ==
  /\ In({"rest"}) /\ Answered(i)
  /\ Ends(i, RestReports(answer[i]))
  /\ UNCHANGED <<batch, wire, loop, answer, ran, silent, report>>

RestClientReturns(i) ==
  /\ In({"rest_client"}) /\ Answered(i)
  /\ Ends(i, RestRecord(answer[i]))
  /\ UNCHANGED <<batch, wire, loop, answer, ran, silent, report>>

GrpcReturns(i) ==
  /\ In({"grpc"}) /\ Answered(i)
  /\ Ends(i, GrpcReports(batch.kind, batch.params, answer[i]))
  /\ UNCHANGED <<batch, wire, loop, answer, ran, silent, report>>

GrpcSharedReturns(i) ==
  /\ In({"grpc_shared"}) /\ Answered(i)
  /\ Ends(i, GrpcSharedReports(batch.kind, answer[i]))
  /\ UNCHANGED <<batch, wire, loop, answer, ran, silent, report>>

MqReturns(i) ==
  /\ In({"mq"}) /\ Answered(i)
  /\ MqEnds(i, MqReports(answer[i]))
  /\ UNCHANGED <<batch, wire, loop, answer, ran, silent, report>>

PostReturns(i) ==
  /\ In({"mq_client"}) /\ Answered(i)
  /\ Ends(i, MqRecord(answer[i]))
  /\ UNCHANGED <<batch, wire, loop, answer, ran, silent, report>>

\* Mutant: a call that times out is made again.
RestTimesOutRetrying(i) ==
  /\ In({"rest", "mq_client"}) /\ call[i] = "waiting"
  /\ wire' = [wire EXCEPT ![i] = "request"]
  /\ UNCHANGED <<batch, call, loop, answer, outcome, ran, silent, report>>

\* Ten seconds, or thirty over MQ.
RestTimesOut(i) ==
  /\ In({"rest", "mq_client"}) /\ call[i] = "waiting"
  /\ Ends(i, Returned("timeout"))
  /\ UNCHANGED <<batch, wire, loop, answer, ran, silent, report>>

\* Mutant: the time is looked at when a result has come.
MqTimesOutLate(i) ==
  /\ In({"mq"}) /\ Answered(i)
  /\ MqEnds(i, Returned("timeout"))
  /\ UNCHANGED <<batch, wire, loop, answer, ran, silent, report>>

MqTimesOut(i) ==
  /\ In({"mq"}) /\ call[i] = "waiting"
  /\ MqEnds(i, Returned("timeout"))
  /\ UNCHANGED <<batch, wire, loop, answer, ran, silent, report>>

\* The connection of a call breaks, before or after the request has got through.
Breaks(i) ==
  /\ ~In({"mq", "mq_shared"}) /\ call[i] = "waiting"
  /\ Ends(i, Returned("broken"))
  /\ \/ wire[i] = "request" /\ wire' = [wire EXCEPT ![i] = "lost"]
     \/ UNCHANGED wire
  /\ UNCHANGED <<batch, loop, answer, ran, silent, report>>

-----------------------------------------------------------------------------
(* The server.                                                             *)

Answers(i, a) ==
  /\ wire' = [wire EXCEPT ![i] = "served"]
  /\ answer' = [answer EXCEPT ![i] = a]
  /\ UNCHANGED <<batch, call, outcome, silent, report>>

Runs(i, a) == ran' = [ran EXCEPT ![i] = @ + IF Taken(a) THEN 1 ELSE 0]

HttpServes(i) ==
  /\ In({"rest", "rest_client"} \cup GrpcChannels) /\ ~silent /\ wire[i] = "request"
  /\ \E full \in BOOLEAN :
       LET a == IF In(GrpcChannels)
                THEN GrpcServes(batch.kind, GrpcRequest(batch.kind, batch.params), full)
                ELSE RestServes(RestRoute(batch.kind), batch.params, full)
       IN Answers(i, a) /\ Runs(i, a)
  /\ UNCHANGED loop

\* POST /jobs publishes the request, and then its handler runs it as well.
PostIsPublished(i) ==
  /\ In({"mq_client"}) /\ ~silent /\ wire[i] = "request"
  /\ wire' = [wire EXCEPT ![i] = "published"]
  /\ loop' = loop \cup {i}
  /\ UNCHANGED <<batch, call, answer, outcome, ran, silent, report>>

PostIsServed(i) ==
  /\ In({"mq_client"}) /\ ~silent /\ wire[i] = "published"
  /\ LET a == PostServes(batch.kind, batch.params) IN Answers(i, a) /\ Runs(i, a)
  /\ UNCHANGED loop

\* The worker loop, which publishes what comes of it; Redis may lose it, or
\* raise at it, and nothing or a failure is published in its place.
LoopRuns(i) ==
  /\ ~silent /\ i \in loop
  /\ loop' = loop \ {i}
  /\ \E full \in BOOLEAN, lost \in BOOLEAN :
       LET a == LoopServes(batch.kind, batch.params, full)
       IN /\ Runs(i, a)
          /\ IF lost \/ In({"mq_client"}) THEN UNCHANGED <<wire, answer>>
             ELSE /\ wire' = [wire EXCEPT ![i] = "served"]
                  /\ \E said \in LoopPublishes(batch.kind, a) :
                       answer' = [answer EXCEPT ![i] = said]
  /\ UNCHANGED <<batch, call, outcome, silent, report>>

\* A request reaches no subscriber.
LoopMisses(i) ==
  /\ i \in loop
  /\ loop' = loop \ {i}
  /\ UNCHANGED <<batch, call, wire, answer, outcome, ran, silent, report>>

Hangs ==
  /\ ~silent
  /\ silent' = TRUE
  /\ UNCHANGED <<batch, call, wire, loop, answer, outcome, ran, report>>

-----------------------------------------------------------------------------
(* The end of the batch.                                                   *)

Reports(status, success, failure) ==
  report' = [status |-> status, success |-> success, failure |-> failure]

Finished == \A i \in Calls : call[i] \in {"returned", "raised"}
Successes == {i \in Calls : outcome[i].success}

\* run_batch() and its likes wait for all calls and count what they returned.
BatchEnds ==
  /\ In(UiChannels \ {"mq_shared"}) /\ report = NoReport /\ Finished
  /\ \A i \in Calls : call[i] = "returned"
  /\ Reports(200, Cardinality(Successes), batch.count - Cardinality(Successes))
  /\ UNCHANGED <<batch, call, wire, loop, answer, outcome, ran, silent>>

\* future.result() raises what a call raised; mq_batch() answers 500.
BatchRaises ==
  /\ In({"mq"}) /\ report = NoReport /\ Finished
  /\ \E i \in Calls : call[i] = "raised"
  /\ Reports(500, 0, 1)
  /\ UNCHANGED <<batch, call, wire, loop, answer, outcome, ran, silent>>

\* Mutant: the requests without a result are not counted.
SharedEndsShort ==
  /\ In({"mq_shared"}) /\ report = NoReport
  /\ \A i \in Calls : call[i] = "waiting"
  /\ call' = [i \in Calls |-> "returned"]
  /\ outcome' = [i \in Calls |-> IF answer[i] = NoAnswer THEN Returned("timeout")
                                 ELSE MqReports(answer[i])]
  /\ Reports(200, Cardinality({i \in Calls : outcome'[i].success}),
             Cardinality({i \in Calls : answer[i] # NoAnswer /\ ~outcome'[i].success}))
  /\ UNCHANGED <<batch, wire, loop, answer, ran, silent>>

\* All is published, and all results have come or sixty seconds have passed.
SharedEnds ==
  /\ In({"mq_shared"}) /\ report = NoReport
  /\ \A i \in Calls : call[i] = "waiting"
  /\ call' = [i \in Calls |-> "returned"]
  /\ outcome' = [i \in Calls |-> IF answer[i] = NoAnswer THEN Returned("timeout")
                                 ELSE MqReports(answer[i])]
  /\ LET successes == {i \in Calls : outcome'[i].success}
     IN Reports(200, Cardinality(successes), batch.count - Cardinality(successes))
  /\ UNCHANGED <<batch, wire, loop, answer, ran, silent>>

\* Redis raises before all is published: the batch ends with one failure.
SharedRaises ==
  /\ In({"mq_shared"}) /\ report = NoReport
  /\ \E i \in Calls : call[i] = "queued"
  /\ call' = [i \in Calls |-> "raised"]
  /\ Reports(200, 0, 1)
  /\ UNCHANGED <<batch, wire, loop, answer, outcome, ran, silent>>

-----------------------------------------------------------------------------

CallGoesOn(i) ==
  \/ RestStarts(i) \/ GrpcStarts(i) \/ PostStarts(i) \/ MqPublishes(i)
  \/ RestReturns(i) \/ RestClientReturns(i) \/ GrpcReturns(i) \/ GrpcSharedReturns(i)
  \/ MqReturns(i) \/ PostReturns(i) \/ RestTimesOut(i) \/ MqTimesOut(i)

Serves(i) == HttpServes(i) \/ PostIsPublished(i) \/ PostIsServed(i) \/ LoopRuns(i)
Ending == BatchEnds \/ BatchRaises \/ SharedEnds

Next ==
  \/ \E i \in Calls : CallGoesOn(i) \/ Serves(i) \/ Breaks(i) \/ MqRaises(i) \/ LoopMisses(i)
  \/ Ending \/ SharedRaises \/ Hangs

\* Threads are scheduled, timers fire, and a server that does not hang serves.
Spec ==
  /\ Init /\ [][Next]_vars
  /\ \A i \in 1..MAX_COUNT :
       WF_vars(i \in Calls /\ CallGoesOn(i)) /\ WF_vars(i \in Calls /\ Serves(i))
  /\ WF_vars(Ending)

-----------------------------------------------------------------------------

\* Types; a batch has at least one request and at most MAX_COUNT, and at least
\* one and at most MAX_CONCURRENCY calls at a time unless they share a
\* connection, whatever the browser sent.
TypeOK ==
  /\ batch.channel \in Channel /\ batch.count \in 1..MAX_COUNT
  /\ batch.atOnce \in 1..batch.count
  /\ In({"grpc_shared", "mq_shared"}) \/ batch.atOnce =< MAX_CONCURRENCY
  /\ call \in [Calls -> {"queued", "waiting", "returned", "raised"}]
  /\ wire \in [Calls -> {"none", "request", "published", "served", "lost"}]
  /\ loop \subseteq Calls
  /\ \A i \in Calls :
       /\ answer[i].type \in {"none", "refused", "full", "accepted", "result", "unpublished"}
       /\ outcome[i].success \in BOOLEAN
  /\ ran \in [Calls -> 0..2]
  /\ silent \in BOOLEAN
  /\ report.status \in {0, 200, 500}

\* The successes and failures that the browser is told add up to the requests,
\* and the successes are the calls that succeeded (run_batch() and its likes).
\* The one exception is a batch in which Redis raised outside of a call's own
\* handling: then one failure stands for all requests, those that were served
\* as well (mq_client.py:149 and the finally block at mq_client.py:371).
BatchAddsUp ==
  report # NoReport =>
    IF \E i \in Calls : call[i] = "raised"
    THEN In({"mq", "mq_shared"}) /\ report.success = 0 /\ report.failure = 1
    ELSE /\ report.success + report.failure = batch.count
         /\ report.success = Cardinality(Successes)

\* What is asked for, as far as the transport keeps it: gRPC turns the values
\* of an echo into strings (create_echo_request()).
Meant ==
  IF In(GrpcChannels) /\ batch.kind = "echo" THEN Stringified(batch.params)
  ELSE Validated(batch.kind, batch.params)

\* A result that a call reports is the result of the handler's job for the
\* parameters the caller gave, on every channel, in whatever form the numbers
\* were given: conversions on the way, the order of values and errors included.
ResultsAreRight ==
  batch.kind \in Kinds /\ Validates(batch.kind, batch.params) =>
    \A i \in Calls : outcome[i].result # NoResult =>
      Right(batch.kind, Meant, outcome[i].result)

\* Call i was refused as it is; over MQ the UI words all failures alike.
IsRefused(i) ==
  \/ outcome[i].reason \in {"refused", "unknown"}
  \/ outcome[i].reason = "failed" /\ answer[i] = Refused

\* The n of a fib comes as a string with a point: for pydantic "6.0" is an
\* int, for int() in create_fib_request() it is not.
PointedFib == batch.kind = "fib" /\ NotInt(Field(batch.params, "n", Whole(0)))

\* The channels refuse the same requests: what validates is refused nowhere,
\* but for a fib of "6.0" over gRPC (grpc_api/client/utils.py:54), and what does
\* not succeeds nowhere, but for gRPC, whose builders and handlers put defaults
\* in the place of what they do not understand, and for kinds unknown to
\* RestJobClient, which posts them to /echo.
RefusedAlike ==
  LET valid == batch.kind \in Kinds /\ Validates(batch.kind, batch.params)
  IN \A i \in Calls :
       /\ IsRefused(i) => ~valid \/ (In(GrpcChannels) /\ PointedFib)
       /\ outcome[i].success =>
            \/ valid
            \/ In(GrpcChannels)
            \/ In({"rest_client"}) /\ batch.kind \notin Kinds

\* What a call says of the server is true: a success was run or accepted, a
\* refusal and a full queue left nothing running.  Only timeouts and broken
\* connections leave that open, and a failure over MQ, which may be that of a
\* synchronous job that was run and whose result Redis did not take
\* (mq_api/server.py:176 and 284).  Nothing runs twice, except the synchronous
\* jobs of POST /jobs, which the worker loop runs after or before the handler.
FailuresAreHonest ==
  \A i \in Calls :
    /\ outcome[i].success => ran[i] >= 1
    /\ outcome[i].reason \in {"refused", "full", "unknown"} => ran[i] = 0
    /\ outcome[i].reason = "failed" =>
         ran[i] = 0 \/ (batch.kind \in SyncKinds /\ answer[i] = Unpublished)
    /\ ran[i] > 1 => In({"mq_client"})

\* A batch is answered and a call of a client library returns: by a timeout if
\* the server hangs, except over gRPC and by RestJobClient, which have none.
BatchIsAnswered ==
  <>(\/ report # NoReport
     \/ In(ClientChannels) /\ Finished
     \/ silent /\ ~In(TimedChannels))
=============================================================================
