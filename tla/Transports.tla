------------------------------ MODULE Transports ------------------------------
(***************************************************************************)
(* What each transport does to a request and to its answer: what the       *)
(* client puts on the wire, what the server accepts of it, runs and        *)
(* answers, and what the client makes of the answer.  Pure functions; the  *)
(* calls that use them are in UiBatch.                                     *)
(*                                                                         *)
(* An answer says that the server refused the request ("refused", "full"), *)
(* has queued it ("accepted"), or carries the result of running it.  A     *)
(* result that is an error, such as a division by zero, is a result.  The  *)
(* MQ worker may also answer with the failure of publishing its answer     *)
(* ("unpublished"), the job having run or not.                             *)
(***************************************************************************)
EXTENDS JobHandlers

NoResult == [none |-> "none"]
Refused == [type |-> "refused", result |-> NoResult]
Full == [type |-> "full", result |-> NoResult]
Accepted == [type |-> "accepted", result |-> NoResult]
Result(r) == [type |-> "result", result |-> r]
Unpublished == [type |-> "unpublished", result |-> NoResult]

\* Whether the answer is that of a server that ran the job or will run it.
Taken(a) == a.type \in {"accepted", "result"}

Returned(why) == [success |-> FALSE, reason |-> why, result |-> NoResult]
Succeeds(r) == [success |-> TRUE, reason |-> "ok", result |-> r]

\* submit() of an asynchronous job, full telling whether the queue has room.
Submitted(full) == IF full THEN Full ELSE Accepted

-----------------------------------------------------------------------------
(* REST: the routes, which FastAPI guards with 422, and their clients.     *)

RestServes(k, p, full) ==
  IF ~Validates(k, p) THEN Refused
  ELSE IF k \in SyncKinds THEN Result(Execute(k, Validated(k, p)))
  ELSE Submitted(full)

\* create_single() of the UI.
RestReports(a) == IF Taken(a) THEN Succeeds(a.result) ELSE Returned(a.type)

\* RestJobClient.create_job(): the route of a kind, and what the record says.
RestRoute(k) == IF k \in Kinds THEN k ELSE "echo"
RestRecord(a) == IF Taken(a) THEN Succeeds(NoResult) ELSE Returned(a.type)

-----------------------------------------------------------------------------
(* gRPC: the request builders, which know the types of the messages only,  *)
(* the servicer and the clients.                                           *)

\* str() of a value: a string is its own.
Str(v) ==
  CASE v.kind = "int"   -> Digits(v.half \div 2)
    [] v.kind = "float" -> Point(v.half)
    [] v.kind = "list"  -> [kind |-> "printed", items |-> v.items]
    [] v.kind = "null"  -> Word("None")
    [] OTHER            -> v

Stringified(p) == [f \in DOMAIN p |-> Str(p[f])]

\* float() and int() of a value; what is neither a number nor a string is 0.
\* int() raises for a string with a point, "2.0" as well as "2.5".
FloatOf(v) == IF IsFloat(v) THEN v.half ELSE 0
Truncated(h) == IF h < 0 THEN -((-h) \div 2) ELSE h \div 2
IntOf(v) == IF IsFloat(v) THEN Truncated(v.half) ELSE 0
NotInt(v) == v.kind = "point"

ItemsOf(p) ==
  LET v == Field(p, "values", List(<<>>)) IN IF v.kind = "list" THEN v.items ELSE <<>>

\* Whether the request can be built: float() and int() raise for other strings.
GrpcBuilds(k, p) ==
  LET Raises(v) == v.kind = "word"
  IN CASE k = "calc"  -> \A f \in {"a", "b"} : ~Raises(Field(p, f, Whole(0)))
       [] k = "stats" -> \A i \in DOMAIN ItemsOf(p) : ~Raises(ItemsOf(p)[i])
       [] k = "fib"   -> ~Raises(Field(p, "n", Whole(0))) /\ ~NotInt(Field(p, "n", Whole(0)))
       [] OTHER       -> TRUE

CalcRequest(p) ==
  LET op == Field(p, "op", Word("add"))
  IN [op |-> IF op.kind = "word" THEN op.text ELSE "other",
      a |-> FloatOf(Field(p, "a", Whole(0))), b |-> FloatOf(Field(p, "b", Whole(0)))]

GrpcRequest(k, p) ==
  CASE k = "calc"  -> CalcRequest(p)
    [] k = "stats" -> [i \in DOMAIN ItemsOf(p) |-> FloatOf(ItemsOf(p)[i])]
    [] k = "fib"   -> IntOf(Field(p, "n", Whole(0)))
    [] OTHER       -> Stringified(p)

\* handle_calc(): an operation it does not know is an addition, and an error
\* is answered together with the request.
HandleCalc(m) ==
  LET r == Calc([m EXCEPT !.op = IF @ \in Ops THEN @ ELSE "add"])
  IN IF "error" \in DOMAIN r
     THEN [op |-> m.op, a |-> m.a, b |-> m.b, result |-> <<0, 1>>, error |-> r.error]
     ELSE r

GrpcServes(k, m, full) ==
  CASE k = "calc"  -> Result(HandleCalc(m))
    [] k = "stats" -> Result(Stats(m))
    [] k = "hash"  -> Submitted(full)
    [] k = "fib"   -> IF m \in 0..40 THEN Submitted(full) ELSE Refused
    [] OTHER       -> Result(Execute("echo", m))

\* GrpcJobClient.create_job() and create_single_grpc(): a kind the client does
\* not know is run as an echo, whose answer is dropped; the UI then takes for
\* the result a parameter of that name.
GrpcReports(k, p, a) ==
  IF ~Taken(a) THEN Returned(a.type)
  ELSE Succeeds(IF k \in Kinds THEN a.result ELSE Field(p, "result", NoResult))

\* The same over one connection: the UI makes the synchronous calls itself
\* and leaves the others to AsyncGrpcJobClient.create_job(), whose record has
\* an id and no result.
GrpcAsyncRecord(a) == IF Taken(a) THEN Succeeds(NoResult) ELSE Returned(a.type)
GrpcSharedReports(k, a) ==
  IF k \in SyncKinds /\ Taken(a) THEN Succeeds(a.result) ELSE GrpcAsyncRecord(a)

-----------------------------------------------------------------------------
(* MQ: the worker loop, the route POST /jobs and their clients.            *)

\* Mutant: what is not known is taken for an echo.
LoopServesEcho(k, p, full) ==
  IF k \notin Kinds THEN Result(Execute("echo", p))
  ELSE IF ~Validates(k, p) THEN Refused
  ELSE IF k \notin SyncKinds /\ full THEN Full
  ELSE Result(Execute(k, Validated(k, p)))

\* _process_job_request(), up to the result it publishes.
LoopServes(k, p, full) ==
  IF k \notin Kinds \/ ~Validates(k, p) THEN Refused
  ELSE IF k \notin SyncKinds /\ full THEN Full
  ELSE Result(Execute(k, Validated(k, p)))

\* What the loop publishes: its answer, or, if Redis raises at the result of a
\* synchronous job or at the news of a full queue, a failure in its place.
LoopPublishes(k, a) ==
  {a} \cup IF a.type = "full" \/ (k \in SyncKinds /\ Taken(a)) THEN {Unpublished} ELSE {}

\* POST /jobs of a synchronous job, which the handler runs itself.
PostServes(k, p) ==
  IF k \in SyncKinds /\ Validates(k, p) THEN Result(Execute(k, Validated(k, p))) ELSE Refused

\* create_single_mq() and _run_mq_batch_persistent(), once the result has come:
\* all failures are worded alike, "Job failed: failed".
MqReports(a) == IF Taken(a) THEN Succeeds(a.result) ELSE Returned("failed")

\* MQJobClient.create_job() wants a status or an id, and finds neither in the
\* answer to a synchronous job.
MqRecord(a) == IF Taken(a) THEN Returned("no id") ELSE Returned(a.type)
=============================================================================
