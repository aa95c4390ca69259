---------------------------- MODULE UiBatchProofs ----------------------------
(***************************************************************************)
(* What holds of UiBatch for any payloads and bounds: the types, that the  *)
(* counts add up, that what a call says of the server is true, that the    *)
(* channels refuse the same requests, and, with what the handlers compute, *)
(* that the results are right.                                             *)
(***************************************************************************)
EXTENDS UiBatch, JobHandlersProofs

-----------------------------------------------------------------------------
(* The inductive invariant *)

AnswerType == {"none", "refused", "full", "accepted", "result", "unpublished"}

\* The request that gRPC cannot build although it validates.
Excused == In(GrpcChannels) /\ PointedFib

Valid == batch.kind \in Kinds /\ Validates(batch.kind, batch.params)

\* Parameters that are JSON values.
IsJson(p) == \A f \in DOMAIN p : IsValue(p[f])

BatchIsSound ==
  /\ batch.channel \in Channel
  /\ batch.count \in 1..MAX_COUNT /\ batch.atOnce \in 1..batch.count
  /\ In({"grpc_shared", "mq_shared"}) \/ batch.atOnce =< MAX_CONCURRENCY
  /\ In({"mq_client"}) => batch.kind \notin {"hash", "fib"}
  /\ IsJson(batch.params)

\* How far a call, its request and its answer are.
CallTypes ==
  /\ call \in [Calls -> {"queued", "waiting", "returned", "raised"}]
  /\ wire \in [Calls -> {"none", "request", "published", "served", "lost"}]
  /\ loop \subseteq Calls /\ silent \in BOOLEAN
  /\ DOMAIN answer = Calls /\ DOMAIN outcome = Calls
  /\ \A i \in Calls : answer[i].type \in AnswerType /\ outcome[i].success \in BOOLEAN
  /\ ran \in [Calls -> 0..2]

\* A request has an answer when it is served; what is not sent is in no loop.
WireFits(i) ==
  /\ wire[i] = "served" <=> answer[i].type # "none"
  /\ wire[i] # "served" => answer[i] = NoAnswer
  /\ call[i] = "queued" => wire[i] = "none"
  /\ wire[i] \in {"none", "lost"} => i \notin loop /\ ran[i] = 0
  /\ wire[i] # "none" => ~(In({"rest"}) /\ batch.kind \notin Kinds)

\* Whether the answer took the request on.
Once(i) == IF Taken(answer[i]) THEN 1 ELSE 0

\* How often a request has been run: once per place that can still run it.
RunsFit(i) ==
  /\ ~In({"mq", "mq_shared", "mq_client"}) =>
       i \notin loop /\ ran[i] = Once(i) /\ wire[i] # "published"
  /\ In({"mq", "mq_shared"}) =>
       /\ i \in loop => wire[i] = "request" /\ ran[i] = 0
       /\ wire[i] \in {"none", "request", "served"} /\ ran[i] \in 0..1
       /\ wire[i] = "served" =>
            \/ ran[i] = Once(i)
            \/ batch.kind \in SyncKinds /\ answer[i] = Unpublished
  /\ In({"mq_client"}) =>
       /\ i \in loop => wire[i] \in {"published", "served"}
       /\ wire[i] = "request" => ran[i] = 0
       /\ i \in loop => ran[i] = Once(i)
       /\ ran[i] \in Once(i)..(Once(i) + 1)
       /\ ~Valid => ran[i] = 0

\* An answer refuses what does not validate, but for gRPC and for the route
\* that RestJobClient posts an unknown kind to.
AnswerFits(i) ==
  /\ answer[i].type = "refused" => ~Valid
  /\ Taken(answer[i]) => \/ Valid \/ In(GrpcChannels)
                         \/ In({"rest_client"}) /\ batch.kind \notin Kinds
  /\ In({"mq_client"}) => answer[i].type # "full"

\* A failure over MQ may be that of a job which was run.
MayHaveRun(i) ==
  /\ In({"mq", "mq_shared"})
  /\ ran[i] = 0 \/ (batch.kind \in SyncKinds /\ answer[i] = Unpublished)

\* A call that is not over has no outcome; what an outcome says is so.
OutcomeFits(i) ==
  /\ call[i] \in {"queued", "waiting"} => outcome[i] = NoOutcome
  /\ call[i] = "raised" => In({"mq", "mq_shared"})
  /\ outcome[i].success => ran[i] >= 1 /\ Taken(answer[i])
  /\ outcome[i].reason \in {"refused", "full", "unknown"} =>
       /\ ran[i] = 0 /\ wire[i] \in {"none", "served"} /\ ~Taken(answer[i])
       /\ In({"mq_client"}) => ~Valid
  /\ outcome[i].reason \in {"refused", "unknown"} => ~Valid \/ Excused
  /\ outcome[i].reason = "failed" => wire[i] = "served" /\ MayHaveRun(i)

Reported ==
  /\ report.status \in {0, 200, 500}
  /\ report # NoReport => Finished
  /\ BatchAddsUp

CallFits(i) == WireFits(i) /\ RunsFit(i) /\ AnswerFits(i) /\ OutcomeFits(i)

BatchInv == BatchIsSound /\ CallTypes /\ Reported /\ \A i \in Calls : CallFits(i)

-----------------------------------------------------------------------------
(* What the servers answer, whatever the jobs compute *)

Answer == {"refused", "full", "accepted", "result", "unpublished"}

LEMMA RestAnswers ==
  ASSUME NEW k, NEW p, NEW full \in BOOLEAN
  PROVE  /\ RestServes(k, p, full).type \in Answer
         /\ RestServes(k, p, full).type = "refused" => ~Validates(k, p)
         /\ Taken(RestServes(k, p, full)) => Validates(k, p)
BY DEF RestServes, Refused, Full, Accepted, Result, Submitted, Taken, Answer

LEMMA LoopAnswers ==
  ASSUME NEW k, NEW p, NEW full \in BOOLEAN
  PROVE  /\ LoopServes(k, p, full).type \in Answer
         /\ LoopServes(k, p, full).type = "refused" => ~(k \in Kinds /\ Validates(k, p))
         /\ Taken(LoopServes(k, p, full)) => k \in Kinds /\ Validates(k, p)
BY DEF LoopServes, Refused, Full, Result, Taken, Answer

LEMMA PostAnswers ==
  ASSUME NEW k, NEW p, k \notin {"hash", "fib"}
  PROVE  /\ PostServes(k, p).type \in {"refused", "result"}
         /\ PostServes(k, p).type = "refused" => ~(k \in Kinds /\ Validates(k, p))
         /\ Taken(PostServes(k, p)) => k \in Kinds /\ Validates(k, p)
BY DEF PostServes, Refused, Result, Taken, Kinds, SyncKinds

\* The servicer refuses no request that validates.
LEMMA GrpcAnswers ==
  ASSUME NEW k, NEW p, IsJson(p), NEW full \in BOOLEAN
  PROVE  /\ GrpcServes(k, GrpcRequest(k, p), full).type \in Answer
         /\ GrpcServes(k, GrpcRequest(k, p), full).type = "refused" => ~Validates(k, p)
<1>. DEFINE a == GrpcServes(k, GrpcRequest(k, p), full)
<1>1. CASE k = "fib"
  <2>. DEFINE m == GrpcRequest(k, p)
  <2>1. a = IF m \in 0..40 THEN Submitted(full) ELSE Refused
    BY <1>1 DEF GrpcServes
  <2>2. a.type \in Answer
    BY <2>1 DEF Submitted, Refused, Full, Accepted, Answer
  <2>3. ASSUME Validates(k, p)
        PROVE  m \in 0..40
    <3>1. "n" \in DOMAIN p /\ IsInt(p.n) /\ p.n.half \div 2 \in 0..40
      BY <1>1, <2>3 DEF Validates, ValidFib
    <3>2. IsFloat(p.n) /\ p.n.half \in Int
      BY <3>1 DEF IsInt, IsJson, IsValue, IsNumeric
    <3>3. m = Truncated(p.n.half)
      BY <1>1, <3>1, <3>2 DEF GrpcRequest, Field, IntOf
    <3>. HIDE DEF m
    <3>. QED
      BY <3>1, <3>2, <3>3 DEF Truncated
  <2>4. a.type = "refused" => m \notin 0..40
    BY <2>1 DEF Submitted, Full, Accepted
  <2>. QED
    BY <2>2, <2>3, <2>4
<1>2. CASE k # "fib"
  <2>1. a.type \in {"full", "accepted", "result"}
    BY <1>2 DEF GrpcServes, Submitted, Full, Accepted, Result
  <2>. QED
    BY <2>1 DEF Answer
<1>. QED
  BY <1>1, <1>2

\* A request that cannot be built does not validate, but for a fib of "6.0".
LEMMA BuildersRefuse ==
  ASSUME NEW k, NEW p, ~GrpcBuilds(k, p)
  PROVE  ~Validates(k, p) \/ (k = "fib" /\ NotInt(Field(p, "n", Whole(0))))
<1>1. CASE k = "calc"
  <2>1. \E f \in {"a", "b"} : Field(p, f, Whole(0)).kind = "word"
    BY <1>1 DEF GrpcBuilds
  <2>2. ~ValidCalc(p)
    BY <2>1 DEF ValidCalc, IsFloat
  <2>. QED
    BY <1>1, <2>2 DEF Validates
<1>2. CASE k = "stats"
  <2>1. PICK i \in DOMAIN ItemsOf(p) : ItemsOf(p)[i].kind = "word"
    BY <1>2 DEF GrpcBuilds
  <2>2. ~ValidStats(p)
    <3>. SUFFICES ASSUME "values" \in DOMAIN p, p.values.kind = "list"
                  PROVE  \E n \in DOMAIN p.values.items : ~IsFloat(p.values.items[n])
      BY DEF ValidStats
    <3>1. ItemsOf(p) = p.values.items
      BY DEF ItemsOf, Field
    <3>. QED
      BY <2>1, <3>1 DEF IsFloat
  <2>. QED
    BY <1>2, <2>2 DEF Validates
<1>3. CASE k = "fib"
  <2>1. LET v == Field(p, "n", Whole(0)) IN v.kind = "word" \/ NotInt(v)
    BY <1>3 DEF GrpcBuilds
  <2>2. ~NotInt(Field(p, "n", Whole(0))) /\ "n" \in DOMAIN p => ~IsInt(p.n)
    BY <2>1 DEF Field, IsInt, IsFloat
  <2>. QED
    BY <1>3, <2>2 DEF Validates, ValidFib
<1>4. k \in {"calc", "stats", "fib"}
  BY DEF GrpcBuilds
<1>. QED
  BY <1>1, <1>2, <1>3, <1>4

-----------------------------------------------------------------------------
(* What the servers answer is what the handlers should compute *)

LEMMA ServersAreRight ==
  ASSUME NEW k \in Kinds, NEW p, Validates(k, p), IsJson(p), NEW full \in BOOLEAN,
         NEW r \in {RestServes(RestRoute(k), p, full).result, LoopServes(k, p, full).result,
                    PostServes(k, p).result},
         r # NoResult
  PROVE  Right(k, Validated(k, p), r)
<1>1. RestRoute(k) = k
  BY DEF RestRoute
<1>2. r = Execute(k, Validated(k, p))
  BY <1>1 DEF RestServes, LoopServes, PostServes, Submitted, Full, Accepted, Refused, Result
<1>. QED
  BY <1>2, ExecuteIsRight DEF IsJson

\* The builders of gRPC make the same numbers of the parameters as pydantic.
LEMMA BuildersConvert ==
  ASSUME NEW p, IsJson(p)
  PROVE  /\ ValidCalc(p) => CalcRequest(p) = Validated("calc", p)
         /\ ValidStats(p) => GrpcRequest("stats", p) = Validated("stats", p)
<1>1. ASSUME ValidCalc(p)
      PROVE  CalcRequest(p) = Validated("calc", p)
  <2>. DEFINE op == Field(p, "op", Word("add"))
              a == Field(p, "a", Whole(0))
              b == Field(p, "b", Whole(0))
  <2>1. op \in {Word(o) : o \in Ops} /\ IsFloat(a) /\ IsFloat(b)
    BY <1>1 DEF ValidCalc
  <2>2. op.kind = "word"
    <3>1. PICK o \in Ops : op = Word(o)
      BY <2>1
    <3>2. Word(o).kind = "word"
      BY DEF Word
    <3>. HIDE DEF op
    <3>. QED
      BY <3>1, <3>2
  <2>3. FloatOf(a) = a.half /\ FloatOf(b) = b.half
    BY <2>1 DEF FloatOf
  <2>4. CalcRequest(p) = [op |-> op.text, a |-> a.half, b |-> b.half]
    BY <2>2, <2>3 DEF CalcRequest
  <2>5. Validated("calc", p) = [op |-> op.text, a |-> a.half, b |-> b.half]
    BY DEF Validated
  <2>. QED
    BY <2>4, <2>5
<1>2. ASSUME ValidStats(p)
      PROVE  GrpcRequest("stats", p) = Validated("stats", p)
  <2>1. /\ "values" \in DOMAIN p /\ p.values.kind = "list"
        /\ \A i \in DOMAIN p.values.items : IsFloat(p.values.items[i])
    BY <1>2 DEF ValidStats
  <2>2. ItemsOf(p) = p.values.items
    BY <2>1 DEF ItemsOf, Field
  <2>3. GrpcRequest("stats", p) = [i \in DOMAIN ItemsOf(p) |-> FloatOf(ItemsOf(p)[i])]
    BY DEF GrpcRequest
  <2>4. Validated("stats", p) = [i \in DOMAIN p.values.items |-> p.values.items[i].half]
    BY DEF Validated
  <2>. QED
    BY <2>1, <2>2, <2>3, <2>4 DEF FloatOf
<1>. QED
  BY <1>1, <1>2

LEMMA ServicerIsRight ==
  ASSUME NEW k \in Kinds, NEW p, Validates(k, p), IsJson(p), NEW full \in BOOLEAN,
         GrpcServes(k, GrpcRequest(k, p), full).result # NoResult
  PROVE  Right(k, IF k = "echo" THEN Stringified(p) ELSE Validated(k, p),
               GrpcServes(k, GrpcRequest(k, p), full).result)
<1>. DEFINE m == GrpcRequest(k, p)
            r == GrpcServes(k, m, full).result
            q == Validated(k, p)
<1>1. ASSUME k = "calc"
      PROVE  Right("calc", q, r)
  <2>1. m = q
    BY <1>1, BuildersConvert DEF GrpcRequest, Validates
  <2>2. q.op \in Ops /\ q.a \in Int /\ q.b \in Int
    BY <1>1, ValidatedTypes DEF IsJson
  <2>3. q = [op |-> q.op, a |-> q.a, b |-> q.b]
    BY <1>1 DEF Validated
  <2>4. r = HandleCalc(m)
    BY <1>1 DEF GrpcServes, Result
  <2>. HIDE DEF m, q, r
  <2>5. [q EXCEPT !.op = IF q.op \in Ops THEN q.op ELSE "add"] = q
    BY <2>2, <2>3
  <2>6. Right("calc", q, Calc(q))
    BY <2>2, CalcIsRight
  <2>7. r = IF "error" \in DOMAIN Calc(q)
            THEN [op |-> q.op, a |-> q.a, b |-> q.b, result |-> <<0, 1>>, error |-> Calc(q).error]
            ELSE Calc(q)
    BY <2>1, <2>4, <2>5 DEF HandleCalc
  <2>8. CASE "error" \in DOMAIN Calc(q)
    <3>1. q.op = "div" /\ q.b = 0
      BY <2>6, <2>8 DEF Right
    <3>2. "error" \in DOMAIN r
      BY <2>7, <2>8
    <3>3. Right("calc", q, r)
      BY <3>1, <3>2 DEF Right
    <3>. QED
      BY <3>3
  <2>9. CASE "error" \notin DOMAIN Calc(q)
    BY <2>6, <2>7, <2>9
  <2>. QED
    BY <2>8, <2>9
<1>2. ASSUME k = "stats"
      PROVE  Right("stats", q, r)
  <2>1. m = q
    BY <1>2, BuildersConvert DEF Validates
  <2>2. q \in Seq(Int)
    BY <1>2, ValidatedTypes DEF IsJson
  <2>3. r = Stats(m)
    BY <1>2 DEF GrpcServes, Result
  <2>. HIDE DEF m, q, r
  <2>4. Right("stats", q, Stats(q))
    BY <2>2, StatsIsRight
  <2>. QED
    BY <2>1, <2>3, <2>4
<1>3. ASSUME k = "echo"
      PROVE  Right("echo", Stringified(p), r)
  <2>1. m = Stringified(p)
    BY <1>3 DEF GrpcRequest
  <2>2. r = Echo(m)
    BY <1>3 DEF GrpcServes, Result, Execute
  <2>. HIDE DEF m, r
  <2>3. Right("echo", m, Echo(m))
    BY DEF Right, Echo
  <2>. QED
    BY <2>1, <2>2, <2>3
<1>4. k \notin {"hash", "fib"}
  BY DEF GrpcServes, Submitted, Full, Accepted, Refused
<1>. HIDE DEF q, r
<1>5. Right(k, IF k = "echo" THEN Stringified(p) ELSE q, r)
  BY <1>1, <1>2, <1>3, <1>4 DEF Kinds
<1>. QED
  BY <1>5 DEF q, r

-----------------------------------------------------------------------------
(* The batch that a payload makes *)

LEMMA BatchOfIsSound ==
  ASSUME NEW ch \in Channel, NEW p \in Payload
  PROVE  LET b == BatchOf(ch, p) IN
         /\ b.channel = ch /\ b.kind = p.type /\ b.count \in 1..MAX_COUNT /\ b.atOnce \in 1..b.count
         /\ ch \in {"grpc_shared", "mq_shared"} \/ b.atOnce =< MAX_CONCURRENCY
         /\ IsJson(b.params)
<1>1. /\ MAX_COUNT \in Nat \ {0} /\ MAX_CONCURRENCY \in Nat \ {0}
  BY UiBatchAssumption
<1>2. ASSUME NEW v \in {p.count, p.concurrency}, NEW default \in Int, NEW most \in Nat \ {0}
      PROVE  CoerceInt(v, default, most) \in 1..most
  <2>1. IsFloat(v) => v.half \in Int
    BY PayloadAssumption DEF IsValue, IsNumeric
  <2>2. IsFloat(v) => IntOf(v) \in Int
    BY <2>1 DEF IntOf, Truncated
  <2>. QED
    BY <2>2 DEF CoerceInt, Clamp
<1>. DEFINE n == IF ch \in ClientChannels THEN 1 ELSE CoerceInt(p.count, 1, MAX_COUNT)
            m == CoerceInt(p.concurrency, 8, MAX_CONCURRENCY)
<1>3. n \in 1..MAX_COUNT /\ m \in 1..MAX_CONCURRENCY
  BY <1>1, <1>2
<1>4. IsJson(ParseParams(p.params))
  BY PayloadAssumption DEF IsJson
<1>5. BatchOf(ch, p) = [channel |-> ch, kind |-> p.type, params |-> ParseParams(p.params), count |-> n,
        atOnce |-> IF ch \in {"grpc_shared", "mq_shared"} THEN n ELSE PoolSize(m, n)]
  BY DEF BatchOf
<1>. HIDE DEF n, m
<1>6. PoolSize(m, n) \in 1..n /\ PoolSize(m, n) =< MAX_CONCURRENCY
  BY <1>1, <1>3 DEF PoolSize, Clamp
<1>. QED
  BY <1>3, <1>4, <1>5, <1>6

LEMMA BatchInvInit == Init => BatchInv
<1>. SUFFICES ASSUME Init
              PROVE  BatchInv
  OBVIOUS
<1>1. PICK ch \in Channel, p \in Payload :
        (ch = "mq_client" => p.type \notin {"hash", "fib"}) /\ batch = BatchOf(ch, p)
  BY DEF Init
<1>2. BatchIsSound
  BY <1>1, BatchOfIsSound DEF BatchIsSound, In, IsJson
<1>3. /\ call = [i \in Calls |-> "queued"] /\ wire = [i \in Calls |-> "none"]
      /\ answer = [i \in Calls |-> NoAnswer] /\ outcome = [i \in Calls |-> NoOutcome]
      /\ ran = [i \in Calls |-> 0] /\ loop = {} /\ silent = FALSE /\ report = NoReport
  BY DEF Init, Calls
<1>4. /\ NoAnswer.type = "none" /\ NoOutcome.success = FALSE /\ NoOutcome.reason = "none"
      /\ NoReport.status = 0
  BY DEF NoAnswer, NoOutcome, Returned, NoReport
<1>5. CallTypes
  <2>1. DOMAIN answer = Calls /\ DOMAIN outcome = Calls
    BY <1>3
  <2>2. \A i \in Calls : answer[i].type \in AnswerType /\ outcome[i].success \in BOOLEAN
    BY <1>3, <1>4 DEF AnswerType
  <2>3. /\ call \in [Calls -> {"queued", "waiting", "returned", "raised"}]
        /\ wire \in [Calls -> {"none", "request", "published", "served", "lost"}]
        /\ ran \in [Calls -> 0..2] /\ loop \subseteq Calls
    BY <1>3
  <2>4. silent \in BOOLEAN
    BY <1>3
  <2>. QED
    BY <2>1, <2>2, <2>3, <2>4 DEF CallTypes
<1>6. Reported
  BY <1>3, <1>4 DEF Reported, BatchAddsUp
<1>7. \A i \in Calls : CallFits(i)
  BY <1>3, <1>4 DEF CallFits, WireFits, RunsFit, AnswerFits, OutcomeFits, Once, Taken
<1>. QED
  BY <1>2, <1>5, <1>6, <1>7 DEF BatchInv

-----------------------------------------------------------------------------
(* Steps of one call *)

\* What concerns call i is as it was.
Same(i) ==
  /\ call'[i] = call[i] /\ wire'[i] = wire[i] /\ answer'[i] = answer[i]
  /\ outcome'[i] = outcome[i] /\ ran'[i] = ran[i] /\ (i \in loop' <=> i \in loop)

LEMMA SameFits ==
  ASSUME batch' = batch, NEW i \in Calls, CallFits(i), Same(i)
  PROVE  CallFits(i)'
BY DEF Same, CallFits, WireFits, RunsFit, AnswerFits, OutcomeFits, Once, In, Valid, Excused, PointedFib, MayHaveRun

\* A step of call i while nothing is reported, or that leaves it as it ended.
LEMMA StepOfCall ==
  ASSUME BatchInv, batch' = batch, report' = report, CallTypes', NEW i \in Calls,
         \A k \in Calls : k # i => Same(k), CallFits(i)',
         report = NoReport \/ (call' = call /\ outcome' = outcome)
  PROVE  BatchInv'
<1>1. Calls' = Calls
  BY DEF Calls
<1>2. \A k \in Calls : CallFits(k)'
  BY SameFits DEF BatchInv
<1>3. BatchIsSound'
  BY DEF BatchInv, BatchIsSound, In
<1>4. Reported'
  <2>1. CASE report = NoReport
    BY <2>1 DEF BatchInv, Reported, BatchAddsUp
  <2>2. CASE call' = call /\ outcome' = outcome
    BY <1>1, <2>2 DEF BatchInv, Reported, BatchAddsUp, Finished, Successes, In
  <2>. QED
    BY <2>1, <2>2
<1>. QED
  BY <1>1, <1>2, <1>3, <1>4 DEF BatchInv

LEMMA CallFacts ==
  ASSUME BatchInv, NEW i \in Calls
  PROVE  /\ CallFits(i) /\ CallTypes /\ BatchIsSound /\ Reported
         /\ answer[i].type \in AnswerType /\ ran[i] \in 0..2 /\ outcome[i].success \in BOOLEAN
         /\ call[i] \in {"queued", "waiting"} => report = NoReport
         /\ DOMAIN answer = Calls /\ DOMAIN outcome = Calls
BY DEF BatchInv, CallTypes, Reported, Finished

-----------------------------------------------------------------------------
(* A call begins or ends *)

\* The outcome o may be that of call i.
MayReturn(i, o) ==
  /\ o.success \in BOOLEAN
  /\ o.success => ran[i] >= 1 /\ Taken(answer[i])
  /\ o.reason \in {"refused", "full", "unknown"} =>
       /\ ran[i] = 0 /\ wire[i] \in {"none", "served"} /\ ~Taken(answer[i])
       /\ In({"mq_client"}) => ~Valid
  /\ o.reason \in {"refused", "unknown"} => ~Valid \/ Excused
  /\ o.reason = "failed" => wire[i] = "served" /\ MayHaveRun(i)

LEMMA EndStep ==
  ASSUME BatchInv, NEW i \in Calls, call[i] \in {"queued", "waiting"}, NEW o, Ends(i, o), MayReturn(i, o),
         UNCHANGED <<batch, loop, answer, ran, silent, report>>,
         \/ wire' = wire
         \/ /\ wire[i] = "request" /\ wire' = [wire EXCEPT ![i] = "lost"] /\ ~In({"mq", "mq_shared"})
            /\ o.reason \notin {"refused", "full", "unknown"}
  PROVE  BatchInv'
<1>1. /\ CallFits(i) /\ CallTypes /\ report = NoReport /\ DOMAIN outcome = Calls
  BY CallFacts
<1>2. /\ call' = [call EXCEPT ![i] = "returned"] /\ outcome' = [outcome EXCEPT ![i] = o]
  BY DEF Ends
<1>3. /\ call'[i] = "returned" /\ outcome'[i] = o /\ Calls' = Calls
      /\ wire'[i] = wire[i] \/ (wire[i] = "request" /\ wire'[i] = "lost" /\ ~In({"mq", "mq_shared"})
                                /\ o.reason \notin {"refused", "full", "unknown"})
  BY <1>1, <1>2 DEF CallTypes, Calls
<1>4. CallTypes'
  BY <1>1, <1>2, <1>3 DEF CallTypes, MayReturn
<1>5. \A k \in Calls : k # i => Same(k)
  BY <1>1, <1>2 DEF CallTypes, Same
<1>6. WireFits(i)' /\ RunsFit(i)' /\ AnswerFits(i)'
  BY <1>1, <1>3 DEF CallFits, WireFits, RunsFit, AnswerFits, Once, In, Valid, NoAnswer, Taken
<1>7. OutcomeFits(i)'
  BY <1>1, <1>3 DEF MayReturn, OutcomeFits, In, Valid, Excused, PointedFib, MayHaveRun
<1>. QED
  BY <1>1, <1>4, <1>5, <1>6, <1>7, StepOfCall DEF CallFits

\* The finally block of create_single_mq() raises.
LEMMA RaiseStep ==
  ASSUME BatchInv, NEW i \in Calls, call[i] \in {"queued", "waiting"}, In({"mq"}),
         call' = [call EXCEPT ![i] = "raised"],
         UNCHANGED <<batch, wire, loop, answer, outcome, ran, silent, report>>
  PROVE  BatchInv'
<1>1. /\ CallFits(i) /\ CallTypes /\ report = NoReport
  BY CallFacts
<1>2. call'[i] = "raised" /\ Calls' = Calls
  BY <1>1 DEF CallTypes, Calls
<1>3. CallTypes'
  BY <1>1, <1>2 DEF CallTypes
<1>4. \A k \in Calls : k # i => Same(k)
  BY <1>1 DEF CallTypes, Same
<1>5. CallFits(i)'
  BY <1>1, <1>2 DEF CallFits, WireFits, RunsFit, AnswerFits, OutcomeFits, Once, In, Valid, Excused, PointedFib, MayHaveRun
<1>. QED
  BY <1>1, <1>3, <1>4, <1>5, StepOfCall

LEMMA SendStep ==
  ASSUME BatchInv, NEW i \in Calls, MayStart(i), Sends(i),
         ~(In({"rest"}) /\ batch.kind \notin Kinds),
         UNCHANGED <<batch, answer, ran, silent, report>>,
         loop' = IF In({"mq", "mq_shared"}) THEN loop \cup {i} ELSE loop
  PROVE  BatchInv'
<1>1. /\ CallFits(i) /\ CallTypes /\ call[i] = "queued" /\ report = NoReport
  BY CallFacts DEF MayStart
<1>2. /\ call' = [call EXCEPT ![i] = "waiting"] /\ wire' = [wire EXCEPT ![i] = "request"]
      /\ outcome' = outcome
  BY DEF Sends
<1>3. call'[i] = "waiting" /\ wire'[i] = "request" /\ Calls' = Calls
  BY <1>1, <1>2 DEF CallTypes, Calls
<1>4. CallTypes'
  BY <1>1, <1>2, <1>3 DEF CallTypes
<1>5. \A k \in Calls : k # i => Same(k)
  BY <1>1, <1>2 DEF CallTypes, Same
<1>6. /\ wire[i] = "none" /\ answer[i] = NoAnswer /\ i \notin loop /\ ran[i] = 0
      /\ outcome[i] = NoOutcome /\ answer[i].type = "none"
  BY <1>1 DEF CallFits, WireFits, OutcomeFits
<1>7. WireFits(i)' /\ AnswerFits(i)'
  BY <1>3, <1>6 DEF WireFits, AnswerFits, In, Valid, Taken
<1>8. RunsFit(i)'
  BY <1>3, <1>6 DEF RunsFit, Once, In, Valid, Taken
<1>9. OutcomeFits(i)'
  BY <1>3, <1>6, <1>2 DEF OutcomeFits, NoOutcome, Returned
<1>. QED
  BY <1>1, <1>4, <1>5, <1>7, <1>8, <1>9, StepOfCall DEF CallFits

\* An answer has come, and the call returns what it makes of it.
LEMMA AnswerTells ==
  ASSUME BatchInv, NEW i \in Calls, Answered(i)
  PROVE  /\ wire[i] = "served" /\ call[i] = "waiting" /\ answer[i].type \in Answer
         /\ \A r : ~In({"mq_client"}) /\ Taken(answer[i]) => MayReturn(i, Succeeds(r))
         /\ ~Taken(answer[i]) /\ ~In({"mq", "mq_shared"}) => MayReturn(i, Returned(answer[i].type))
         /\ ~Taken(answer[i]) /\ In({"mq", "mq_shared"}) => MayReturn(i, Returned("failed"))
         /\ MayReturn(i, Returned("no id"))
<1>1. CallFits(i) /\ answer[i].type \in AnswerType
  BY CallFacts
<1>2. wire[i] = "served" /\ call[i] = "waiting" /\ answer[i].type \in Answer
  BY <1>1 DEF Answered, CallFits, WireFits, AnswerType, Answer
<1>3. ~In({"mq_client"}) => \/ ran[i] = Once(i)
                           \/ /\ In({"mq", "mq_shared"})
                              /\ batch.kind \in SyncKinds /\ answer[i] = Unpublished
  BY <1>1, <1>2 DEF CallFits, RunsFit, In
<1>4. ASSUME NEW r, ~In({"mq_client"}), Taken(answer[i])
      PROVE  MayReturn(i, Succeeds(r))
  <2>1. answer[i] # Unpublished
    BY <1>4 DEF Taken, Unpublished
  <2>2. ran[i] = 1
    BY <1>3, <1>4, <2>1 DEF Once
  <2>. QED
    BY <1>4, <2>2 DEF MayReturn, Succeeds
<1>5. ASSUME ~Taken(answer[i]), ~In({"mq", "mq_shared"})
      PROVE  MayReturn(i, Returned(answer[i].type))
  <2>1. answer[i].type = "refused" => ~Valid
    BY <1>1 DEF CallFits, AnswerFits
  <2>2. answer[i].type \in {"refused", "full", "unpublished"}
    BY <1>2, <1>5 DEF Answer, Taken
  <2>3. In({"mq_client"}) /\ answer[i].type # "unpublished" => ~Valid /\ ran[i] = 0
    BY <1>1, <2>1, <2>2 DEF CallFits, AnswerFits, RunsFit
  <2>4. answer[i].type # "unpublished" => ran[i] = 0
    BY <1>3, <1>5, <2>3 DEF Once
  <2>. QED
    BY <1>2, <1>5, <2>1, <2>2, <2>3, <2>4 DEF MayReturn, Returned
<1>6. ASSUME ~Taken(answer[i]), In({"mq", "mq_shared"})
      PROVE  MayReturn(i, Returned("failed"))
  <2>1. MayHaveRun(i)
    BY <1>3, <1>6 DEF MayHaveRun, Once, In
  <2>. QED
    BY <1>2, <2>1 DEF MayReturn, Returned
<1>7. MayReturn(i, Returned("no id"))
  BY DEF MayReturn, Returned
<1>. QED
  BY <1>2, <1>4, <1>5, <1>6, <1>7

LEMMA MqEndsStep ==
  ASSUME BatchInv, NEW i \in Calls, call[i] \in {"queued", "waiting"}, In({"mq"}), NEW o, MqEnds(i, o),
         MayReturn(i, o), UNCHANGED <<batch, wire, loop, answer, ran, silent, report>>
  PROVE  BatchInv'
BY EndStep, RaiseStep DEF MqEnds

LEMMA CallStep ==
  ASSUME BatchInv, NEW i \in Calls, CallGoesOn(i) \/ Breaks(i) \/ MqRaises(i)
  PROVE  BatchInv'
<1>1. /\ CallFits(i) /\ IsJson(batch.params)
      /\ call[i] = "queued" => wire[i] = "none" /\ answer[i] = NoAnswer /\ ran[i] = 0
  BY CallFacts DEF CallFits, WireFits, BatchIsSound, IsJson
<1>2. \A why \in {"timeout", "broken", "no id"} : MayReturn(i, Returned(why))
  BY DEF MayReturn, Returned
<1>3. /\ call[i] = "queued" /\ ~Valid => MayReturn(i, Returned("unknown"))
      /\ call[i] = "queued" /\ (~Valid \/ Excused) => MayReturn(i, Returned("refused"))
  BY <1>1 DEF MayReturn, Returned, NoAnswer, Taken, Excused, In, GrpcChannels
<1>4. CASE RestStarts(i)
  <2>1. /\ In({"rest", "rest_client"}) /\ MayStart(i) /\ call[i] = "queued"
        /\ UNCHANGED <<batch, loop, answer, ran, silent, report>>
    BY <1>4 DEF RestStarts, MayStart
  <2>2. CASE In({"rest"}) /\ batch.kind \notin Kinds
    <3>1. Ends(i, Returned("unknown")) /\ wire' = wire /\ ~Valid
      BY <1>4, <2>2 DEF RestStarts, Valid
    <3>. QED
      BY <1>3, <2>1, <3>1, EndStep
  <2>3. CASE ~(In({"rest"}) /\ batch.kind \notin Kinds)
    <3>1. Sends(i) /\ ~In({"mq", "mq_shared"})
      BY <1>4, <2>1, <2>3 DEF RestStarts, In
    <3>. QED
      BY <2>1, <2>3, <3>1, SendStep
  <2>. QED
    BY <2>2, <2>3
<1>5. CASE GrpcStarts(i)
  <2>1. /\ In(GrpcChannels) /\ MayStart(i) /\ call[i] = "queued"
        /\ UNCHANGED <<batch, loop, answer, ran, silent, report>>
    BY <1>5 DEF GrpcStarts, MayStart
  <2>2. ~In({"mq", "mq_shared"}) /\ ~In({"rest"})
    BY <2>1 DEF In, GrpcChannels
  <2>3. CASE GrpcBuilds(batch.kind, batch.params)
    BY <1>5, <2>1, <2>2, <2>3, SendStep DEF GrpcStarts
  <2>4. CASE ~GrpcBuilds(batch.kind, batch.params)
    <3>1. Ends(i, Returned("refused")) /\ wire' = wire
      BY <1>5, <2>4 DEF GrpcStarts
    <3>2. ~Valid \/ Excused
      BY <2>1, <2>4, BuildersRefuse DEF Valid, Excused, PointedFib
    <3>. QED
      BY <1>3, <2>1, <3>1, <3>2, EndStep
  <2>. QED
    BY <2>3, <2>4
<1>6. CASE PostStarts(i)
  <2>1. /\ MayStart(i) /\ Sends(i) /\ UNCHANGED <<batch, loop, answer, ran, silent, report>>
        /\ ~In({"mq", "mq_shared"}) /\ ~In({"rest"})
    BY <1>6 DEF PostStarts, In
  <2>. QED
    BY <2>1, SendStep
<1>7. CASE MqPublishes(i)
  <2>1. /\ MayStart(i) /\ Sends(i) /\ UNCHANGED <<batch, answer, ran, silent, report>>
        /\ In({"mq", "mq_shared"}) /\ ~In({"rest"}) /\ loop' = loop \cup {i}
    BY <1>7 DEF MqPublishes, In
  <2>. QED
    BY <2>1, SendStep
<1>8. CASE RestReturns(i) \/ RestClientReturns(i) \/ GrpcReturns(i) \/ GrpcSharedReturns(i)
           \/ PostReturns(i)
  <2>. DEFINE a == answer[i]
  <2>1. Answered(i) /\ UNCHANGED <<batch, wire, loop, answer, ran, silent, report>>
    BY <1>8 DEF RestReturns, RestClientReturns, GrpcReturns, GrpcSharedReturns, PostReturns
  <2>2. \/ In({"mq_client"}) /\ Ends(i, MqRecord(a))
        \/ /\ ~In({"mq_client"}) /\ ~In({"mq", "mq_shared"})
           /\ \/ Ends(i, RestReports(a)) \/ Ends(i, RestRecord(a))
              \/ Ends(i, GrpcReports(batch.kind, batch.params, a)) \/ Ends(i, GrpcSharedReports(batch.kind, a))
    BY <1>8 DEF RestReturns, RestClientReturns, GrpcReturns, GrpcSharedReturns, PostReturns, In
  <2>3. ~In({"mq", "mq_shared"})
    BY <2>2 DEF In
  <2>4. \E o : Ends(i, o) /\ \/ o = Returned("no id")
                             \/ ~Taken(a) /\ o = Returned(a.type)
                             \/ ~In({"mq_client"}) /\ Taken(a) /\ \E r : o = Succeeds(r)
    BY <2>2 DEF MqRecord, RestReports, RestRecord, GrpcReports, GrpcSharedReports, GrpcAsyncRecord
  <2>. QED
    BY <2>1, <2>3, <2>4, AnswerTells, EndStep
<1>9. CASE MqReturns(i)
  <2>. DEFINE a == answer[i]
  <2>1. /\ Answered(i) /\ In({"mq"}) /\ MqEnds(i, MqReports(a))
        /\ UNCHANGED <<batch, wire, loop, answer, ran, silent, report>>
    BY <1>9 DEF MqReturns
  <2>2. ~In({"mq_client"}) /\ In({"mq", "mq_shared"})
    BY <2>1 DEF In
  <2>3. MayReturn(i, MqReports(a))
    BY <2>1, <2>2, AnswerTells DEF MqReports
  <2>. QED
    BY <2>1, <2>3, AnswerTells, MqEndsStep
<1>10. CASE RestTimesOut(i) \/ Breaks(i)
  <2>1. \E why \in {"timeout", "broken"} : Ends(i, Returned(why))
    BY <1>10 DEF RestTimesOut, Breaks
  <2>2. /\ call[i] = "waiting" /\ UNCHANGED <<batch, loop, answer, ran, silent, report>>
        /\ \/ wire' = wire
           \/ wire[i] = "request" /\ wire' = [wire EXCEPT ![i] = "lost"] /\ ~In({"mq", "mq_shared"})
    BY <1>10 DEF RestTimesOut, Breaks
  <2>3. \A why \in {"timeout", "broken"} : Returned(why).reason \notin {"refused", "full", "unknown"}
    BY DEF Returned
  <2>. QED
    BY <1>2, <2>1, <2>2, <2>3, EndStep
<1>11. CASE MqTimesOut(i) \/ MqRaises(i)
  <2>1. /\ \E why \in {"timeout", "broken"} : MqEnds(i, Returned(why))
        /\ call[i] \in {"queued", "waiting"} /\ In({"mq"})
        /\ UNCHANGED <<batch, wire, loop, answer, ran, silent, report>>
    BY <1>11 DEF MqTimesOut, MqRaises, MayStart
  <2>. QED
    BY <1>2, <2>1, MqEndsStep
<1>. QED
  BY <1>4, <1>5, <1>6, <1>7, <1>8, <1>9, <1>10, <1>11 DEF CallGoesOn

-----------------------------------------------------------------------------
(* The server serves a request *)

\* An answer that the channel may give.
MayAnswer(a) ==
  /\ a.type \in Answer
  /\ a.type = "refused" => ~Valid
  /\ Taken(a) => \/ Valid \/ In(GrpcChannels)
                 \/ In({"rest_client"}) /\ batch.kind \notin Kinds
  /\ In({"mq_client"}) => a.type # "full"

\* The request is run here, and not in the loop any more.
LEMMA ServeStep ==
  ASSUME BatchInv, NEW i \in Calls, NEW a, Answers(i, a), Runs(i, a), MayAnswer(a),
         \/ wire[i] = "request" /\ ~In({"mq", "mq_shared", "mq_client"}) /\ loop' = loop
         \/ wire[i] = "published" /\ In({"mq_client"}) /\ loop' = loop
  PROVE  BatchInv'
<1>1. CallFits(i) /\ CallTypes /\ ran[i] \in 0..2
  BY CallFacts
<1>2. /\ wire' = [wire EXCEPT ![i] = "served"] /\ answer' = [answer EXCEPT ![i] = a]
      /\ ran' = [ran EXCEPT ![i] = ran[i] + IF Taken(a) THEN 1 ELSE 0]
      /\ UNCHANGED <<batch, call, outcome, silent, report>>
  BY DEF Answers, Runs
<1>3. /\ wire'[i] = "served" /\ answer'[i] = a /\ ran'[i] = ran[i] + Once(i)' /\ Calls' = Calls
      /\ call'[i] = call[i] /\ outcome'[i] = outcome[i] /\ (i \in loop' <=> i \in loop)
  BY <1>1, <1>2 DEF CallTypes, Calls, Once
<1>4. /\ answer[i] = NoAnswer /\ ~Taken(answer[i]) /\ Once(i) = 0
      /\ ran[i] \in 0..1
      /\ ~In({"mq_client"}) => ran[i] = 0 /\ i \notin loop
      /\ In({"mq_client"}) /\ i \in loop => ran[i] = 0
      /\ ~Valid /\ In({"mq_client"}) => ran[i] = 0
  BY <1>1 DEF CallFits, WireFits, RunsFit, Once, NoAnswer, Taken, In
<1>5. Once(i)' \in 0..1 /\ (~Valid /\ In({"mq_client"}) => Once(i)' = 0)
  BY <1>3 DEF Once, MayAnswer, In, GrpcChannels
<1>6. CallTypes'
  <2>1. ran' \in [Calls -> 0..2]
    <3>1. ran'[i] \in 0..2
      BY <1>3, <1>4, <1>5
    <3>2. ran' = [ran EXCEPT ![i] = ran'[i]]
      BY <1>1, <1>2 DEF CallTypes
    <3>. QED
      BY <1>1, <1>3, <3>1, <3>2 DEF CallTypes
  <2>2. a.type \in AnswerType
    BY DEF MayAnswer, Answer, AnswerType
  <2>3. wire' \in [Calls -> {"none", "request", "published", "served", "lost"}]
    BY <1>1, <1>2 DEF CallTypes
  <2>4. loop' \subseteq Calls
    BY <1>1 DEF CallTypes
  <2>5. DOMAIN answer' = Calls /\ \A k \in Calls : answer'[k].type \in AnswerType
    BY <1>1, <1>2, <2>2 DEF CallTypes
  <2>. QED
    BY <1>1, <1>2, <1>3, <2>1, <2>3, <2>4, <2>5 DEF CallTypes
<1>7. \A k \in Calls : k # i => Same(k)
  BY <1>1, <1>2 DEF CallTypes, Same
<1>8. WireFits(i)' /\ AnswerFits(i)'
  <2>1. a.type # "none"
    BY DEF MayAnswer, Answer
  <2>2. call[i] # "queued" /\ ~(In({"rest"}) /\ batch.kind \notin Kinds)
    BY <1>1 DEF CallFits, WireFits
  <2>. QED
    BY <1>2, <1>3, <2>1, <2>2 DEF WireFits, AnswerFits, MayAnswer, In, Valid
<1>9. RunsFit(i)'
  <2>1. CASE ~In({"mq", "mq_shared", "mq_client"})
    <3>1. ran'[i] = Once(i)' /\ i \notin loop'
      BY <1>3, <1>4, <1>5, <2>1 DEF In
    <3>. QED
      BY <1>2, <1>3, <2>1, <3>1 DEF RunsFit, In
  <2>2. CASE In({"mq_client"})
    <3>1. /\ ran'[i] \in Once(i)'..(Once(i)' + 1)
          /\ i \in loop' => ran'[i] = Once(i)'
          /\ ~Valid => ran'[i] = 0
      BY <1>3, <1>4, <1>5, <2>2
    <3>. QED
      BY <1>2, <1>3, <2>2, <3>1 DEF RunsFit, In, Valid
  <2>. QED
    BY <2>1, <2>2 DEF In
<1>10. OutcomeFits(i)'
  <2>1. ~outcome[i].success /\ outcome[i].reason \notin {"refused", "full", "unknown"}
    BY <1>1, <1>4 DEF CallFits, OutcomeFits
  <2>. QED
    BY <1>1, <1>2, <1>3, <2>1 DEF CallFits, OutcomeFits, In, Valid, Excused, PointedFib, MayHaveRun
<1>. QED
  BY <1>1, <1>2, <1>6, <1>7, <1>8, <1>9, <1>10, StepOfCall DEF CallFits

LEMMA HttpStep ==
  ASSUME BatchInv, NEW i \in Calls, HttpServes(i) \/ PostIsServed(i)
  PROVE  BatchInv'
<1>1. CallFits(i) /\ IsJson(batch.params) /\ BatchIsSound
  BY CallFacts DEF BatchIsSound, IsJson
<1>2. CASE HttpServes(i)
  <2>. DEFINE a(full) == IF In(GrpcChannels)
                         THEN GrpcServes(batch.kind, GrpcRequest(batch.kind, batch.params), full)
                         ELSE RestServes(RestRoute(batch.kind), batch.params, full)
  <2>1. PICK full \in BOOLEAN : Answers(i, a(full)) /\ Runs(i, a(full))
    BY <1>2 DEF HttpServes
  <2>2. /\ In({"rest", "rest_client"} \cup GrpcChannels) /\ wire[i] = "request" /\ loop' = loop
        /\ ~In({"mq", "mq_shared", "mq_client"})
    BY <1>2 DEF HttpServes, In, GrpcChannels
  <2>3. MayAnswer(a(full))
    <3>1. CASE In(GrpcChannels)
      <4>1. a(full) = GrpcServes(batch.kind, GrpcRequest(batch.kind, batch.params), full)
        BY <3>1
      <4>2. /\ a(full).type \in Answer
            /\ a(full).type = "refused" => ~Validates(batch.kind, batch.params)
        BY <1>1, <4>1, GrpcAnswers
      <4>. HIDE DEF a
      <4>. QED
        BY <2>2, <3>1, <4>2 DEF MayAnswer, Valid, In
    <3>2. CASE ~In(GrpcChannels)
      <4>. DEFINE k == RestRoute(batch.kind)
      <4>1. a(full) = RestServes(k, batch.params, full)
        BY <3>2
      <4>2. /\ a(full).type \in Answer
            /\ a(full).type = "refused" => ~Validates(k, batch.params)
            /\ Taken(a(full)) => Validates(k, batch.params)
        BY <4>1, RestAnswers
      <4>3. batch.kind \in Kinds => k = batch.kind
        BY DEF RestRoute
      <4>4. batch.kind \notin Kinds => In({"rest_client"})
        BY <1>1, <2>2, <3>2 DEF CallFits, WireFits, In, GrpcChannels
      <4>. HIDE DEF a, k
      <4>. QED
        BY <2>2, <4>2, <4>3, <4>4 DEF MayAnswer, Valid, In
    <3>. QED
      BY <3>1, <3>2
  <2>. HIDE DEF a
  <2>. QED
    BY <2>1, <2>2, <2>3, ServeStep
<1>3. CASE PostIsServed(i)
  <2>. DEFINE a == PostServes(batch.kind, batch.params)
  <2>1. /\ Answers(i, a) /\ Runs(i, a) /\ In({"mq_client"}) /\ wire[i] = "published" /\ loop' = loop
    BY <1>3 DEF PostIsServed
  <2>2. batch.kind \notin {"hash", "fib"}
    BY <1>1, <2>1 DEF BatchIsSound
  <2>3. MayAnswer(a)
    BY <2>2, PostAnswers DEF MayAnswer, Answer, Valid
  <2>. HIDE DEF a
  <2>. QED
    BY <2>1, <2>3, ServeStep
<1>. QED
  BY <1>2, <1>3

LEMMA PublishStep ==
  ASSUME BatchInv, NEW i \in Calls, PostIsPublished(i)
  PROVE  BatchInv'
<1>1. CallFits(i) /\ CallTypes
  BY CallFacts
<1>2. /\ wire[i] = "request" /\ In({"mq_client"}) /\ wire' = [wire EXCEPT ![i] = "published"]
      /\ loop' = loop \cup {i} /\ UNCHANGED <<batch, call, answer, outcome, ran, silent, report>>
  BY DEF PostIsPublished
<1>3. wire'[i] = "published" /\ Calls' = Calls
  BY <1>1, <1>2 DEF CallTypes, Calls
<1>4. CallTypes'
  BY <1>1, <1>2, <1>3 DEF CallTypes
<1>5. \A k \in Calls : k # i => Same(k)
  BY <1>1, <1>2 DEF CallTypes, Same
<1>6. /\ answer[i] = NoAnswer /\ answer[i].type = "none" /\ ran[i] = 0 /\ Once(i) = 0
  BY <1>1, <1>2 DEF CallFits, WireFits, RunsFit, NoAnswer, Once, Taken
<1>7. WireFits(i)' /\ AnswerFits(i)'
  BY <1>1, <1>2, <1>3, <1>6 DEF CallFits, WireFits, AnswerFits, In, Valid
<1>8. RunsFit(i)'
  BY <1>2, <1>3, <1>6 DEF RunsFit, Once, In, Valid
<1>9. OutcomeFits(i)'
  <2>1. outcome[i].reason \in {"refused", "full", "unknown"} => FALSE
    BY <1>1, <1>2 DEF CallFits, OutcomeFits
  <2>. QED
    BY <1>1, <1>2, <2>1 DEF CallFits, OutcomeFits, In, Valid, Excused, PointedFib, MayHaveRun
<1>. QED
  BY <1>2, <1>4, <1>5, <1>7, <1>8, <1>9, StepOfCall DEF CallFits

\* What the worker loop publishes of its answer a.
Instead(a, said) ==
  said = a \/ (said = Unpublished /\ (~Taken(a) \/ batch.kind \in SyncKinds))

\* The worker loop takes request i, and may run it.
LEMMA LoopStep ==
  ASSUME BatchInv, NEW i \in Calls, LoopRuns(i) \/ LoopMisses(i)
  PROVE  BatchInv'
<1>1. CallFits(i) /\ CallTypes /\ ran[i] \in 0..2
  BY CallFacts
<1>2. /\ i \in loop /\ loop' = loop \ {i}
      /\ UNCHANGED <<batch, call, outcome, silent, report>> /\ Calls' = Calls
  BY DEF LoopRuns, LoopMisses, Calls
<1>3. /\ In({"mq", "mq_shared", "mq_client"})
      /\ ~In({"mq_client"}) => wire[i] = "request" /\ ran[i] = 0 /\ answer[i] = NoAnswer
      /\ In({"mq_client"}) => wire[i] \in {"published", "served"} /\ ran[i] = Once(i)
      /\ In({"mq_client"}) /\ ~Valid => ran[i] = 0
  BY <1>1, <1>2 DEF CallFits, WireFits, RunsFit, In
<1>4. CASE wire' = wire /\ answer' = answer /\ \E n \in 0..1 : ran' = [ran EXCEPT ![i] = @ + n] /\ (n = 1 => Valid)
  <2>1. PICK n \in 0..1 : ran' = [ran EXCEPT ![i] = @ + n] /\ (n = 1 => Valid)
    BY <1>4
  <2>2. /\ ran'[i] = ran[i] + n /\ i \notin loop' /\ Once(i) \in 0..1
    BY <1>1, <1>2, <2>1 DEF CallTypes, Once
  <2>3. CallTypes'
    <3>1. ran'[i] \in 0..2
      BY <1>3, <2>2 DEF In
    <3>2. ran' \in [Calls -> 0..2]
      BY <1>1, <2>1, <3>1 DEF CallTypes
    <3>. QED
      BY <1>1, <1>2, <1>4, <3>2 DEF CallTypes
  <2>4. \A k \in Calls : k # i => Same(k)
    BY <1>1, <1>2, <1>4, <2>1 DEF CallTypes, Same
  <2>5. WireFits(i)' /\ AnswerFits(i)'
    BY <1>1, <1>2, <1>3, <1>4, <2>2 DEF CallFits, WireFits, AnswerFits, In, Valid
  <2>6. RunsFit(i)'
    BY <1>1, <1>2, <1>3, <1>4, <2>1, <2>2 DEF CallFits, RunsFit, Once, In, Valid
  <2>7. OutcomeFits(i)'
    <3>1. /\ outcome[i].success => ran'[i] >= 1
          /\ outcome[i].reason \in {"refused", "full", "unknown"} => ran'[i] = 0
      BY <1>1, <1>2, <1>3, <2>1, <2>2 DEF CallFits, OutcomeFits, In
    <3>2. outcome[i].reason # "failed"
      BY <1>1, <1>3 DEF CallFits, OutcomeFits, MayHaveRun, In
    <3>. QED
      BY <1>1, <1>2, <1>4, <3>1, <3>2 DEF CallFits, OutcomeFits, In, Valid, Excused, PointedFib
  <2>. QED
    BY <1>2, <2>3, <2>4, <2>5, <2>6, <2>7, StepOfCall DEF CallFits
<1>5. CASE /\ ~In({"mq_client"}) /\ wire' = [wire EXCEPT ![i] = "served"]
           /\ \E a, said :
                /\ MayAnswer(said) /\ Runs(i, a) /\ answer' = [answer EXCEPT ![i] = said]
                /\ Instead(a, said)
  <2>1. PICK a, said :
          /\ MayAnswer(said) /\ Runs(i, a) /\ answer' = [answer EXCEPT ![i] = said]
          /\ Instead(a, said)
    BY <1>5
  <2>2. /\ wire'[i] = "served" /\ answer'[i] = said /\ i \notin loop'
        /\ ran' = [ran EXCEPT ![i] = IF Taken(a) THEN 1 ELSE 0]
    <3>1. ran' = [ran EXCEPT ![i] = IF Taken(a) THEN 1 ELSE 0]
      <4>1. ran' = [ran EXCEPT ![i] = ran[i] + IF Taken(a) THEN 1 ELSE 0] /\ ran[i] = 0
        BY <1>3, <1>5, <2>1 DEF Runs
      <4>2. ran[i] + (IF Taken(a) THEN 1 ELSE 0) = IF Taken(a) THEN 1 ELSE 0
        BY <4>1
      <4>. QED
        BY <4>1, <4>2
    <3>2. wire'[i] = "served" /\ answer'[i] = said
      BY <1>1, <1>5, <2>1 DEF CallTypes
    <3>. QED
      BY <1>2, <3>1, <3>2
  <2>3. /\ ran'[i] \in 0..1
        /\ ran'[i] = Once(i)' \/ (batch.kind \in SyncKinds /\ answer'[i] = Unpublished)
    <3>1. ran'[i] = IF Taken(a) THEN 1 ELSE 0
      BY <1>1, <2>2 DEF CallTypes
    <3>2. CASE said = a
      BY <2>2, <3>1, <3>2 DEF Once
    <3>3. CASE said = Unpublished /\ (~Taken(a) \/ batch.kind \in SyncKinds)
      <4>1. ~Taken(said)
        BY <3>3 DEF Unpublished, Taken
      <4>. QED
        BY <2>2, <3>1, <3>3, <4>1 DEF Once
    <3>. QED
      BY <2>1, <3>1, <3>2, <3>3 DEF Instead
  <2>4. CallTypes'
    <3>1. said.type \in AnswerType
      BY <2>1 DEF MayAnswer, Answer, AnswerType
    <3>2. /\ ran' \in [Calls -> 0..2]
          /\ wire' \in [Calls -> {"none", "request", "published", "served", "lost"}]
      BY <1>1, <1>5, <2>2 DEF CallTypes
    <3>3. DOMAIN answer' = Calls /\ \A k \in Calls : answer'[k].type \in AnswerType
      BY <1>1, <2>1, <3>1 DEF CallTypes
    <3>. QED
      BY <1>1, <1>2, <3>2, <3>3 DEF CallTypes
  <2>5. \A k \in Calls : k # i => Same(k)
    BY <1>1, <1>2, <1>5, <2>1, <2>2 DEF CallTypes, Same
  <2>6. WireFits(i)' /\ AnswerFits(i)'
    <3>1. said.type # "none" /\ call[i] # "queued" /\ ~(In({"rest"}) /\ batch.kind \notin Kinds)
      BY <1>1, <1>3, <1>5, <2>1 DEF MayAnswer, Answer, CallFits, WireFits, In
    <3>. QED
      BY <1>2, <2>1, <2>2, <3>1 DEF WireFits, AnswerFits, MayAnswer, In, Valid
  <2>7. RunsFit(i)'
    BY <1>2, <1>3, <1>5, <2>2, <2>3 DEF RunsFit, In
  <2>8. OutcomeFits(i)'
    <3>1. ~outcome[i].success /\ outcome[i].reason \notin {"refused", "full", "unknown", "failed"}
      BY <1>1, <1>3, <1>5 DEF CallFits, OutcomeFits
    <3>. QED
      BY <1>1, <1>2, <2>2, <3>1 DEF CallFits, OutcomeFits, In, Valid, Excused, PointedFib
  <2>. QED
    BY <1>2, <2>4, <2>5, <2>6, <2>7, <2>8, StepOfCall DEF CallFits
<1>6. CASE LoopMisses(i)
  <2>1. wire' = wire /\ answer' = answer /\ ran' = [ran EXCEPT ![i] = @ + 0]
    BY <1>1, <1>6 DEF LoopMisses, CallTypes
  <2>. QED
    BY <1>4, <2>1
<1>7. CASE LoopRuns(i)
  <2>. DEFINE a(full) == LoopServes(batch.kind, batch.params, full)
  <2>1. PICK full \in BOOLEAN, lost \in BOOLEAN :
          /\ Runs(i, a(full))
          /\ IF lost \/ In({"mq_client"}) THEN UNCHANGED <<wire, answer>>
             ELSE /\ wire' = [wire EXCEPT ![i] = "served"]
                  /\ \E said \in LoopPublishes(batch.kind, a(full)) :
                       answer' = [answer EXCEPT ![i] = said]
    BY <1>7 DEF LoopRuns
  <2>2. /\ a(full).type \in Answer
        /\ a(full).type = "refused" => ~Valid
        /\ Taken(a(full)) => Valid
    BY LoopAnswers DEF Valid
  <2>. HIDE DEF a
  <2>3. CASE lost \/ In({"mq_client"})
    <3>. DEFINE n == IF Taken(a(full)) THEN 1 ELSE 0
    <3>1. ran' = [ran EXCEPT ![i] = @ + n] /\ n \in 0..1 /\ (n = 1 => Valid)
      BY <2>1, <2>2 DEF Runs
    <3>. HIDE DEF n
    <3>. QED
      BY <1>4, <2>1, <2>3, <3>1
  <2>4. CASE ~(lost \/ In({"mq_client"}))
    <3>1. PICK said \in LoopPublishes(batch.kind, a(full)) : answer' = [answer EXCEPT ![i] = said]
      BY <2>1, <2>4
    <3>2. Instead(a(full), said)
      BY <3>1 DEF LoopPublishes, Instead, Taken
    <3>3. MayAnswer(said)
      <4>1. MayAnswer(a(full))
        BY <2>2, <2>4 DEF MayAnswer
      <4>2. MayAnswer(Unpublished)
        BY <2>4 DEF MayAnswer, Answer, Unpublished, Taken
      <4>. QED
        BY <3>2, <4>1, <4>2 DEF Instead
    <3>. QED
      BY <1>5, <2>1, <2>4, <3>1, <3>2, <3>3
  <2>. QED
    BY <2>3, <2>4
<1>. QED
  BY <1>6, <1>7

-----------------------------------------------------------------------------
(* The batch ends *)

LEMMA CountsOfCalls ==
  ASSUME BatchInv, NEW S, S \subseteq Calls
  PROVE  Cardinality(S) \in Nat /\ batch.count \in Nat
<1>1. batch.count \in Nat
  BY UiBatchAssumption DEF BatchInv, BatchIsSound
<1>2. IsFiniteSet(Calls)
  BY <1>1, FS_Interval DEF Calls
<1>3. IsFiniteSet(S)
  BY <1>2, FS_Subset
<1>. QED
  BY <1>1, <1>3, FS_CardinalityType

LEMMA HangsStep == BatchInv /\ Hangs => BatchInv'
<1>. SUFFICES ASSUME BatchInv, Hangs
              PROVE  BatchInv'
  OBVIOUS
<1>1. /\ UNCHANGED <<batch, call, wire, loop, answer, outcome, ran, report>> /\ silent' = TRUE
      /\ Calls' = Calls
  BY DEF Hangs, Calls
<1>2. BatchIsSound' /\ CallTypes'
  BY <1>1 DEF BatchInv, BatchIsSound, CallTypes, In
<1>3. Reported'
  BY <1>1 DEF BatchInv, Reported, BatchAddsUp, Finished, Successes, In
<1>4. \A i \in Calls : CallFits(i)'
  BY <1>1, SameFits DEF BatchInv, Same
<1>. QED
  BY <1>1, <1>2, <1>3, <1>4 DEF BatchInv

\* The calls are over, and the browser is answered.
LEMMA PoolEnds ==
  ASSUME BatchInv, BatchEnds \/ BatchRaises
  PROVE  BatchInv'
<1>1. /\ UNCHANGED <<batch, call, wire, loop, answer, outcome, ran, silent>>
      /\ Calls' = Calls /\ Finished /\ Finished' /\ Successes' = Successes
  BY DEF BatchEnds, BatchRaises, Calls, Finished, Successes
<1>2. BatchIsSound' /\ CallTypes'
  BY <1>1 DEF BatchInv, BatchIsSound, CallTypes, In
<1>3. Reported'
  <2>1. CASE BatchEnds
    <3>1. /\ report' = [status |-> 200, success |-> Cardinality(Successes),
                        failure |-> batch.count - Cardinality(Successes)]
          /\ \A i \in Calls : call[i] = "returned"
      BY <2>1 DEF BatchEnds, Reports
    <3>2. Cardinality(Successes) \in Nat /\ batch.count \in Nat
      BY CountsOfCalls DEF Successes
    <3>. QED
      BY <1>1, <3>1, <3>2 DEF Reported, BatchAddsUp
  <2>2. CASE BatchRaises
    <3>1. /\ report' = [status |-> 500, success |-> 0, failure |-> 1]
          /\ \E i \in Calls : call[i] = "raised"
          /\ In({"mq"})
      BY <2>2 DEF BatchRaises, Reports
    <3>. QED
      BY <1>1, <3>1 DEF Reported, BatchAddsUp, In
  <2>. QED
    BY <2>1, <2>2
<1>4. \A i \in Calls : CallFits(i)'
  BY <1>1, SameFits DEF BatchInv, Same
<1>. QED
  BY <1>1, <1>2, <1>3, <1>4 DEF BatchInv

\* The shared connection closes: what has no answer timed out.
LEMMA SharedEndStep ==
  ASSUME BatchInv, SharedEnds
  PROVE  BatchInv'
<1>. DEFINE o(i) == IF answer[i] = NoAnswer THEN Returned("timeout") ELSE MqReports(answer[i])
<1>1. /\ In({"mq_shared"}) /\ \A i \in Calls : call[i] = "waiting"
      /\ call' = [i \in Calls |-> "returned"] /\ outcome' = [i \in Calls |-> o(i)]
      /\ UNCHANGED <<batch, wire, loop, answer, ran, silent>> /\ Calls' = Calls
  BY DEF SharedEnds, Calls
<1>2. ~In({"mq_client"})
  BY <1>1 DEF In
<1>3. ASSUME NEW i \in Calls
      PROVE  MayReturn(i, o(i))
  <2>1. CASE answer[i] = NoAnswer
    BY <2>1 DEF MayReturn, Returned
  <2>2. CASE answer[i] # NoAnswer
    <3>1. Answered(i)
      BY <1>1, <2>2 DEF Answered
    <3>2. o(i) = MqReports(answer[i]) /\ In({"mq", "mq_shared"})
      BY <1>1, <2>2 DEF In
    <3>3. MayReturn(i, MqReports(answer[i]))
      BY <1>2, <3>1, <3>2, AnswerTells DEF MqReports
    <3>. QED
      BY <3>2, <3>3
  <2>. QED
    BY <2>1, <2>2
<1>4. \A i \in Calls : o(i).success \in BOOLEAN
  BY <1>3 DEF MayReturn
<1>5. /\ Reports(200, Cardinality(Successes'), batch.count - Cardinality(Successes'))
  <2>1. Successes' = {i \in Calls : outcome'[i].success}
    BY <1>1 DEF Successes
  <2>. QED
    BY <2>1 DEF SharedEnds
<1>. HIDE DEF o
<1>6. BatchIsSound'
  BY <1>1 DEF BatchInv, BatchIsSound, In
<1>7. CallTypes'
  BY <1>1, <1>4 DEF BatchInv, CallTypes
<1>8. Reported'
  <2>1. Cardinality(Successes') \in Nat /\ batch.count \in Nat
    BY <1>1, CountsOfCalls DEF Successes
  <2>2. \A i \in Calls' : call'[i] = "returned"
    BY <1>1
  <2>3. report'.status = 200 /\ report'.success = Cardinality(Successes')
        /\ report'.failure = batch.count - Cardinality(Successes')
    BY <1>5 DEF Reports
  <2>4. Finished'
    BY <2>2 DEF Finished
  <2>. QED
    BY <1>1, <2>1, <2>2, <2>3, <2>4 DEF Reported, BatchAddsUp
<1>9. ASSUME NEW i \in Calls
      PROVE  CallFits(i)'
  <2>1. CallFits(i) /\ call'[i] = "returned" /\ outcome'[i] = o(i) /\ MayReturn(i, o(i))
    BY <1>1, <1>3, CallFacts
  <2>2. WireFits(i)' /\ RunsFit(i)' /\ AnswerFits(i)'
    BY <1>1, <2>1 DEF CallFits, WireFits, RunsFit, AnswerFits, Once, In, Valid
  <2>3. OutcomeFits(i)'
    BY <1>1, <2>1 DEF MayReturn, OutcomeFits, In, Valid, Excused, PointedFib, MayHaveRun
  <2>. QED
    BY <2>2, <2>3 DEF CallFits
<1>. QED
  BY <1>1, <1>6, <1>7, <1>8, <1>9 DEF BatchInv

\* Redis raises while the shared batch publishes: no call returns.
LEMMA SharedRaiseStep ==
  ASSUME BatchInv, SharedRaises
  PROVE  BatchInv'
<1>1. /\ In({"mq_shared"}) /\ report = NoReport /\ call' = [i \in Calls |-> "raised"]
      /\ report' = [status |-> 200, success |-> 0, failure |-> 1]
      /\ UNCHANGED <<batch, wire, loop, answer, outcome, ran, silent>> /\ Calls' = Calls
      /\ \E i \in Calls : call[i] = "queued"
  BY DEF SharedRaises, Reports, Calls
<1>2. BatchIsSound' /\ CallTypes'
  BY <1>1 DEF BatchInv, BatchIsSound, CallTypes, In
<1>3. Reported'
  BY <1>1 DEF Reported, BatchAddsUp, Finished, In
<1>4. ASSUME NEW i \in Calls
      PROVE  CallFits(i)'
  <2>1. CallFits(i) /\ call'[i] = "raised"
    BY <1>1, CallFacts
  <2>2. WireFits(i)' /\ RunsFit(i)' /\ AnswerFits(i)'
    BY <1>1, <2>1 DEF CallFits, WireFits, RunsFit, AnswerFits, Once, In, Valid
  <2>3. OutcomeFits(i)'
    BY <1>1, <2>1 DEF CallFits, OutcomeFits, In, Valid, Excused, PointedFib, MayHaveRun
  <2>. QED
    BY <2>2, <2>3 DEF CallFits
<1>. QED
  BY <1>1, <1>2, <1>3, <1>4 DEF BatchInv

-----------------------------------------------------------------------------
(* What is answered and reported is right *)

\* The result r is none, or what the job should give for what is meant.
IsRight(r) == Valid /\ r # NoResult => Right(batch.kind, Meant, r)

\* So is every answer, and every outcome, which repeats an answer.
ResultsFit == \A i \in Calls : IsRight(answer[i].result) /\ IsRight(outcome[i].result)

LEMMA ResultsFitInit == Init => ResultsFit
<1>. SUFFICES ASSUME Init, NEW i \in Calls
              PROVE  IsRight(answer[i].result) /\ IsRight(outcome[i].result)
  BY DEF ResultsFit
<1>1. answer[i] = NoAnswer /\ outcome[i] = NoOutcome
  BY DEF Init, Calls
<1>. QED
  BY <1>1 DEF NoAnswer, NoOutcome, Returned, IsRight

LEMMA NoneIsRight ==
  /\ IsRight(NoResult)
  /\ \A why : IsRight(Returned(why).result)
BY DEF IsRight, Returned

\* Over REST, over gRPC and by the handler of POST /jobs.
LEMMA HttpAnswersAreRight ==
  ASSUME BatchInv, NEW full \in BOOLEAN
  PROVE  /\ ~In(GrpcChannels) =>
              /\ IsRight(RestServes(RestRoute(batch.kind), batch.params, full).result)
              /\ IsRight(LoopServes(batch.kind, batch.params, full).result)
              /\ IsRight(PostServes(batch.kind, batch.params).result)
         /\ In(GrpcChannels) =>
              IsRight(GrpcServes(batch.kind, GrpcRequest(batch.kind, batch.params), full).result)
<1>1. IsJson(batch.params)
  BY DEF BatchInv, BatchIsSound
<1>2. ASSUME ~In(GrpcChannels), Valid,
             NEW r \in {RestServes(RestRoute(batch.kind), batch.params, full).result,
                        LoopServes(batch.kind, batch.params, full).result,
                        PostServes(batch.kind, batch.params).result}, r # NoResult
      PROVE  Right(batch.kind, Meant, r)
  <2>1. Meant = Validated(batch.kind, batch.params)
    BY <1>2 DEF Meant
  <2>. QED
    BY <1>1, <1>2, <2>1, ServersAreRight DEF Valid
<1>3. ASSUME In(GrpcChannels), Valid,
             GrpcServes(batch.kind, GrpcRequest(batch.kind, batch.params), full).result # NoResult
      PROVE  Right(batch.kind, Meant, GrpcServes(batch.kind, GrpcRequest(batch.kind, batch.params), full).result)
  <2>1. Meant = IF batch.kind = "echo" THEN Stringified(batch.params)
                ELSE Validated(batch.kind, batch.params)
    BY <1>3 DEF Meant
  <2>. QED
    BY <1>1, <1>3, <2>1, ServicerIsRight DEF Valid
<1>. QED
  BY <1>2, <1>3 DEF IsRight

\* What the clients make of a right answer is right.
LEMMA ReportsAreRight ==
  ASSUME NEW a, IsRight(a.result)
  PROVE  /\ IsRight(RestReports(a).result) /\ IsRight(RestRecord(a).result)
         /\ IsRight(GrpcReports(batch.kind, batch.params, a).result)
         /\ IsRight(GrpcSharedReports(batch.kind, a).result)
         /\ IsRight(MqReports(a).result) /\ IsRight(MqRecord(a).result)
<1>1. /\ \A r : Succeeds(r).result = r
      /\ \A why : Returned(why).result = NoResult
  BY DEF Succeeds, Returned
<1>2. IsRight(NoResult)
  BY NoneIsRight
<1>3. IsRight(RestReports(a).result) /\ IsRight(MqReports(a).result)
  BY <1>1, <1>2 DEF RestReports, MqReports
<1>4. IsRight(RestRecord(a).result) /\ IsRight(MqRecord(a).result)
  BY <1>1, <1>2 DEF RestRecord, MqRecord
<1>5. IsRight(GrpcSharedReports(batch.kind, a).result)
  BY <1>1, <1>2 DEF GrpcSharedReports, GrpcAsyncRecord
<1>6. IsRight(GrpcReports(batch.kind, batch.params, a).result)
  <2>1. batch.kind \notin Kinds => \A r : IsRight(r)
    BY DEF IsRight, Valid
  <2>2. batch.kind \in Kinds => IsRight(GrpcReports(batch.kind, batch.params, a).result)
    BY <1>1, <1>2 DEF GrpcReports
  <2>. QED
    BY <2>1, <2>2
<1>. QED
  BY <1>3, <1>4, <1>5, <1>6

\* A step that changes one answer and one outcome at most, to right ones.
LEMMA OneResult ==
  ASSUME CallTypes, ResultsFit, NEW i \in Calls, batch' = batch,
         \/ answer' = answer
         \/ \E a : answer' = [answer EXCEPT ![i] = a] /\ IsRight(a.result),
         \/ outcome' = outcome
         \/ \E o : outcome' = [outcome EXCEPT ![i] = o] /\ IsRight(o.result)
  PROVE  ResultsFit'
<1>1. Calls' = Calls /\ \A r : IsRight(r) => IsRight(r)'
  BY DEF Calls, IsRight, Valid, Meant, In
<1>. QED
  BY <1>1 DEF CallTypes, ResultsFit

LEMMA CallKeepsRight ==
  ASSUME BatchInv, ResultsFit, NEW i \in Calls, CallGoesOn(i) \/ Breaks(i) \/ MqRaises(i)
  PROVE  ResultsFit'
<1>1. CallTypes /\ IsRight(answer[i].result)
  BY DEF BatchInv, ResultsFit
<1>2. batch' = batch /\ answer' = answer
  BY DEF CallGoesOn, RestStarts, GrpcStarts, PostStarts, MqPublishes, RestReturns,
         RestClientReturns, GrpcReturns, GrpcSharedReturns, MqReturns, PostReturns,
         RestTimesOut, MqTimesOut, Breaks, MqRaises
<1>3. outcome' = outcome \/ \E o : outcome' = [outcome EXCEPT ![i] = o] /\ IsRight(o.result)
  <2>1. CASE RestStarts(i) \/ GrpcStarts(i) \/ PostStarts(i) \/ MqPublishes(i)
    BY <2>1, NoneIsRight DEF RestStarts, GrpcStarts, PostStarts, MqPublishes, Sends, Ends
  <2>2. CASE RestReturns(i) \/ RestClientReturns(i) \/ GrpcReturns(i) \/ GrpcSharedReturns(i)
    BY <1>1, <2>2, ReportsAreRight
       DEF RestReturns, RestClientReturns, GrpcReturns, GrpcSharedReturns, Ends
  <2>3. CASE MqReturns(i) \/ PostReturns(i)
    BY <1>1, <2>3, ReportsAreRight DEF MqReturns, PostReturns, MqEnds, Ends
  <2>4. CASE RestTimesOut(i) \/ MqTimesOut(i) \/ Breaks(i) \/ MqRaises(i)
    BY <2>4, NoneIsRight DEF RestTimesOut, MqTimesOut, Breaks, MqRaises, MqEnds, Ends
  <2>. QED
    BY <2>1, <2>2, <2>3, <2>4 DEF CallGoesOn
<1>. QED
  BY <1>1, <1>2, <1>3, OneResult

LEMMA ServerKeepsRight ==
  ASSUME BatchInv, ResultsFit, NEW i \in Calls, Serves(i) \/ LoopMisses(i)
  PROVE  ResultsFit'
<1>1. CallTypes
  BY DEF BatchInv
<1>2. batch' = batch /\ outcome' = outcome
  BY DEF Serves, HttpServes, PostIsPublished, PostIsServed, LoopRuns, LoopMisses, Answers
<1>3. answer' = answer \/ \E a : answer' = [answer EXCEPT ![i] = a] /\ IsRight(a.result)
  <2>1. CASE HttpServes(i)
    <3>. DEFINE a(full) == IF In(GrpcChannels)
                           THEN GrpcServes(batch.kind, GrpcRequest(batch.kind, batch.params), full)
                           ELSE RestServes(RestRoute(batch.kind), batch.params, full)
    <3>1. PICK full \in BOOLEAN : Answers(i, a(full))
      BY <2>1 DEF HttpServes
    <3>2. IsRight(a(full).result)
      BY HttpAnswersAreRight
    <3>. HIDE DEF a
    <3>. QED
      BY <3>1, <3>2 DEF Answers
  <2>2. CASE PostIsServed(i)
    <3>. DEFINE a == PostServes(batch.kind, batch.params)
    <3>1. Answers(i, a) /\ ~In(GrpcChannels)
      BY <2>2 DEF PostIsServed, In, GrpcChannels
    <3>2. IsRight(a.result)
      BY <3>1, HttpAnswersAreRight
    <3>. HIDE DEF a
    <3>. QED
      BY <3>1, <3>2 DEF Answers
  <2>3. CASE LoopRuns(i)
    <3>. DEFINE a(full) == LoopServes(batch.kind, batch.params, full)
    <3>1. PICK full \in BOOLEAN :
            \/ answer' = answer
            \/ answer' = [answer EXCEPT ![i] = a(full)]
            \/ answer' = [answer EXCEPT ![i] = Unpublished]
      BY <2>3 DEF LoopRuns, LoopPublishes
    <3>2. ~In(GrpcChannels)
      <4>1. i \in loop
        BY <2>3 DEF LoopRuns
      <4>2. CallFits(i)
        BY CallFacts
      <4>. QED
        BY <4>1, <4>2 DEF CallFits, RunsFit, In, GrpcChannels
    <3>3. IsRight(a(full).result)
      BY <3>2, HttpAnswersAreRight
    <3>4. IsRight(Unpublished.result)
      BY NoneIsRight DEF Unpublished
    <3>. HIDE DEF a
    <3>. QED
      BY <3>1, <3>3, <3>4
  <2>4. CASE PostIsPublished(i) \/ LoopMisses(i)
    BY <2>4 DEF PostIsPublished, LoopMisses
  <2>. QED
    BY <2>1, <2>2, <2>3, <2>4 DEF Serves
<1>. QED
  BY <1>1, <1>2, <1>3, OneResult

LEMMA EndKeepsRight ==
  ASSUME BatchInv, ResultsFit, Ending \/ SharedRaises \/ Hangs \/ UNCHANGED vars
  PROVE  ResultsFit'
<1>1. batch' = batch /\ answer' = answer
  BY DEF Ending, BatchEnds, BatchRaises, SharedEnds, SharedRaises, Hangs, vars
<1>2. Calls' = Calls /\ \A r : IsRight(r) => IsRight(r)'
  BY <1>1 DEF Calls, IsRight, Valid, Meant, In
<1>3. CASE SharedEnds
  <2>1. outcome' = [i \in Calls |-> IF answer[i] = NoAnswer THEN Returned("timeout")
                                    ELSE MqReports(answer[i])]
    BY <1>3 DEF SharedEnds
  <2>2. \A i \in Calls : IsRight(outcome'[i].result)
    BY <2>1, NoneIsRight, ReportsAreRight DEF ResultsFit
  <2>. QED
    BY <1>1, <1>2, <2>2 DEF ResultsFit
<1>4. CASE ~SharedEnds
  <2>1. outcome' = outcome
    BY <1>4 DEF Ending, BatchEnds, BatchRaises, SharedRaises, Hangs, vars
  <2>. QED
    BY <1>1, <1>2, <2>1 DEF ResultsFit
<1>. QED
  BY <1>3, <1>4

LEMMA ResultsFitStep == BatchInv /\ ResultsFit /\ [Next]_vars => ResultsFit'
BY CallKeepsRight, ServerKeepsRight, EndKeepsRight DEF Next

-----------------------------------------------------------------------------
(* The theorems *)

LEMMA BatchInvStep == BatchInv /\ [Next]_vars => BatchInv'
<1>. SUFFICES ASSUME BatchInv, [Next]_vars
              PROVE  BatchInv'
  OBVIOUS
<1>1. CASE \E i \in Calls : CallGoesOn(i) \/ Serves(i) \/ Breaks(i) \/ MqRaises(i) \/ LoopMisses(i)
  BY <1>1, CallStep, HttpStep, PublishStep, LoopStep DEF Serves
<1>2. CASE Ending \/ SharedRaises \/ Hangs
  BY <1>2, PoolEnds, SharedEndStep, SharedRaiseStep, HangsStep DEF Ending
<1>3. CASE UNCHANGED vars
  <2>1. /\ UNCHANGED <<batch, call, wire, loop, answer, outcome, ran, silent, report>> /\ Calls' = Calls
    BY <1>3 DEF vars, Calls
  <2>2. BatchIsSound' /\ CallTypes'
    BY <2>1 DEF BatchInv, BatchIsSound, CallTypes, In
  <2>3. Reported'
    BY <2>1 DEF BatchInv, Reported, BatchAddsUp, Finished, Successes, In
  <2>4. \A i \in Calls : CallFits(i)'
    BY <2>1, SameFits DEF BatchInv, Same
  <2>. QED
    BY <2>1, <2>2, <2>3, <2>4 DEF BatchInv
<1>. QED
  BY <1>1, <1>2, <1>3 DEF Next

LEMMA BatchInvariant == Spec => []BatchInv
<1>. QED
  BY BatchInvInit, BatchInvStep, PTL DEF Spec

LEMMA TypesFromInv == BatchInv => TypeOK
<1>. SUFFICES ASSUME BatchInv
              PROVE  TypeOK
  OBVIOUS
<1>1. BatchIsSound /\ CallTypes /\ report.status \in {0, 200, 500}
  BY DEF BatchInv, Reported
<1>. QED
  BY <1>1 DEF TypeOK, BatchIsSound, CallTypes, AnswerType

LEMMA RefusalsFromInv == BatchInv => RefusedAlike
<1>. SUFFICES ASSUME BatchInv, NEW i \in Calls
              PROVE  /\ IsRefused(i) => ~Valid \/ Excused
                     /\ outcome[i].success =>
                          \/ Valid \/ In(GrpcChannels)
                          \/ In({"rest_client"}) /\ batch.kind \notin Kinds
  BY DEF RefusedAlike, Valid, Excused
<1>1. CallFits(i)
  BY CallFacts
<1>2. answer[i] = Refused => answer[i].type = "refused"
  BY DEF Refused
<1>3. IsRefused(i) => ~Valid \/ Excused
  BY <1>1, <1>2 DEF IsRefused, CallFits, AnswerFits, OutcomeFits
<1>. QED
  BY <1>1, <1>3 DEF CallFits, AnswerFits, OutcomeFits

LEMMA HonestyFromInv == BatchInv => FailuresAreHonest
<1>. SUFFICES ASSUME BatchInv, NEW i \in Calls
              PROVE  /\ outcome[i].success => ran[i] >= 1
                     /\ outcome[i].reason \in {"refused", "full", "unknown"} => ran[i] = 0
                     /\ outcome[i].reason = "failed" =>
                          ran[i] = 0 \/ (batch.kind \in SyncKinds /\ answer[i] = Unpublished)
                     /\ ran[i] > 1 => In({"mq_client"})
  BY DEF FailuresAreHonest
<1>1. CallFits(i) /\ ran[i] \in 0..2
  BY CallFacts
<1>2. ran[i] > 1 => In({"mq_client"})
  <2>1. Once(i) \in 0..1
    BY DEF Once
  <2>. QED
    BY <1>1, <2>1 DEF CallFits, RunsFit, In
<1>. QED
  BY <1>1, <1>2 DEF CallFits, OutcomeFits, MayHaveRun

\* Whatever the browser sends (zero, negative, fractional and huge numbers, no
\* numbers at all), a batch has at least one and at most MAX_COUNT requests,
\* and no pool has more than MAX_CONCURRENCY threads (coerce_int() and
\* run_batch()).
THEOREM UiBatchTypeCorrect == Spec => []TypeOK
<1>. QED
  BY BatchInvariant, TypesFromInv, PTL

\* For every count and pool, and wherever calls time out, connections break,
\* messages are lost or Redis raises, the successes and the failures that the
\* browser is told add up to the requests, but in a batch that Redis broke.
THEOREM BatchesAddUp == Spec => []BatchAddsUp
<1>1. BatchInv => BatchAddsUp
  BY DEF BatchInv, Reported
<1>. QED
  BY <1>1, BatchInvariant, PTL

\* Whatever the parameters, the channels refuse the same requests (the builders
\* of gRPC, the dispatch of the UI, the routes and the worker loop), with the one
\* exception of a fib whose n is spelled with a point, "6.0", over gRPC.
THEOREM ChannelsRefuseAlike == Spec => []RefusedAlike
<1>. QED
  BY BatchInvariant, RefusalsFromInv, PTL

\* On every channel, what is reported as a success was run or accepted, what
\* is reported as refused was not run at all, what is reported as failed over MQ
\* was not run either unless it is a synchronous job whose result Redis did not
\* take, and nothing runs twice but the synchronous jobs of POST /jobs.
THEOREM FailuresTellTheTruth == Spec => []FailuresAreHonest
<1>. QED
  BY BatchInvariant, HonestyFromInv, PTL

\* On every channel, and for all parameters that validate, what a call reports
\* as the result is what the job should give: the arithmetic, the statistics of
\* a list in any order and the sum among them, the conversions on the way and the errors included
\* (execute() of the handlers, the builders of gRPC, _process_job_request() and
\* the clients).  A job that is only accepted reports no result.
THEOREM ResultsAreAlwaysRight == Spec => []ResultsAreRight
<1>1. ResultsFit => ResultsAreRight
  BY DEF ResultsFit, ResultsAreRight, IsRight, Valid
<1>. QED
  BY <1>1, BatchInvariant, ResultsFitInit, ResultsFitStep, PTL DEF Spec
=============================================================================
