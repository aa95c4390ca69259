---------------------------- MODULE WsSystemProofs ----------------------------
(***************************************************************************)
(* What holds of WsSystem for any number of connections and requests: the  *)
(* types, that job_update comes last, that the replies of WebSocketJobClient*)
(* are its own, and that the results of a UI call add up.                  *)
(***************************************************************************)
EXTENDS WsSystem, JobServiceProofs, SequenceTheorems

-----------------------------------------------------------------------------
(* The inductive invariant: the server *)

ConnectionsBegin ==
  \A c \in Conn : conn[c] = "none" => at[c] = "off" /\ inbox[c] = <<>>

\* A job in the making belongs to one endpoint, and nothing has happened to it.
MadeIsStored ==
  /\ \A c \in Conn : made[c] # NoJob => stage[made[c]] = "stored"
  /\ \A c, d \in Conn : made[c] # NoJob /\ made[c] = made[d] => c = d

JobsHaveSockets ==
  \A j \in Job : stage[j] # "new" => socket[j] \in Conn /\ form[j] = "async"

\* What a message says is true when it is sent, and stays so.
True(m) ==
  /\ m.type \in {"job_created", "job_update", "job_result", "job"} => m.job \in Job
  /\ m.type = "job_created" => stage[m.job] # "new"
  /\ m.type = "job_update" => stage[m.job] \in {"rejected", "closed"}
  /\ m.type = "job_result" => form[m.job] = "sync"
  /\ m.status \in Outcome => m.job \in Job /\ store[m.job] = m.status

MessagesAreTrue == \A c \in Conn : \A i \in DOMAIN outbox[c] : True(outbox[c][i])

ServerInv ==
  /\ WsTypeOK /\ StatusMatchesStage /\ ConnectionsBegin /\ MadeIsStored
  /\ JobsHaveSockets /\ MessagesAreTrue /\ UpdateComesLast

-----------------------------------------------------------------------------
(* The inductive invariant: a call of the UI *)

\* The jobs of the elements of s that are in K, and that each has only one.
JobsIn(s, K) == {s[i].job : i \in {k \in DOMAIN s : s[k] \in K}}
OnceIn(s, K) == \A i, k \in DOMAIN s : s[i] \in K /\ s[k] \in K /\ s[i].job = s[k].job => i = k

AnswerMessages == {m \in Message : m.type \in {"job_created", "job_result"}}
Successes == {r \in UiResult : r.ok}

\* Where a request of the call on u is: not received, being created, answered,
\* counted as a success.
Waiting(u) == JobsIn(inbox[u], Request)
Making(u) == IF at[u] = "created" THEN {made[u]} ELSE {}
Answered(u) == JobsIn(outbox[u], AnswerMessages)
Counted(u) == JobsIn(results[u], Successes)

\* Four sets of requests, no two of which meet, of those that were sent.
Apart(W, M, A, C, S) ==
  /\ W \cup M \cup A \cup C \subseteq S
  /\ W \cap M = {} /\ W \cap A = {} /\ W \cap C = {}
  /\ M \cap A = {} /\ M \cap C = {} /\ A \cap C = {}

\* Each request is in one of these places at most, and once.
OneTrace(u) ==
  /\ \A i \in DOMAIN inbox[u] : inbox[u][i].ask = "create_job"
  /\ OnceIn(inbox[u], Request) /\ OnceIn(outbox[u], AnswerMessages)
  /\ OnceIn(results[u], Successes)
  /\ Apart(Waiting(u), Making(u), Answered(u), Counted(u), sent[u])

\* One result for each request sent but the one that is waited for.
Counts(u) ==
  /\ uiPc[u] \in {"idle", "init"} => sent[u] = {} /\ results[u] = <<>>
  /\ uiPc[u] = "send" => sent[u] # Requests(u) /\ Len(results[u]) = Cardinality(sent[u])
  /\ uiPc[u] = "wait" => Len(results[u]) + 1 = Cardinality(sent[u])
  /\ uiPc[u] = "done" => Len(results[u]) = Cardinality(Requests(u))

SuccessesAreReal(u) ==
  \A j \in Counted(u) : form[j] = "async" => store[j] # "absent"

UiTypes ==
  /\ uiPc \in [Ui -> {"idle", "init", "send", "wait", "done"}]
  /\ sent \in [Ui -> SUBSET Job] /\ \A u \in Ui : sent[u] \subseteq Requests(u)
  /\ results \in [Ui -> Seq(UiResult)]

UiOk(u) == OneTrace(u) /\ Counts(u) /\ SuccessesAreReal(u)
UiInv == UiTypes /\ \A u \in Ui : UiOk(u)

-----------------------------------------------------------------------------
(* The inductive invariant: WebSocketJobClient *)

\* On the connection of a call under way there is its request and nothing of
\* another one; a job that create_job has returned is not reported missing.
Own(m) ==
  m.type \in {Answer(asked), "error"} =>
    /\ m.job \in {asked.job, NoJob}
    /\ asked.ask = "get_job" /\ Created(asked.job) /\ m.type = "error" => m.job = NoJob

ConnectionIsOwn ==
  apiPc \in {"init", "wait"} =>
    /\ \A i \in DOMAIN inbox[websocket] : inbox[websocket][i] = asked
    /\ made[websocket] \in {asked.job, NoJob}
    /\ \A i \in DOMAIN outbox[websocket] : Own(outbox[websocket][i])

ApiTypes ==
  /\ websocket \in ApiConn \cup {NoConn}
  /\ apiPc \in {"idle", "init", "wait", "stale"}
  /\ apiPc # "idle" => websocket # NoConn
  /\ asked \in Request /\ reply \in Reply
  /\ attempt \in [ApiJob -> {"none", "tried", "created"}]
  /\ websocket # NoConn => conn[websocket] # "none"

ApiInv ==
  /\ ApiTypes /\ ConnectionIsOwn /\ RepliesAreOwn
  /\ \A j \in ApiJob : attempt[j] = "created" => stage[j] # "new"
  /\ reply.status \in Outcome => reply.job \in Job

WsInv == ServerInv /\ UiInv /\ ApiInv /\ party \in Parties

-----------------------------------------------------------------------------
(* Sequences of messages *)

\* t is a stretch of s: its rest, a prefix, or s itself.
SubOf(t, s) == \E n \in Nat : \A i \in DOMAIN t : i + n \in DOMAIN s /\ t[i] = s[i + n]

LEMMA SelfIsSub ==
  ASSUME NEW S, NEW s \in Seq(S)
  PROVE  SubOf(s, s) /\ SubOf(<<>>, s)
<1>1. /\ DOMAIN s = 1..Len(s) /\ Len(s) \in Nat
      /\ \A i \in DOMAIN s : i + 0 \in DOMAIN s /\ s[i] = s[i + 0]
  OBVIOUS
<1>2. \A i \in DOMAIN <<>> : FALSE
  OBVIOUS
<1>. QED
  BY <1>1, <1>2 DEF SubOf

LEMMA TailIsSub ==
  ASSUME NEW S, NEW s \in Seq(S), s # <<>>
  PROVE  /\ Tail(s) \in Seq(S) /\ SubOf(Tail(s), s)
         /\ Head(s) \in S /\ Head(s) = s[1] /\ 1 \in DOMAIN s
<1>1. /\ DOMAIN s = 1..Len(s) /\ Len(s) \in Nat /\ Len(s) > 0
      /\ Tail(s) \in Seq(S) /\ DOMAIN Tail(s) = 1..(Len(s) - 1)
      /\ \A i \in 1..(Len(s) - 1) : Tail(s)[i] = s[i + 1]
      /\ Head(s) = s[1]
  OBVIOUS
<1>2. \A i \in DOMAIN Tail(s) : i + 1 \in DOMAIN s /\ Tail(s)[i] = s[i + 1]
  BY <1>1
<1>. QED
  BY <1>1, <1>2 DEF SubOf

LEMMA PrefixIsSub ==
  ASSUME NEW S, NEW s \in Seq(S), NEW n \in 0..Len(s)
  PROVE  SubSeq(s, 1, n) \in Seq(S) /\ SubOf(SubSeq(s, 1, n), s)
<1>1. /\ DOMAIN s = 1..Len(s) /\ Len(s) \in Nat /\ n \in Nat /\ n <= Len(s)
  OBVIOUS
<1>2. /\ SubSeq(s, 1, n) \in Seq(S) /\ DOMAIN SubSeq(s, 1, n) = 1..n
      /\ \A i \in 1..n : SubSeq(s, 1, n)[i] = s[i]
  <2>1. \A i \in 1..n : s[i] \in S
    BY <1>1
  <2>2. SubSeq(s, 1, n) = [i \in 1..n |-> s[i]]
    BY <1>1
  <2>. QED
    BY <1>1, <2>1, <2>2
<1>3. \A i \in DOMAIN SubSeq(s, 1, n) : i + 0 \in DOMAIN s /\ SubSeq(s, 1, n)[i] = s[i + 0]
  BY <1>1, <1>2
<1>. QED
  BY <1>2, <1>3 DEF SubOf

LEMMA SubJobs ==
  ASSUME NEW S, NEW K, NEW s \in Seq(S), NEW t \in Seq(S), SubOf(t, s)
  PROVE  /\ JobsIn(t, K) \subseteq JobsIn(s, K)
         /\ OnceIn(s, K) => OnceIn(t, K)
         /\ \A i \in DOMAIN t : \E k \in DOMAIN s : t[i] = s[k]
<1>1. PICK n \in Nat : \A i \in DOMAIN t : i + n \in DOMAIN s /\ t[i] = s[i + n]
  BY DEF SubOf
<1>2. JobsIn(t, K) \subseteq JobsIn(s, K)
  BY <1>1 DEF JobsIn
<1>3. ASSUME OnceIn(s, K)
      PROVE  OnceIn(t, K)
  <2>. SUFFICES ASSUME NEW i \in DOMAIN t, NEW k \in DOMAIN t,
                       t[i] \in K, t[k] \in K, t[i].job = t[k].job
                PROVE  i = k
    BY DEF OnceIn
  <2>1. i + n = k + n
    BY <1>1, <1>3 DEF OnceIn
  <2>2. i \in Nat /\ k \in Nat
    OBVIOUS
  <2>. QED
    BY <2>1, <2>2
<1>. QED
  BY <1>1, <1>2, <1>3

\* The head is gone, so what it was about is nowhere else in the rest.
LEMMA TailJobs ==
  ASSUME NEW S, NEW K, NEW s \in Seq(S), s # <<>>, OnceIn(s, K), Head(s) \in K
  PROVE  Head(s).job \in JobsIn(s, K) /\ Head(s).job \notin JobsIn(Tail(s), K)
<1>1. /\ DOMAIN s = 1..Len(s) /\ Len(s) \in Nat /\ Len(s) > 0
      /\ DOMAIN Tail(s) = 1..(Len(s) - 1)
      /\ \A i \in 1..(Len(s) - 1) : Tail(s)[i] = s[i + 1]
      /\ Head(s) = s[1]
  OBVIOUS
<1>2. Head(s).job \in JobsIn(s, K)
  <2>1. 1 \in DOMAIN s
    BY <1>1
  <2>. QED
    BY <1>1, <2>1 DEF JobsIn
<1>3. ASSUME Head(s).job \in JobsIn(Tail(s), K)
      PROVE  FALSE
  <2>1. PICK i \in DOMAIN Tail(s) : Tail(s)[i] \in K /\ Tail(s)[i].job = Head(s).job
    BY <1>3 DEF JobsIn
  <2>2. i + 1 \in DOMAIN s /\ 1 \in DOMAIN s /\ s[i + 1] \in K /\ s[1] \in K /\ s[i + 1].job = s[1].job
    BY <1>1, <2>1
  <2>3. i + 1 = 1
    BY <2>2 DEF OnceIn
  <2>. QED
    BY <1>1, <2>1, <2>3
<1>. QED
  BY <1>2, <1>3

LEMMA AppendJobs ==
  ASSUME NEW S, NEW K, NEW s \in Seq(S), NEW e \in S
  PROVE  /\ Append(s, e) \in Seq(S)
         /\ JobsIn(s, K) \subseteq JobsIn(Append(s, e), K)
         /\ e \in K => JobsIn(Append(s, e), K) = JobsIn(s, K) \cup {e.job}
         /\ e \notin K => JobsIn(Append(s, e), K) = JobsIn(s, K)
         /\ OnceIn(s, K) /\ (e \in K => e.job \notin JobsIn(s, K)) => OnceIn(Append(s, e), K)
         /\ \A i \in DOMAIN Append(s, e) : Append(s, e)[i] = e \/ \E k \in DOMAIN s : Append(s, e)[i] = s[k]
<1>. DEFINE t == Append(s, e)
<1>1. /\ DOMAIN s = 1..Len(s) /\ Len(s) \in Nat /\ t \in Seq(S)
      /\ DOMAIN t = 1..(Len(s) + 1)
      /\ \A i \in 1..Len(s) : t[i] = s[i]
      /\ t[Len(s) + 1] = e
  OBVIOUS
<1>. HIDE DEF t
<1>2. DOMAIN s \subseteq DOMAIN t /\ Len(s) + 1 \in DOMAIN t
  BY <1>1
<1>3. \A i \in DOMAIN t : i \in DOMAIN s \/ i = Len(s) + 1
  BY <1>1
<1>4. \A i \in DOMAIN t : t[i] = e \/ \E k \in DOMAIN s : t[i] = s[k]
  BY <1>1, <1>3
<1>5. JobsIn(s, K) \subseteq JobsIn(t, K)
  BY <1>1, <1>2 DEF JobsIn
<1>6. e \in K => e.job \in JobsIn(t, K)
  BY <1>1, <1>2 DEF JobsIn
<1>7. ASSUME NEW j, j \in JobsIn(t, K)
      PROVE  j \in JobsIn(s, K) \/ (e \in K /\ j = e.job)
  <2>1. PICK i \in DOMAIN t : t[i] \in K /\ t[i].job = j
    BY <1>7 DEF JobsIn
  <2>2. CASE i \in DOMAIN s
    <3>1. i \in {k \in DOMAIN s : s[k] \in K} /\ s[i].job = j
      BY <1>1, <2>1, <2>2
    <3>. QED
      BY <3>1 DEF JobsIn
  <2>3. CASE i = Len(s) + 1
    BY <1>1, <2>1, <2>3
  <2>. QED
    BY <1>3, <2>2, <2>3
<1>8. ASSUME OnceIn(s, K), e \in K => e.job \notin JobsIn(s, K)
      PROVE  OnceIn(t, K)
  <2>. SUFFICES ASSUME NEW i \in DOMAIN t, NEW k \in DOMAIN t,
                       t[i] \in K, t[k] \in K, t[i].job = t[k].job
                PROVE  i = k
    BY DEF OnceIn
  <2>1. CASE i \in DOMAIN s /\ k \in DOMAIN s
    BY <1>1, <1>8, <2>1 DEF OnceIn
  <2>2. CASE i \in DOMAIN s /\ k = Len(s) + 1
    BY <1>1, <1>8, <2>2 DEF JobsIn
  <2>3. CASE k \in DOMAIN s /\ i = Len(s) + 1
    BY <1>1, <1>8, <2>3 DEF JobsIn
  <2>. QED
    BY <1>3, <2>1, <2>2, <2>3
<1>. QED
  BY <1>1, <1>4, <1>5, <1>6, <1>7, <1>8 DEF t

-----------------------------------------------------------------------------
(* The jobs *)

LEMMA ServerTypes ==
  ASSUME WsTypeOK
  PROVE  /\ ServiceTypeOK /\ store \in [Job -> Status] /\ stage \in [Job -> Stage]
         /\ form \in [Job -> Form] /\ conn \in [Conn -> {"none", "open", "deaf", "broken"}]
         /\ inbox \in [Conn -> Seq(Request)] /\ outbox \in [Conn -> Seq(Message)]
         /\ at \in [Conn -> {"off", "receive", "created", "submit", "ended"}]
         /\ made \in [Conn -> Job \cup {NoJob}]
         /\ \A c \in Conn : made[c] # NoJob <=> at[c] \in {"created", "submit"}
         /\ socket \in [Job -> Conn \cup {NoConn}] /\ updated \subseteq Job
         /\ Orphans = {} /\ NoJob \notin Job /\ NoConn \notin Conn
         /\ \A c \in Conn, i \in Nat : i \in DOMAIN inbox[c] => inbox[c][i] \in Request
         /\ \A c \in Conn, i \in Nat : i \in DOMAIN outbox[c] => outbox[c][i] \in Message
<1>1. ServiceTypeOK /\ store \in [Job -> Status] /\ stage \in [Job -> Stage]
  BY DEF WsTypeOK, ServiceTypeOK
<1>2. inbox \in [Conn -> Seq(Request)] /\ outbox \in [Conn -> Seq(Message)]
  BY DEF WsTypeOK
<1>3. \A c \in Conn, i \in Nat : i \in DOMAIN inbox[c] => inbox[c][i] \in Request
  BY <1>2
<1>4. \A c \in Conn, i \in Nat : i \in DOMAIN outbox[c] => outbox[c][i] \in Message
  BY <1>2
<1>. QED
  BY <1>1, <1>2, <1>3, <1>4, WsAssumption DEF WsTypeOK

LEMMA StatusOf ==
  ASSUME StatusMatchesStage, NEW j \in Job
  PROVE  /\ stage[j] = "new" <=> store[j] = "absent"
         /\ store[j] \in Outcome <=> stage[j] \in {"rejected", "notifying", "closed"}
BY WsAssumption DEF StatusMatchesStage

\* What every step leaves of the jobs.
Over == {"rejected", "closed"}
JobsKeep ==
  /\ ServiceTypeOK' /\ StatusMatchesStage' /\ form' = form
  /\ \A j \in Job : stage[j] # "new" => stage'[j] # "new"
  /\ \A j \in Job : stage[j] \in Over => stage'[j] \in Over
  /\ \A j \in Job : store[j] \in Outcome => store'[j] = store[j]

LEMMA ServiceKeeps ==
  ASSUME ServiceTypeOK, StatusMatchesStage, [ServiceNext]_serviceVars, form' = form
  PROVE  JobsKeep
<1>1. ServiceTypeOK' /\ StatusMatchesStage'
  BY ServiceTypeStep, StatusStep
<1>2. \A j \in Job : store[j] \in Outcome => store'[j] = store[j]
  BY OutcomeStays, WsAssumption
<1>3. ASSUME NEW j \in Job
      PROVE  /\ stage[j] # "new" => stage'[j] # "new"
             /\ stage[j] \in Over => stage'[j] \in Over
  <2>1. stage \in [Job -> Stage]
    BY DEF ServiceTypeOK
  <2>2. ASSUME NEW k \in Job, \/ Store(k) \/ Accept(k) \/ Reject(k) \/ Claim(k) \/ Begin(k)
                              \/ Close(k) \/ \E outcome \in Outcome : Finish(k, outcome)
        PROVE  /\ stage[k] \notin Over
               /\ \E s \in Stage \ {"new"} : stage' = [stage EXCEPT ![k] = s]
    BY <2>1, <2>2, WsAssumption
    DEF Store, Accept, Reject, Claim, Begin, Close, Finish, Move, Over, Stage, Handed
  <2>3. ASSUME NEW S \in SUBSET Job, Lose(S)
        PROVE  stage'[j] = IF j \in S THEN "lost" ELSE stage[j]
    BY <2>3 DEF Lose
  <2>4. ASSUME NEW S \in SUBSET Job, Lose(S)
        PROVE  j \in S => stage[j] \in {"claimed", "running"}
    BY <2>4 DEF Lose, At
  <2>. QED
    BY <2>1, <2>2, <2>3, <2>4 DEF ServiceNext, serviceVars, Over
<1>. QED
  BY <1>1, <1>2, <1>3 DEF JobsKeep

LEMMA ServiceStep ==
  ASSUME WsTypeOK, Next
  PROVE  [ServiceNext]_serviceVars /\ form' = form
<1>1. \A c \in Conn : at[c] = "submit" => made[c] \in Job
  BY ServerTypes
<1>2. ASSUME NEW c \in Conn, Endpoint(c)
      PROVE  [ServiceNext]_serviceVars /\ form' = form
  <2>1. CASE Submits(c) \/ IsRefused(c)
    BY <1>1, <2>1 DEF Submits, IsRefused, ServiceNext
  <2>2. ASSUME NEW j \in Job, StoresJob(c, j)
        PROVE  [ServiceNext]_serviceVars /\ form' = form
    BY <2>2 DEF StoresJob, ServiceNext
  <2>3. CASE \/ \E j \in Job : ExecutesSync(c, j) \/ RefusesRequest(c, j) \/ GetsJob(c, j)
             \/ ListsJobs(c) \/ GetsQueueStatus(c)
    BY <2>3 DEF ExecutesSync, RefusesRequest, GetsJob, ListsJobs, GetsQueueStatus, Replies
  <2>4. CASE Disconnects(c) \/ SendsCreated(c)
    BY <2>4 DEF Disconnects, SendsCreated
  <2>. QED
    BY <1>2, <2>1, <2>2, <2>3, <2>4 DEF Endpoint
<1>3. ASSUME NEW j \in Job, Workers(j)
      PROVE  [ServiceNext]_serviceVars /\ form' = form
  BY <1>3 DEF Workers, WorkerClaims, WorkerBegins, WorkerFinishes, CallbackSends, ServiceNext,
              endpointVars
<1>4. CASE Breaks
  BY <1>4 DEF Breaks, Break, endpointVars
<1>5. ASSUME NEW u \in Ui, UiCall(u)
      PROVE  UNCHANGED serviceVars /\ form' = form
  BY <1>5 DEF UiCall, UiConnects, UiCannotConnect, UiTakesInit, UiLosesInit, UiSends, UiReads,
              UiGivesUp, Open, endpointVars, wsVars
<1>6. CASE ApiCall
  BY <1>6 DEF ApiCall, ApiCannotConnect, ApiConnects, ApiReconnects, ApiSends, ApiSendsAgain,
              ApiReads, ApiTimesOut, ApiFails, ApiCloses, ApiReturns, Open, endpointVars, wsVars
<1>. QED
  BY <1>2, <1>3, <1>4, <1>5, <1>6 DEF Next, Serves, Server

-----------------------------------------------------------------------------
(* Messages *)

\* True(m) of the next state.
TrueNext(m) ==
  /\ m.type \in {"job_created", "job_update", "job_result", "job"} => m.job \in Job
  /\ m.type = "job_created" => stage'[m.job] # "new"
  /\ m.type = "job_update" => stage'[m.job] \in {"rejected", "closed"}
  /\ m.type = "job_result" => form'[m.job] = "sync"
  /\ m.status \in Outcome => m.job \in Job /\ store'[m.job] = m.status

\* A message may be sent: it is true, and if it is not an answer to get_job, no
\* job_update for its job was sent before.
MaySend(m) == m \in Message /\ TrueNext(m) /\ (m.type = "job" \/ m.job \notin Job \/ stage[m.job] \notin Over)

LEMMA TruthStays ==
  ASSUME WsTypeOK, StatusMatchesStage, JobsKeep, NEW m, True(m)
  PROVE  TrueNext(m)
BY DEF True, TrueNext, JobsKeep, Over

LEMMA OutboxKeeps ==
  ASSUME WsTypeOK, StatusMatchesStage, MessagesAreTrue, UpdateComesLast, JobsKeep,
         outbox' \in [Conn -> Seq(Message)],
         \A c \in Conn : \/ SubOf(outbox'[c], outbox[c])
                         \/ outbox'[c] = <<Plain("init")>>
                         \/ \E m \in Message : MaySend(m) /\ outbox'[c] = Append(outbox[c], m)
  PROVE  MessagesAreTrue' /\ UpdateComesLast'
<1>. DEFINE LastNext(c) == \A i, k \in DOMAIN outbox'[c] :
              i < k /\ outbox'[c][i].type = "job_update" /\ outbox'[c][k].job = outbox'[c][i].job
                => outbox'[c][k].type = "job"
<1>1. /\ outbox \in [Conn -> Seq(Message)] /\ NoJob \notin Job
      /\ \A c \in Conn : \A i \in DOMAIN outbox[c] : True(outbox[c][i]) /\ TrueNext(outbox[c][i])
  BY ServerTypes, TruthStays DEF MessagesAreTrue
<1>2. ASSUME NEW c \in Conn
      PROVE  (\A i \in DOMAIN outbox'[c] : TrueNext(outbox'[c][i])) /\ LastNext(c)
  <2>. DEFINE s == outbox[c]
              t == outbox'[c]
  <2>1. s \in Seq(Message) /\ t \in Seq(Message) /\ DOMAIN s = 1..Len(s) /\ Len(s) \in Nat
    BY <1>1
  <2>2. /\ \A i \in DOMAIN s : True(s[i]) /\ TrueNext(s[i])
        /\ \A i, k \in DOMAIN s : i < k /\ s[i].type = "job_update" /\ s[k].job = s[i].job => s[k].type = "job"
    BY <1>1 DEF UpdateComesLast
  <2>3. \/ SubOf(t, s) \/ t = <<Plain("init")>>
        \/ \E m \in Message : MaySend(m) /\ t = Append(s, m)
    OBVIOUS
  <2>. SUFFICES /\ \A i \in DOMAIN t : TrueNext(t[i])
                /\ \A i, k \in DOMAIN t : i < k /\ t[i].type = "job_update" /\ t[k].job = t[i].job
                                            => t[k].type = "job"
    OBVIOUS
  <2>. HIDE DEF s, t, LastNext
  <2>4. CASE SubOf(t, s)
    <3>1. PICK n \in Nat : \A i \in DOMAIN t : i + n \in DOMAIN s /\ t[i] = s[i + n]
      BY <2>4 DEF SubOf
    <3>2. DOMAIN t \subseteq Nat
      BY <2>1
    <3>3. \A i, k \in DOMAIN t : i < k => i + n < k + n
      BY <3>2
    <3>. QED
      BY <2>2, <3>1, <3>3
  <2>5. CASE t = <<Plain("init")>>
    <3>1. DOMAIN t = {1} /\ t[1] = Plain("init")
      BY <2>5
    <3>. QED
      BY <3>1 DEF Plain, About, TrueNext, Outcome
  <2>6. ASSUME NEW m \in Message, MaySend(m), t = Append(s, m)
        PROVE  /\ \A i \in DOMAIN t : TrueNext(t[i])
               /\ \A i, k \in DOMAIN t : i < k /\ t[i].type = "job_update" /\ t[k].job = t[i].job
                                           => t[k].type = "job"
    <3>1. /\ DOMAIN t = 1..(Len(s) + 1) /\ t[Len(s) + 1] = m
          /\ \A i \in 1..Len(s) : t[i] = s[i]
      BY <2>1, <2>6
    <3>2. \A i \in DOMAIN t : i \in DOMAIN s \/ i = Len(s) + 1
      BY <2>1, <3>1
    <3>3. \A i \in DOMAIN t : TrueNext(t[i])
      BY <2>1, <2>2, <2>6, <3>1, <3>2 DEF MaySend
    <3>4. ASSUME NEW i \in DOMAIN t, NEW k \in DOMAIN t, i < k, t[i].type = "job_update", t[k].job = t[i].job
          PROVE  t[k].type = "job"
      <4>1. i \in DOMAIN s /\ t[i] = s[i] /\ True(s[i])
        BY <2>1, <2>2, <3>1, <3>2, <3>4
      <4>2. CASE k \in DOMAIN s
        BY <2>1, <2>2, <3>1, <3>4, <4>1, <4>2
      <4>3. CASE k = Len(s) + 1
        <5>1. t[k] = m /\ m.job \in Job /\ stage[m.job] \in Over
          BY <3>1, <3>4, <4>1, <4>3 DEF True, Over
        <5>. QED
          BY <2>6, <5>1 DEF MaySend
      <4>. QED
        BY <3>2, <4>2, <4>3
    <3>. QED
      BY <3>3, <3>4
  <2>. QED
    BY <2>3, <2>4, <2>5, <2>6
<1>3. MessagesAreTrue'
  BY <1>2 DEF MessagesAreTrue, True, TrueNext
<1>. QED
  BY <1>2, <1>3 DEF UpdateComesLast

-----------------------------------------------------------------------------
(* The server keeps its part *)

LEMMA PushFacts ==
  ASSUME WsTypeOK, NEW c \in Conn, NEW m \in Message, Push(c, m)
  PROVE  /\ outbox' \in [Conn -> Seq(Message)]
         /\ outbox'[c] = outbox[c] \/ outbox'[c] = Append(outbox[c], m)
         /\ \A d \in Conn : d # c => outbox'[d] = outbox[d]
<1>1. outbox \in [Conn -> Seq(Message)] /\ Append(outbox[c], m) \in Seq(Message)
  BY ServerTypes
<1>. QED
  BY <1>1 DEF Push

\* A message sent or lost, at c only; the endpoint goes on or ends.
LEMMA SendsFacts ==
  ASSUME WsTypeOK, NEW c \in Conn, NEW m \in Message, NEW next \in {"receive", "submit"},
         Sends(c, m, next)
  PROVE  /\ outbox' \in [Conn -> Seq(Message)]
         /\ outbox'[c] = outbox[c] \/ outbox'[c] = Append(outbox[c], m)
         /\ \A d \in Conn : d # c => outbox'[d] = outbox[d]
         /\ \/ /\ at' = [at EXCEPT ![c] = next]
               /\ made' = [made EXCEPT ![c] = IF next = "receive" THEN NoJob ELSE made[c]]
            \/ EndpointEnds(c)
<1>1. outbox \in [Conn -> Seq(Message)]
  BY ServerTypes
<1>2. CASE Push(c, m) /\ at' = [at EXCEPT ![c] = next]
           /\ made' = [made EXCEPT ![c] = IF next = "receive" THEN NoJob ELSE @]
  BY <1>2, PushFacts
<1>3. CASE EndpointEnds(c) /\ UNCHANGED outbox
  BY <1>1, <1>3
<1>. QED
  BY <1>2, <1>3 DEF Sends

LEMMA OutboxGrows ==
  ASSUME WsTypeOK, StatusMatchesStage, MessagesAreTrue, UpdateComesLast, JobsKeep,
         NEW c \in Conn, NEW m \in Message, MaySend(m),
         outbox' \in [Conn -> Seq(Message)],
         outbox'[c] = outbox[c] \/ outbox'[c] = Append(outbox[c], m),
         \A d \in Conn : d # c => outbox'[d] = outbox[d]
  PROVE  MessagesAreTrue' /\ UpdateComesLast'
<1>1. \A d \in Conn : SubOf(outbox[d], outbox[d])
  BY ServerTypes, SelfIsSub
<1>2. \A d \in Conn : \/ SubOf(outbox'[d], outbox[d])
                      \/ \E n \in Message : MaySend(n) /\ outbox'[d] = Append(outbox[d], n)
  BY <1>1
<1>. QED
  BY <1>2, OutboxKeeps

\* A step of the wire: requests are added or lost, messages taken or lost.
LEMMA WireStep ==
  ASSUME ServerInv, UNCHANGED <<serviceVars, endpointVars>>,
         conn' \in [Conn -> {"none", "open", "deaf", "broken"}],
         inbox' \in [Conn -> Seq(Request)], outbox' \in [Conn -> Seq(Message)],
         \A c \in Conn : conn'[c] = "none" => conn[c] = "none" /\ inbox'[c] = inbox[c],
         \A c \in Conn : SubOf(outbox'[c], outbox[c])
  PROVE  ServerInv' /\ JobsKeep
<1>1. /\ WsTypeOK /\ StatusMatchesStage /\ ConnectionsBegin /\ MadeIsStored
      /\ JobsHaveSockets /\ MessagesAreTrue /\ UpdateComesLast
  BY DEF ServerInv
<1>2. /\ store' = store /\ stage' = stage /\ form' = form /\ at' = at /\ made' = made
      /\ socket' = socket /\ updated' = updated
  BY DEF serviceVars, endpointVars
<1>3. JobsKeep
  BY <1>1, <1>2, ServiceKeeps DEF WsTypeOK
<1>4. WsTypeOK' /\ StatusMatchesStage'
  BY <1>1, <1>2, <1>3 DEF WsTypeOK, JobsKeep
<1>5. MessagesAreTrue' /\ UpdateComesLast'
  BY <1>1, <1>3, OutboxKeeps
<1>6. ConnectionsBegin' /\ MadeIsStored' /\ JobsHaveSockets'
  BY <1>1, <1>2 DEF ConnectionsBegin, MadeIsStored, JobsHaveSockets
<1>. QED
  BY <1>3, <1>4, <1>5, <1>6 DEF ServerInv

LEMMA OpenStep ==
  ASSUME ServerInv, NEW c \in Conn, Open(c), UNCHANGED serviceVars
  PROVE  ServerInv' /\ JobsKeep
<1>1. /\ WsTypeOK /\ StatusMatchesStage /\ ConnectionsBegin /\ MadeIsStored
      /\ JobsHaveSockets /\ MessagesAreTrue /\ UpdateComesLast
  BY DEF ServerInv
<1>2. /\ store' = store /\ stage' = stage /\ form' = form /\ made' = made
      /\ socket' = socket /\ updated' = updated /\ inbox' = inbox
      /\ conn' = [conn EXCEPT ![c] = "open"] /\ outbox' = [outbox EXCEPT ![c] = <<Plain("init")>>]
      /\ at' = [at EXCEPT ![c] = "receive"] /\ at[c] = "off"
  BY <1>1 DEF serviceVars, Open, ConnectionsBegin
<1>3. JobsKeep
  BY <1>1, <1>2, ServiceKeeps DEF WsTypeOK
<1>4. outbox' \in [Conn -> Seq(Message)]
  <2>1. Plain("init") \in Message
    BY DEF Plain, About, Message, MessageType, Status
  <2>2. <<Plain("init")>> \in Seq(Message)
    BY <2>1
  <2>. QED
    BY <1>1, <1>2, <2>2, ServerTypes
<1>5. WsTypeOK' /\ StatusMatchesStage'
  BY <1>1, <1>2, <1>3, <1>4 DEF WsTypeOK, JobsKeep
<1>6. MessagesAreTrue' /\ UpdateComesLast'
  <2>1. \A d \in Conn : SubOf(outbox[d], outbox[d])
    BY <1>1, ServerTypes, SelfIsSub
  <2>2. \A d \in Conn : SubOf(outbox'[d], outbox[d]) \/ outbox'[d] = <<Plain("init")>>
    BY <1>1, <1>2, <2>1, ServerTypes
  <2>. QED
    BY <1>1, <1>3, <1>4, <2>2, OutboxKeeps
<1>7. ConnectionsBegin' /\ MadeIsStored' /\ JobsHaveSockets'
  BY <1>1, <1>2, ServerTypes DEF ConnectionsBegin, MadeIsStored, JobsHaveSockets
<1>. QED
  BY <1>3, <1>5, <1>6, <1>7 DEF ServerInv

\* The endpoint of c takes a step.
LEMMA EndpointStep ==
  ASSUME ServerInv, JobsKeep, NEW c \in Conn, at[c] # "off", conn' = conn,
         inbox' = inbox \/ (inbox[c] # <<>> /\ inbox' = [inbox EXCEPT ![c] = Tail(inbox[c])]),
         outbox' \in [Conn -> Seq(Message)], MessagesAreTrue', UpdateComesLast',
         NEW p \in {"receive", "created", "submit", "ended"}, at' = [at EXCEPT ![c] = p],
         NEW k \in Job \cup {NoJob}, made' = [made EXCEPT ![c] = k],
         k # NoJob <=> p \in {"created", "submit"},
         k # NoJob => stage'[k] = "stored",
         \A d \in Conn : d # c => k = NoJob \/ made[d] # k,
         \A d \in Conn : d # c /\ made[d] # NoJob => stage'[made[d]] = "stored",
         socket' \in [Job -> Conn \cup {NoConn}], updated' \subseteq Job,
         \A j \in Job : stage'[j] # "new" => socket'[j] \in Conn /\ form[j] = "async"
  PROVE  ServerInv'
<1>1. WsTypeOK /\ ConnectionsBegin /\ MadeIsStored
  BY DEF ServerInv
<1>2. /\ at \in [Conn -> {"off", "receive", "created", "submit", "ended"}]
      /\ made \in [Conn -> Job \cup {NoJob}] /\ inbox \in [Conn -> Seq(Request)]
      /\ \A d \in Conn : made[d] # NoJob <=> at[d] \in {"created", "submit"}
  BY <1>1, ServerTypes
<1>3. inbox' \in [Conn -> Seq(Request)]
  <2>1. inbox[c] # <<>> => Tail(inbox[c]) \in Seq(Request)
    BY <1>2
  <2>. QED
    BY <1>2, <2>1
<1>4. \A d \in Conn : d # c => inbox'[d] = inbox[d] /\ at'[d] = at[d] /\ made'[d] = made[d]
  BY <1>2
<1>5. at'[c] = p /\ made'[c] = k
  BY <1>2
<1>6. \A d \in Conn : made'[d] # NoJob <=> at'[d] \in {"created", "submit"}
  BY <1>2, <1>4, <1>5
<1>7. /\ at' \in [Conn -> {"off", "receive", "created", "submit", "ended"}]
      /\ made' \in [Conn -> Job \cup {NoJob}]
  BY <1>2
<1>8. ServiceTypeOK' /\ form' = form
  BY DEF JobsKeep
<1>9. WsTypeOK'
  BY <1>1, <1>3, <1>6, <1>7, <1>8 DEF WsTypeOK
<1>10. ConnectionsBegin'
  BY <1>1, <1>4 DEF ConnectionsBegin
<1>11. MadeIsStored'
  <2>1. \A d \in Conn : made'[d] # NoJob => stage'[made'[d]] = "stored"
    BY <1>4, <1>5
  <2>2. ASSUME NEW d \in Conn, NEW e \in Conn, made'[d] # NoJob, made'[d] = made'[e]
        PROVE  d = e
    <3>1. CASE d = c
      BY <1>4, <1>5, <2>2, <3>1
    <3>2. CASE e = c
      BY <1>4, <1>5, <2>2, <3>2
    <3>3. CASE d # c /\ e # c
      BY <1>1, <1>4, <2>2, <3>3 DEF MadeIsStored
    <3>. QED
      BY <3>1, <3>2, <3>3
  <2>. QED
    BY <2>1, <2>2 DEF MadeIsStored
<1>12. JobsHaveSockets'
  BY <1>8 DEF JobsHaveSockets
<1>. QED
  BY <1>9, <1>10, <1>11, <1>12 DEF ServerInv, JobsKeep

LEMMA RepliesStep ==
  ASSUME ServerInv, NEW c \in Conn, NEW ask, NEW j, NEW m \in Message,
         Replies(c, ask, j, m), MaySend(m)
  PROVE  ServerInv' /\ JobsKeep
<1>1. /\ WsTypeOK /\ StatusMatchesStage /\ MadeIsStored /\ JobsHaveSockets
      /\ MessagesAreTrue /\ UpdateComesLast
  BY DEF ServerInv
<1>2. /\ at[c] = "receive" /\ inbox[c] # <<>> /\ inbox' = [inbox EXCEPT ![c] = Tail(inbox[c])]
      /\ Sends(c, m, "receive")
      /\ UNCHANGED <<serviceVars, conn, form, socket, updated>>
  BY DEF Replies, Receives
<1>3. /\ outbox' \in [Conn -> Seq(Message)]
      /\ outbox'[c] = outbox[c] \/ outbox'[c] = Append(outbox[c], m)
      /\ \A d \in Conn : d # c => outbox'[d] = outbox[d]
      /\ \E p \in {"receive", "ended"} : at' = [at EXCEPT ![c] = p]
      /\ made' = [made EXCEPT ![c] = NoJob]
  BY <1>1, <1>2, SendsFacts DEF EndpointEnds
<1>4. JobsKeep
  BY <1>1, <1>2, ServiceKeeps DEF WsTypeOK
<1>5. MessagesAreTrue' /\ UpdateComesLast'
  BY <1>1, <1>3, <1>4, OutboxGrows
<1>6. stage' = stage /\ socket' = socket /\ updated' = updated /\ conn' = conn
  BY <1>2 DEF serviceVars
<1>7. /\ \A d \in Conn : made[d] # NoJob => stage'[made[d]] = "stored"
      /\ \A i \in Job : stage'[i] # "new" => socket'[i] \in Conn /\ form[i] = "async"
      /\ socket' \in [Job -> Conn \cup {NoConn}] /\ updated' \subseteq Job
  BY <1>1, <1>6, ServerTypes DEF MadeIsStored, JobsHaveSockets
<1>8. PICK p \in {"receive", "ended"} : at' = [at EXCEPT ![c] = p]
  BY <1>3
<1>. QED
  BY <1>2, <1>3, <1>4, <1>5, <1>6, <1>7, <1>8, EndpointStep

\* Messages that may be sent as answers.
LEMMA AnswersMaySend ==
  ASSUME WsTypeOK, StatusMatchesStage, JobsHaveSockets, UNCHANGED <<serviceVars, form>>,
         NEW j \in Job
  PROVE  /\ form[j] = "sync" => MaySend(About("job_result", j))
         /\ store[j] = "absent" => MaySend(About("error", j))
         /\ store[j] # "absent" => MaySend([type |-> "job", job |-> j, status |-> store[j]])
         /\ \A type \in {"error", "jobs", "queue_status"} : MaySend(Plain(type))
<1>1. /\ stage' = stage /\ store' = store /\ form' = form /\ store[j] \in Status
      /\ NoJob \notin Job
  BY ServerTypes DEF serviceVars
<1>2. stage[j] = "new" <=> store[j] = "absent"
  BY StatusOf
<1>3. stage[j] # "new" => form[j] = "async"
  BY DEF JobsHaveSockets
<1>4. form[j] = "sync" => MaySend(About("job_result", j))
  BY <1>1, <1>3 DEF MaySend, TrueNext, About, Message, MessageType, Status, Outcome, Over
<1>5. store[j] = "absent" => MaySend(About("error", j))
  BY <1>1, <1>2 DEF MaySend, TrueNext, About, Message, MessageType, Status, Outcome, Over
<1>6. store[j] # "absent" => MaySend([type |-> "job", job |-> j, status |-> store[j]])
  BY <1>1 DEF MaySend, TrueNext, Message, MessageType, Status, Outcome, Over
<1>7. \A type \in {"error", "jobs", "queue_status"} : MaySend(Plain(type))
  BY <1>1 DEF MaySend, TrueNext, About, Plain, Message, MessageType, Status, Outcome, Over
<1>. QED
  BY <1>4, <1>5, <1>6, <1>7

LEMMA StoresJobStep ==
  ASSUME ServerInv, JobsKeep, NEW c \in Conn, NEW j \in Job, StoresJob(c, j)
  PROVE  ServerInv'
<1>1. /\ WsTypeOK /\ StatusMatchesStage /\ MadeIsStored /\ JobsHaveSockets
      /\ MessagesAreTrue /\ UpdateComesLast
  BY DEF ServerInv
<1>2. /\ at[c] = "receive" /\ inbox[c] # <<>> /\ inbox' = [inbox EXCEPT ![c] = Tail(inbox[c])]
      /\ form[j] = "async" /\ stage[j] = "new" /\ stage' = [stage EXCEPT ![j] = "stored"]
      /\ made' = [made EXCEPT ![c] = j] /\ socket' = [socket EXCEPT ![j] = c]
      /\ at' = [at EXCEPT ![c] = "created"] /\ UNCHANGED <<conn, outbox, form, updated>>
  BY DEF StoresJob, Receives, Store, Move
<1>3. /\ stage \in [Job -> Stage] /\ socket \in [Job -> Conn \cup {NoConn}]
      /\ outbox \in [Conn -> Seq(Message)] /\ made \in [Conn -> Job \cup {NoJob}]
      /\ NoJob \notin Job /\ updated \subseteq Job
  BY <1>1, ServerTypes
<1>4. MessagesAreTrue' /\ UpdateComesLast'
  <2>1. \A d \in Conn : SubOf(outbox'[d], outbox[d])
    BY <1>2, <1>3, SelfIsSub
  <2>. QED
    BY <1>1, <1>2, <1>3, <2>1, OutboxKeeps
<1>5. /\ \A d \in Conn : made[d] # NoJob => stage'[made[d]] = "stored" /\ made[d] # j
      /\ stage'[j] = "stored"
  BY <1>1, <1>2, <1>3 DEF MadeIsStored
<1>6. /\ socket' \in [Job -> Conn \cup {NoConn}]
      /\ \A i \in Job : stage'[i] # "new" => socket'[i] \in Conn /\ form[i] = "async"
  BY <1>1, <1>2, <1>3 DEF JobsHaveSockets
<1>7. /\ at[c] # "off" /\ conn' = conn /\ updated' \subseteq Job
      /\ outbox' \in [Conn -> Seq(Message)]
      /\ inbox' = inbox \/ (inbox[c] # <<>> /\ inbox' = [inbox EXCEPT ![c] = Tail(inbox[c])])
      /\ \A d \in Conn : d # c => j = NoJob \/ made[d] # j
      /\ \A d \in Conn : d # c /\ made[d] # NoJob => stage'[made[d]] = "stored"
      /\ j \in Job \cup {NoJob} /\ j # NoJob
  BY <1>2, <1>3, <1>5
<1>. QED
  BY <1>2, <1>4, <1>5, <1>6, <1>7, EndpointStep

LEMMA SendsCreatedStep ==
  ASSUME ServerInv, JobsKeep, NEW c \in Conn, SendsCreated(c)
  PROVE  ServerInv'
<1>1. /\ WsTypeOK /\ StatusMatchesStage /\ MadeIsStored /\ JobsHaveSockets
      /\ MessagesAreTrue /\ UpdateComesLast
  BY DEF ServerInv
<1>2. /\ at[c] = "created" /\ Sends(c, About("job_created", made[c]), "submit")
      /\ UNCHANGED <<serviceVars, conn, inbox, form, socket, updated>>
  BY DEF SendsCreated
<1>3. /\ made[c] \in Job /\ stage[made[c]] = "stored" /\ NoJob \notin Job
      /\ socket \in [Job -> Conn \cup {NoConn}] /\ updated \subseteq Job
      /\ made \in [Conn -> Job \cup {NoJob}]
  BY <1>1, <1>2, ServerTypes DEF MadeIsStored
<1>4. stage' = stage
  BY <1>2 DEF serviceVars
<1>5. MaySend(About("job_created", made[c])) /\ About("job_created", made[c]) \in Message
  BY <1>3, <1>4 DEF MaySend, TrueNext, About, Message, MessageType, Status, Outcome, Over
<1>6. /\ outbox' \in [Conn -> Seq(Message)] /\ MessagesAreTrue' /\ UpdateComesLast'
      /\ \/ at' = [at EXCEPT ![c] = "submit"] /\ made' = [made EXCEPT ![c] = made[c]]
         \/ at' = [at EXCEPT ![c] = "ended"] /\ made' = [made EXCEPT ![c] = NoJob]
  BY <1>1, <1>2, <1>5, SendsFacts, OutboxGrows DEF EndpointEnds
<1>7. /\ \A d \in Conn : made[d] # NoJob => stage'[made[d]] = "stored"
      /\ \A d \in Conn : d # c => made[d] # made[c]
      /\ \A i \in Job : stage'[i] # "new" => socket'[i] \in Conn /\ form[i] = "async"
  BY <1>1, <1>2, <1>3, <1>4 DEF MadeIsStored, JobsHaveSockets
<1>8. CASE at' = [at EXCEPT ![c] = "submit"] /\ made' = [made EXCEPT ![c] = made[c]]
  <2>1. PICK k \in Job : k = made[c]
    BY <1>3
  <2>2. /\ at[c] # "off" /\ conn' = conn /\ updated' \subseteq Job /\ inbox' = inbox
        /\ socket' \in [Job -> Conn \cup {NoConn}] /\ made' = [made EXCEPT ![c] = k]
        /\ \A d \in Conn : d # c => k = NoJob \/ made[d] # k
        /\ \A d \in Conn : d # c /\ made[d] # NoJob => stage'[made[d]] = "stored"
        /\ k \in Job \cup {NoJob} /\ k # NoJob /\ stage'[k] = "stored"
        /\ outbox' \in [Conn -> Seq(Message)] /\ MessagesAreTrue' /\ UpdateComesLast'
        /\ \A i \in Job : stage'[i] # "new" => socket'[i] \in Conn /\ form[i] = "async"
        /\ at' = [at EXCEPT ![c] = "submit"]
    BY <1>2, <1>3, <1>4, <1>6, <1>7, <1>8, <2>1
  <2>. QED
    BY <2>2, EndpointStep
<1>9. CASE at' = [at EXCEPT ![c] = "ended"] /\ made' = [made EXCEPT ![c] = NoJob]
  BY <1>2, <1>3, <1>4, <1>6, <1>7, <1>9, EndpointStep
<1>. QED
  BY <1>6, <1>8, <1>9

LEMMA DisconnectsStep ==
  ASSUME ServerInv, JobsKeep, NEW c \in Conn, Disconnects(c)
  PROVE  ServerInv'
<1>1. /\ WsTypeOK /\ StatusMatchesStage /\ MadeIsStored /\ JobsHaveSockets
      /\ MessagesAreTrue /\ UpdateComesLast
  BY DEF ServerInv
<1>2. /\ at[c] = "receive" /\ at' = [at EXCEPT ![c] = "ended"] /\ made' = [made EXCEPT ![c] = NoJob]
      /\ UNCHANGED <<serviceVars, conn, inbox, outbox, form, socket, updated>>
  BY DEF Disconnects, EndpointEnds, wireVars
<1>3. /\ NoJob \notin Job /\ socket \in [Job -> Conn \cup {NoConn}] /\ updated \subseteq Job
      /\ outbox \in [Conn -> Seq(Message)]
  BY <1>1, ServerTypes
<1>4. MessagesAreTrue' /\ UpdateComesLast'
  <2>1. \A d \in Conn : SubOf(outbox'[d], outbox[d])
    BY <1>2, <1>3, SelfIsSub
  <2>. QED
    BY <1>1, <1>2, <1>3, <2>1, OutboxKeeps
<1>5. /\ \A d \in Conn : made[d] # NoJob => stage'[made[d]] = "stored"
      /\ \A i \in Job : stage'[i] # "new" => socket'[i] \in Conn /\ form[i] = "async"
  BY <1>1, <1>2 DEF MadeIsStored, JobsHaveSockets, serviceVars
<1>. QED
  BY <1>2, <1>3, <1>4, <1>5, EndpointStep

LEMMA HandsOverStep ==
  ASSUME ServerInv, JobsKeep, NEW c \in Conn, Submits(c) \/ IsRefused(c)
  PROVE  ServerInv'
<1>1. /\ WsTypeOK /\ StatusMatchesStage /\ MadeIsStored /\ JobsHaveSockets
      /\ MessagesAreTrue /\ UpdateComesLast
  BY DEF ServerInv
<1>. DEFINE j == made[c]
<1>2. /\ at[c] = "submit" /\ UNCHANGED <<conn, inbox, form, socket>>
      /\ Accept(j) \/ Reject(j)
  BY DEF Submits, IsRefused, wireVars
<1>3. /\ j \in Job /\ stage[j] = "stored" /\ NoJob \notin Job /\ Orphans = {}
      /\ socket \in [Job -> Conn \cup {NoConn}] /\ updated \subseteq Job
      /\ made \in [Conn -> Job \cup {NoJob}] /\ stage \in [Job -> Stage] /\ store \in [Job -> Status]
      /\ outbox \in [Conn -> Seq(Message)]
  BY <1>1, <1>2, ServerTypes DEF MadeIsStored
<1>. HIDE DEF j
<1>4. \A i \in Job : i # j => stage'[i] = stage[i]
  BY <1>2, <1>3 DEF Accept, Reject, Move
<1>5. /\ \A d \in Conn : d # c => made[d] # j
      /\ \A d \in Conn : d # c /\ made[d] # NoJob => stage'[made[d]] = "stored"
      /\ \A i \in Job : stage'[i] # "new" => socket'[i] \in Conn /\ form[i] = "async"
  BY <1>1, <1>2, <1>3, <1>4 DEF MadeIsStored, JobsHaveSockets, j
<1>6. CASE Submits(c)
  <2>1. /\ at' = [at EXCEPT ![c] = "receive"] /\ made' = [made EXCEPT ![c] = NoJob]
        /\ outbox' = outbox /\ updated' = updated
    BY <1>6 DEF Submits, wireVars
  <2>2. \A d \in Conn : SubOf(outbox'[d], outbox[d])
    BY <1>3, <2>1, SelfIsSub
  <2>3. MessagesAreTrue' /\ UpdateComesLast'
    BY <1>1, <1>3, <2>1, <2>2, OutboxKeeps
  <2>. QED
    BY <1>2, <1>3, <1>5, <2>1, <2>3, EndpointStep
<1>7. CASE IsRefused(c)
  <2>. DEFINE m == [type |-> "job_update", job |-> j, status |-> "failed"]
  <2>1. /\ Sends(c, m, "receive") /\ Reject(j) /\ updated' \in {updated, updated \cup {j}}
    BY <1>7 DEF IsRefused, Notes, j
  <2>2. stage'[j] = "rejected" /\ store'[j] = "failed"
    BY <1>3, <2>1 DEF Reject, Move
  <2>3. m \in Message /\ MaySend(m)
    BY <1>3, <2>2 DEF MaySend, TrueNext, Message, MessageType, Status, Outcome, Over
  <2>. HIDE DEF m
  <2>4. /\ outbox' \in [Conn -> Seq(Message)] /\ MessagesAreTrue' /\ UpdateComesLast'
        /\ \E p \in {"receive", "ended"} : at' = [at EXCEPT ![c] = p]
        /\ made' = [made EXCEPT ![c] = NoJob]
    BY <1>1, <2>1, <2>3, SendsFacts, OutboxGrows DEF EndpointEnds
  <2>5. updated' \subseteq Job
    BY <1>3, <2>1
  <2>6. PICK p \in {"receive", "ended"} : at' = [at EXCEPT ![c] = p]
    BY <2>4
  <2>. QED
    BY <1>2, <1>3, <1>5, <2>4, <2>5, <2>6, EndpointStep
<1>. QED
  BY <1>6, <1>7

LEMMA EndpointKeeps ==
  ASSUME ServerInv, JobsKeep, NEW c \in Conn, Endpoint(c)
  PROVE  ServerInv'
<1>1. WsTypeOK /\ StatusMatchesStage /\ JobsHaveSockets
  BY DEF ServerInv
<1>2. ASSUME NEW j \in Job, ExecutesSync(c, j) \/ RefusesRequest(c, j) \/ GetsJob(c, j)
      PROVE  ServerInv'
  <2>1. UNCHANGED <<serviceVars, form>> /\ store[j] \in Status
    BY <1>1, <1>2, ServerTypes DEF ExecutesSync, RefusesRequest, GetsJob, Replies
  <2>2. /\ form[j] = "sync" => MaySend(About("job_result", j))
        /\ store[j] = "absent" => MaySend(About("error", j))
        /\ store[j] # "absent" => MaySend([type |-> "job", job |-> j, status |-> store[j]])
        /\ MaySend(Plain("error"))
    BY <1>1, <2>1, AnswersMaySend
  <2>3. \E ask \in Ask : \E m : MaySend(m) /\ Replies(c, ask, j, m)
    BY <1>2, <2>2 DEF ExecutesSync, RefusesRequest, GetsJob, Ask
  <2>. QED
    BY <2>3, RepliesStep DEF MaySend
<1>3. CASE ListsJobs(c) \/ GetsQueueStatus(c)
  <2>1. UNCHANGED <<serviceVars, form>> /\ \E j : j \in Job
    BY <1>3, WsSystemAssumption DEF ListsJobs, GetsQueueStatus, Replies
  <2>2. MaySend(Plain("jobs")) /\ MaySend(Plain("queue_status"))
    BY <1>1, <2>1, AnswersMaySend
  <2>3. \E ask \in Ask : \E m : MaySend(m) /\ Replies(c, ask, NoJob, m)
    BY <1>3, <2>2 DEF ListsJobs, GetsQueueStatus, Ask
  <2>. QED
    BY <2>3, RepliesStep DEF MaySend
<1>. QED
  BY <1>2, <1>3, StoresJobStep, SendsCreatedStep, HandsOverStep, DisconnectsStep DEF Endpoint

LEMMA WorkersKeep ==
  ASSUME ServerInv, JobsKeep, NEW j \in Job, Workers(j)
  PROVE  ServerInv'
<1>1. /\ WsTypeOK /\ StatusMatchesStage /\ ConnectionsBegin /\ MadeIsStored
      /\ JobsHaveSockets /\ MessagesAreTrue /\ UpdateComesLast
  BY DEF ServerInv
<1>2. /\ conn' = conn /\ inbox' = inbox /\ form' = form /\ at' = at /\ made' = made /\ socket' = socket
      /\ stage[j] \notin {"new", "stored"} /\ stage \in [Job -> Stage]
      /\ \A i \in Job : i # j => stage'[i] = stage[i]
  BY <1>1, ServerTypes
  DEF Workers, WorkerClaims, WorkerBegins, WorkerFinishes, CallbackSends,
      Claim, Begin, Finish, Close, Move, wireVars, endpointVars
<1>3. ConnectionsBegin' /\ MadeIsStored' /\ JobsHaveSockets'
  <2>1. ConnectionsBegin' /\ JobsHaveSockets'
    BY <1>1, <1>2 DEF ConnectionsBegin, JobsHaveSockets
  <2>2. \A c \in Conn : made[c] # NoJob => made[c] \in Job /\ made[c] # j
    BY <1>1, <1>2, ServerTypes DEF MadeIsStored
  <2>3. MadeIsStored'
    BY <1>1, <1>2, <2>2 DEF MadeIsStored
  <2>. QED
    BY <2>1, <2>3
<1>4. CASE ~CallbackSends(j)
  <2>1. outbox' = outbox /\ updated' = updated
    BY <1>4 DEF Workers, WorkerClaims, WorkerBegins, WorkerFinishes, wireVars, endpointVars
  <2>2. \A c \in Conn : SubOf(outbox'[c], outbox[c])
    BY <1>1, <2>1, ServerTypes, SelfIsSub
  <2>3. MessagesAreTrue' /\ UpdateComesLast'
    BY <1>1, <2>1, <2>2, ServerTypes, OutboxKeeps
  <2>4. WsTypeOK'
    BY <1>1, <1>2, <2>1 DEF WsTypeOK, JobsKeep
  <2>. QED
    BY <1>3, <2>3, <2>4 DEF ServerInv, JobsKeep
<1>5. CASE CallbackSends(j)
  <2>. DEFINE m == [type |-> "job_update", job |-> j, status |-> store[j]]
              c == socket[j]
  <2>1. /\ stage[j] = "notifying" /\ stage' = [stage EXCEPT ![j] = "closed"] /\ store' = store
        /\ Push(c, m) /\ updated' \in {updated, updated \cup {j}}
    BY <1>5 DEF CallbackSends, Close, Move, Tells, Notes
  <2>2. c \in Conn /\ store[j] \in Status
    BY <1>1, <2>1, ServerTypes DEF JobsHaveSockets
  <2>3. m \in Message /\ MaySend(m)
    <3>1. stage'[j] = "closed"
      BY <1>2, <2>1
    <3>2. m \in Message
      BY <2>2 DEF Message, MessageType
    <3>3. TrueNext(m)
      BY <2>1, <3>1 DEF TrueNext
    <3>. QED
      BY <2>1, <3>2, <3>3 DEF MaySend, Over
  <2>. HIDE DEF m, c
  <2>4. outbox' \in [Conn -> Seq(Message)] /\ MessagesAreTrue' /\ UpdateComesLast'
    BY <1>1, <2>1, <2>2, <2>3, PushFacts, OutboxGrows
  <2>5. updated' \subseteq Job
    BY <1>1, <2>1, ServerTypes
  <2>6. WsTypeOK'
    BY <1>1, <1>2, <2>4, <2>5 DEF WsTypeOK, JobsKeep
  <2>. QED
    BY <1>3, <2>4, <2>6 DEF ServerInv, JobsKeep
<1>. QED
  BY <1>4, <1>5

-----------------------------------------------------------------------------
(* The calls of the UI keep theirs *)

LEMMA Calls ==
  /\ Conn = Ui \cup ApiConn /\ Ui \cap ApiConn = {} /\ NoConn \notin Conn /\ NoJob \notin Job
  /\ \A u \in Ui : Requests(u) \subseteq Job /\ IsFiniteSet(Requests(u))
  /\ \A u \in Ui : \A S \in SUBSET Requests(u) : IsFiniteSet(S) /\ Cardinality(S) \in Nat
<1>1. \A u \in Ui : Requests(u) \subseteq Job
  BY WsSystemAssumption DEF Ui, Requests
<1>2. IsFiniteSet(Job)
  BY ServiceAssumption
<1>3. \A u \in Ui : \A S \in SUBSET Requests(u) : IsFiniteSet(S) /\ Cardinality(S) \in Nat
  BY <1>1, <1>2, FS_Subset, FS_CardinalityType
<1>4. Conn = Ui \cup ApiConn /\ Ui \cap ApiConn = {}
  BY WsSystemAssumption DEF Ui
<1>. QED
  BY <1>1, <1>3, <1>4, WsAssumption

\* What u knows of the answers does not grow.
OutQuiet(u) ==
  \/ SubOf(outbox'[u], outbox[u])
  \/ outbox'[u] = <<Plain("init")>>
  \/ \E m \in Message \ AnswerMessages : outbox'[u] = Append(outbox[u], m)

LEMMA QuietAnswers ==
  ASSUME WsTypeOK, NEW u \in Conn, OnceIn(outbox[u], AnswerMessages),
         outbox' \in [Conn -> Seq(Message)], OutQuiet(u)
  PROVE  /\ OnceIn(outbox'[u], AnswerMessages)
         /\ JobsIn(outbox'[u], AnswerMessages) \subseteq JobsIn(outbox[u], AnswerMessages)
<1>1. outbox[u] \in Seq(Message) /\ outbox'[u] \in Seq(Message)
  BY ServerTypes
<1>2. CASE SubOf(outbox'[u], outbox[u])
  BY <1>1, <1>2, SubJobs
<1>3. CASE outbox'[u] = <<Plain("init")>>
  <2>1. /\ \A i \in DOMAIN outbox'[u] : outbox'[u][i] = Plain("init")
        /\ Plain("init") \notin AnswerMessages
    BY <1>3 DEF Plain, About, AnswerMessages
  <2>. QED
    BY <2>1 DEF OnceIn, JobsIn
<1>4. ASSUME NEW m \in Message \ AnswerMessages, outbox'[u] = Append(outbox[u], m)
      PROVE  /\ OnceIn(outbox'[u], AnswerMessages)
             /\ JobsIn(outbox'[u], AnswerMessages) \subseteq JobsIn(outbox[u], AnswerMessages)
  BY <1>1, <1>4, AppendJobs
<1>. QED
  BY <1>2, <1>3, <1>4 DEF OutQuiet

\* No request comes to a place where it was not.
LEMMA TraceShrinks ==
  ASSUME WsTypeOK, NEW u \in Conn, OneTrace(u),
         inbox' \in [Conn -> Seq(Request)], SubOf(inbox'[u], inbox[u]),
         Making(u)' \subseteq Making(u),
         outbox' \in [Conn -> Seq(Message)], OutQuiet(u),
         OnceIn(results'[u], Successes), JobsIn(results'[u], Successes) \subseteq Counted(u),
         sent[u] \subseteq sent'[u]
  PROVE  OneTrace(u)'
<1>1. inbox[u] \in Seq(Request) /\ inbox'[u] \in Seq(Request)
  BY ServerTypes
<1>2. /\ \A i \in DOMAIN inbox'[u] : inbox'[u][i].ask = "create_job"
      /\ OnceIn(inbox'[u], Request) /\ JobsIn(inbox'[u], Request) \subseteq Waiting(u)
  BY <1>1, SubJobs DEF OneTrace, Waiting
<1>3. /\ OnceIn(outbox'[u], AnswerMessages)
      /\ JobsIn(outbox'[u], AnswerMessages) \subseteq Answered(u)
  BY QuietAnswers DEF OneTrace, Answered
<1>4. Apart(Waiting(u)', Making(u)', Answered(u)', Counted(u)', sent'[u])
  <2>1. Apart(Waiting(u), Making(u), Answered(u), Counted(u), sent[u])
    BY DEF OneTrace
  <2>2. Waiting(u)' \subseteq Waiting(u) /\ Answered(u)' \subseteq Answered(u) /\ Counted(u)' \subseteq Counted(u)
    BY <1>2, <1>3 DEF Waiting, Answered, Counted
  <2>. QED
    BY <2>1, <2>2 DEF Apart
<1>. QED
  BY <1>2, <1>3, <1>4 DEF OneTrace

\* A request leaves the inbox, to be in the making or answered.
LEMMA TraceMoves ==
  ASSUME WsTypeOK, NEW u \in Conn, OneTrace(u), inbox[u] # <<>>, NEW j \in Job,
         Head(inbox[u]).job = j, inbox' = [inbox EXCEPT ![u] = Tail(inbox[u])],
         outbox' \in [Conn -> Seq(Message)],
         \/ Making(u)' \subseteq {j} /\ OutQuiet(u)
         \/ /\ Making(u)' = {}
            /\ \E m \in AnswerMessages : m.job = j /\ outbox'[u] = Append(outbox[u], m),
         results'[u] = results[u], sent'[u] = sent[u]
  PROVE  OneTrace(u)'
<1>1. inbox[u] \in Seq(Request) /\ inbox'[u] = Tail(inbox[u]) /\ outbox[u] \in Seq(Message)
  BY ServerTypes
<1>2. inbox'[u] \in Seq(Request) /\ SubOf(inbox'[u], inbox[u]) /\ Head(inbox[u]) \in Request
  BY <1>1, TailIsSub
<1>3. /\ \A i \in DOMAIN inbox'[u] : inbox'[u][i].ask = "create_job"
      /\ OnceIn(inbox'[u], Request) /\ JobsIn(inbox'[u], Request) \subseteq Waiting(u)
  <2>. DEFINE t == inbox'[u]
              q == inbox[u]
  <2>1. q \in Seq(Request) /\ t \in Seq(Request) /\ SubOf(t, q)
    BY <1>1, <1>2
  <2>2. (\A i \in DOMAIN q : q[i].ask = "create_job") /\ OnceIn(q, Request)
    BY DEF OneTrace
  <2>. HIDE DEF t, q
  <2>3. /\ \A i \in DOMAIN t : t[i].ask = "create_job"
        /\ OnceIn(t, Request) /\ JobsIn(t, Request) \subseteq JobsIn(q, Request)
    BY <2>1, <2>2, SubJobs
  <2>. QED
    BY <2>3 DEF Waiting, t, q
<1>4. j \in Waiting(u) /\ j \notin JobsIn(inbox'[u], Request)
  BY <1>1, <1>2, TailJobs DEF OneTrace, Waiting
<1>5. /\ Waiting(u)' \subseteq Waiting(u) \ {j} /\ Counted(u)' = Counted(u)
      /\ Apart(Waiting(u), Making(u), Answered(u), Counted(u), sent[u])
  BY <1>3, <1>4 DEF OneTrace, Waiting, Counted
<1>6. CASE Making(u)' \subseteq {j} /\ OutQuiet(u)
  <2>1. OnceIn(outbox'[u], AnswerMessages) /\ Answered(u)' \subseteq Answered(u)
    BY <1>6, QuietAnswers DEF OneTrace, Answered
  <2>2. Apart(Waiting(u)', Making(u)', Answered(u)', Counted(u)', sent'[u])
    BY <1>4, <1>5, <1>6, <2>1 DEF Apart
  <2>. QED
    BY <1>3, <2>1, <2>2 DEF OneTrace
<1>7. ASSUME Making(u)' = {}, NEW m \in AnswerMessages, m.job = j, outbox'[u] = Append(outbox[u], m)
      PROVE  OneTrace(u)'
  <2>1. m \in Message /\ j \notin Answered(u)
    BY <1>4, <1>5, <1>7 DEF AnswerMessages, Apart
  <2>2. OnceIn(outbox'[u], AnswerMessages) /\ Answered(u)' = Answered(u) \cup {j}
    BY <1>1, <1>7, <2>1, AppendJobs DEF OneTrace, Answered
  <2>3. Apart(Waiting(u)', Making(u)', Answered(u)', Counted(u)', sent'[u])
    BY <1>4, <1>5, <1>7, <2>2 DEF Apart
  <2>. QED
    BY <1>3, <2>2, <2>3 DEF OneTrace
<1>. QED
  BY <1>6, <1>7

LEMMA RealStays ==
  ASSUME StatusMatchesStage, JobsKeep, NEW j \in Job, form[j] = "async" => store[j] # "absent"
  PROVE  form'[j] = "async" => store'[j] # "absent"
<1>1. stage[j] = "new" <=> store[j] = "absent"
  BY StatusOf
<1>2. stage'[j] = "new" <=> store'[j] = "absent"
  BY WsAssumption DEF JobsKeep, StatusMatchesStage
<1>. QED
  BY <1>1, <1>2 DEF JobsKeep

\* The call is where it was, and nothing new has come for it.
LEMMA CallStays ==
  ASSUME StatusMatchesStage, JobsKeep, UiInv, NEW u \in Ui,
         sent'[u] = sent[u], results'[u] = results[u], uiPc'[u] = uiPc[u], OneTrace(u)'
  PROVE  UiOk(u)'
<1>1. Counts(u) /\ SuccessesAreReal(u) /\ OneTrace(u) /\ sent[u] \subseteq Job
  BY Calls DEF UiInv, UiOk, UiTypes
<1>2. Counts(u)'
  BY <1>1 DEF Counts, Requests
<1>3. Counted(u)' = Counted(u) /\ Counted(u) \subseteq Job
  BY <1>1 DEF Counted, OneTrace, Apart
<1>4. SuccessesAreReal(u)'
  BY <1>1, <1>3, RealStays DEF SuccessesAreReal
<1>. QED
  BY <1>2, <1>4 DEF UiOk

LEMMA UiQuiet ==
  ASSUME WsTypeOK, StatusMatchesStage, JobsKeep, UiInv, NEW u \in Ui,
         inbox' \in [Conn -> Seq(Request)], SubOf(inbox'[u], inbox[u]),
         outbox' \in [Conn -> Seq(Message)], OutQuiet(u), Making(u)' \subseteq Making(u),
         sent'[u] = sent[u], results'[u] = results[u], uiPc'[u] = uiPc[u]
  PROVE  UiOk(u)'
<1>1. OneTrace(u) /\ u \in Conn
  BY Calls DEF UiInv, UiOk
<1>2. OnceIn(results'[u], Successes) /\ JobsIn(results'[u], Successes) \subseteq Counted(u)
  BY <1>1 DEF OneTrace, Counted
<1>3. OneTrace(u)'
  BY <1>1, <1>2, TraceShrinks
<1>. QED
  BY <1>3, CallStays

LEMMA SameIsQuiet ==
  ASSUME WsTypeOK, NEW c \in Conn
  PROVE  /\ inbox'[c] = inbox[c] => SubOf(inbox'[c], inbox[c])
         /\ outbox'[c] = outbox[c] => OutQuiet(c)
         /\ at'[c] = at[c] /\ made'[c] = made[c] => Making(c)' \subseteq Making(c)
<1>1. inbox[c] \in Seq(Request) /\ outbox[c] \in Seq(Message)
  BY ServerTypes
<1>. QED
  BY <1>1, SelfIsSub DEF OutQuiet, Making

LEMMA EndpointIsLocal ==
  ASSUME ServerInv, NEW c \in Conn, Endpoint(c), NEW d \in Conn, d # c
  PROVE  inbox'[d] = inbox[d] /\ outbox'[d] = outbox[d] /\ at'[d] = at[d] /\ made'[d] = made[d]
<1>1. /\ inbox \in [Conn -> Seq(Request)] /\ outbox \in [Conn -> Seq(Message)] /\ made \in [Conn -> Job \cup {NoJob}]
      /\ at \in [Conn -> {"off", "receive", "created", "submit", "ended"}]
  BY ServerTypes DEF ServerInv
<1>2. ASSUME NEW m, NEW next, Sends(c, m, next)
      PROVE  outbox'[d] = outbox[d] /\ at'[d] = at[d] /\ made'[d] = made[d]
  BY <1>1, <1>2 DEF Sends, Push, EndpointEnds
<1>3. ASSUME NEW ask, NEW j, NEW m, Replies(c, ask, j, m)
      PROVE  inbox'[d] = inbox[d] /\ outbox'[d] = outbox[d] /\ at'[d] = at[d] /\ made'[d] = made[d]
  BY <1>1, <1>2, <1>3 DEF Replies, Receives
<1>4. CASE SendsCreated(c) \/ IsRefused(c)
  BY <1>2, <1>4 DEF SendsCreated, IsRefused
<1>5. CASE Submits(c) \/ Disconnects(c)
  BY <1>1, <1>5 DEF Submits, Disconnects, EndpointEnds, wireVars
<1>6. ASSUME NEW j \in Job, StoresJob(c, j)
      PROVE  inbox'[d] = inbox[d] /\ outbox'[d] = outbox[d] /\ at'[d] = at[d] /\ made'[d] = made[d]
  BY <1>1, <1>6 DEF StoresJob, Receives
<1>7. ASSUME NEW j \in Job, ExecutesSync(c, j) \/ RefusesRequest(c, j) \/ GetsJob(c, j)
      PROVE  inbox'[d] = inbox[d] /\ outbox'[d] = outbox[d] /\ at'[d] = at[d] /\ made'[d] = made[d]
  BY <1>3, <1>7 DEF ExecutesSync, RefusesRequest, GetsJob
<1>8. CASE ListsJobs(c) \/ GetsQueueStatus(c)
  BY <1>3, <1>8 DEF ListsJobs, GetsQueueStatus
<1>. QED
  BY <1>4, <1>5, <1>6, <1>7, <1>8 DEF Endpoint

\* The endpoint of a call's own connection: a request is moved on.
LEMMA OwnEndpoint ==
  ASSUME ServerInv, ServerInv', JobsKeep, UiInv, NEW u \in Ui, Endpoint(u), UNCHANGED uiVars
  PROVE  UiOk(u)'
<1>1. /\ WsTypeOK /\ StatusMatchesStage /\ WsTypeOK' /\ u \in Conn /\ OneTrace(u)
      /\ sent' = sent /\ results' = results /\ uiPc' = uiPc
  BY Calls DEF ServerInv, UiInv, UiOk, uiVars
<1>2. /\ inbox \in [Conn -> Seq(Request)] /\ outbox \in [Conn -> Seq(Message)]
      /\ inbox' \in [Conn -> Seq(Request)] /\ outbox' \in [Conn -> Seq(Message)]
      /\ at \in [Conn -> {"off", "receive", "created", "submit", "ended"}]
      /\ made \in [Conn -> Job \cup {NoJob}] /\ NoJob \notin Job
      /\ at[u] \in {"created", "submit"} => made[u] \in Job
  BY <1>1, ServerTypes DEF WsTypeOK
<1>3. ASSUME NEW ask, NEW j, Receives(u, ask, j)
      PROVE  /\ ask = "create_job" /\ inbox[u] # <<>> /\ Head(inbox[u]).job = j
             /\ inbox' = [inbox EXCEPT ![u] = Tail(inbox[u])]
  <2>1. /\ inbox[u] # <<>> /\ Head(inbox[u]) = [ask |-> ask, job |-> j]
        /\ inbox' = [inbox EXCEPT ![u] = Tail(inbox[u])]
    BY <1>3 DEF Receives
  <2>2. 1 \in DOMAIN inbox[u] /\ Head(inbox[u]) = inbox[u][1]
    BY <1>2, <2>1, TailIsSub
  <2>3. inbox[u][1].ask = "create_job"
    BY <1>1, <2>2 DEF OneTrace
  <2>. QED
    BY <2>1, <2>2, <2>3
<1>4. ASSUME NEW j \in Job, StoresJob(u, j)
      PROVE  UiOk(u)'
  <2>1. /\ Receives(u, "create_job", j) /\ outbox'[u] = outbox[u]
        /\ made' = [made EXCEPT ![u] = j]
    BY <1>4 DEF StoresJob
  <2>2. OutQuiet(u)
    BY <1>1, <2>1, SameIsQuiet
  <2>3. Making(u)' \subseteq {j}
    BY <1>1, <1>2, <2>1 DEF Making
  <2>4. OneTrace(u)'
    BY <1>1, <1>2, <1>3, <2>1, <2>2, <2>3, TraceMoves
  <2>. QED
    BY <1>1, <2>4, CallStays
<1>5. CASE SendsCreated(u)
  <2>. DEFINE j == made[u]
              m == About("job_created", j)
  <2>1. /\ at[u] = "created" /\ Sends(u, m, "submit") /\ inbox' = inbox
    BY <1>5 DEF SendsCreated
  <2>2. m \in AnswerMessages /\ m \in Message /\ m.job = j /\ j \in Job
    BY <1>2, <2>1 DEF AnswerMessages, About, Message, MessageType, Status
  <2>. HIDE DEF m
  <2>3. /\ outbox'[u] = outbox[u] \/ outbox'[u] = Append(outbox[u], m)
        /\ at'[u] # "created"
    BY <1>1, <1>2, <2>1, <2>2, SendsFacts DEF EndpointEnds
  <2>4. Making(u)' = {} /\ Making(u) = {j}
    BY <2>1, <2>3 DEF Making
  <2>5. CASE outbox'[u] = outbox[u]
    BY <1>1, <1>2, <2>1, <2>4, <2>5, SameIsQuiet, UiQuiet
  <2>6. CASE outbox'[u] = Append(outbox[u], m)
    <3>1. j \notin Answered(u)
      BY <1>1, <2>4 DEF OneTrace, Apart
    <3>2. OnceIn(outbox'[u], AnswerMessages) /\ Answered(u)' = Answered(u) \cup {j}
      BY <1>1, <1>2, <2>2, <2>6, <3>1, AppendJobs DEF OneTrace, Answered
    <3>3. Waiting(u)' = Waiting(u) /\ Counted(u)' = Counted(u)
      BY <1>1, <2>1 DEF Waiting, Counted
    <3>4. Apart(Waiting(u)', Making(u)', Answered(u)', Counted(u)', sent'[u])
      BY <1>1, <2>4, <3>2, <3>3 DEF OneTrace, Apart
    <3>5. OneTrace(u)'
      BY <1>1, <2>1, <3>2, <3>4 DEF OneTrace
    <3>. QED
      BY <1>1, <3>5, CallStays
  <2>. QED
    BY <2>3, <2>5, <2>6
<1>6. CASE Submits(u) \/ IsRefused(u) \/ Disconnects(u)
  <2>1. inbox'[u] = inbox[u] /\ at'[u] # "created"
    <3>1. CASE Submits(u) \/ Disconnects(u)
      BY <1>2, <3>1 DEF Submits, Disconnects, EndpointEnds, wireVars
    <3>2. CASE IsRefused(u)
      BY <1>2, <3>2 DEF IsRefused, Sends, EndpointEnds
    <3>. QED
      BY <1>6, <3>1, <3>2
  <2>2. Making(u)' = {}
    BY <2>1 DEF Making
  <2>3. OutQuiet(u)
    <3>1. CASE Submits(u) \/ Disconnects(u)
      <4>1. outbox'[u] = outbox[u]
        BY <3>1 DEF Submits, Disconnects, wireVars
      <4>. QED
        BY <1>1, <4>1, SameIsQuiet
    <3>2. CASE IsRefused(u)
      <4>. DEFINE m == [type |-> "job_update", job |-> made[u], status |-> "failed"]
      <4>1. m \in Message \ AnswerMessages /\ Sends(u, m, "receive")
        BY <1>2, <3>2 DEF IsRefused, Message, MessageType, Status, AnswerMessages
      <4>. HIDE DEF m
      <4>2. outbox'[u] = outbox[u] \/ outbox'[u] = Append(outbox[u], m)
        BY <1>1, <4>1, SendsFacts
      <4>. QED
        BY <1>1, <4>1, <4>2, SameIsQuiet DEF OutQuiet
    <3>. QED
      BY <1>6, <3>1, <3>2
  <2>4. SubOf(inbox'[u], inbox[u])
    BY <1>1, <2>1, SameIsQuiet
  <2>. QED
    BY <1>1, <1>2, <2>2, <2>3, <2>4, UiQuiet
<1>7. ASSUME NEW j \in Job, ExecutesSync(u, j) \/ RefusesRequest(u, j)
      PROVE  UiOk(u)'
  <2>. DEFINE m == IF form[j] = "sync" THEN About("job_result", j) ELSE Plain("error")
  <2>1. Receives(u, "create_job", j) /\ Sends(u, m, "receive")
    BY <1>7 DEF ExecutesSync, RefusesRequest, Replies
  <2>2. /\ m \in Message /\ m.job \in {j, NoJob}
        /\ m \in AnswerMessages => m.job = j
    BY DEF About, Plain, Message, MessageType, Status, AnswerMessages
  <2>. HIDE DEF m
  <2>3. outbox'[u] = outbox[u] \/ outbox'[u] = Append(outbox[u], m)
    BY <1>1, <2>1, <2>2, SendsFacts
  <2>4. at'[u] # "created"
    <3>1. at' = [at EXCEPT ![u] = "receive"] \/ at' = [at EXCEPT ![u] = "ended"]
      BY <2>1 DEF Sends, EndpointEnds
    <3>. QED
      BY <1>1, <1>2, <3>1
  <2>5. Making(u)' = {}
    BY <2>4 DEF Making
  <2>6. OutQuiet(u) \/ (m \in AnswerMessages /\ m.job = j /\ outbox'[u] = Append(outbox[u], m))
    BY <1>1, <2>2, <2>3, SameIsQuiet DEF OutQuiet
  <2>7. OneTrace(u)'
    BY <1>1, <1>2, <1>3, <2>1, <2>5, <2>6, TraceMoves
  <2>. QED
    BY <1>1, <2>7, CallStays
<1>8. /\ \A j \in Job : ~GetsJob(u, j)
      /\ ~ListsJobs(u) /\ ~GetsQueueStatus(u)
  BY <1>3 DEF GetsJob, ListsJobs, GetsQueueStatus, Replies
<1>. QED
  BY <1>4, <1>5, <1>6, <1>7, <1>8 DEF Endpoint

LEMMA BreakFacts ==
  ASSUME WsTypeOK, NEW c \in Conn, Break(c)
  PROVE  /\ inbox' \in [Conn -> Seq(Request)] /\ outbox' \in [Conn -> Seq(Message)]
         /\ \A d \in Conn : SubOf(inbox'[d], inbox[d]) /\ SubOf(outbox'[d], outbox[d])
         /\ \A d \in Conn : d # c => inbox'[d] = inbox[d]
<1>1. inbox \in [Conn -> Seq(Request)] /\ outbox \in [Conn -> Seq(Message)]
  BY ServerTypes
<1>2. PICK n \in 0..Len(inbox[c]) : inbox' = [inbox EXCEPT ![c] = SubSeq(@, 1, n)]
  BY DEF Break
<1>3. PICK m \in 0..Len(outbox[c]) : outbox' = [outbox EXCEPT ![c] = SubSeq(@, 1, m)]
  BY DEF Break
<1>4. /\ SubSeq(inbox[c], 1, n) \in Seq(Request) /\ SubOf(SubSeq(inbox[c], 1, n), inbox[c])
      /\ SubSeq(outbox[c], 1, m) \in Seq(Message) /\ SubOf(SubSeq(outbox[c], 1, m), outbox[c])
  BY <1>1, PrefixIsSub
<1>5. \A d \in Conn : SubOf(inbox[d], inbox[d]) /\ SubOf(outbox[d], outbox[d])
  BY <1>1, SelfIsSub
<1>. QED
  BY <1>1, <1>2, <1>3, <1>4, <1>5

LEMMA BreakStep ==
  ASSUME ServerInv, NEW c \in Conn, Break(c)
  PROVE  ServerInv' /\ JobsKeep
<1>1. /\ conn[c] \in {"open", "deaf"} /\ conn' = [conn EXCEPT ![c] = "broken"]
      /\ conn \in [Conn -> {"none", "open", "deaf", "broken"}]
      /\ UNCHANGED <<serviceVars, endpointVars>>
  BY ServerTypes DEF Break, ServerInv
<1>2. /\ inbox' \in [Conn -> Seq(Request)] /\ outbox' \in [Conn -> Seq(Message)]
      /\ \A d \in Conn : SubOf(inbox'[d], inbox[d]) /\ SubOf(outbox'[d], outbox[d])
      /\ \A d \in Conn : d # c => inbox'[d] = inbox[d]
  BY BreakFacts DEF ServerInv
<1>3. conn' \in [Conn -> {"none", "open", "deaf", "broken"}]
  BY <1>1
<1>4. \A d \in Conn : conn'[d] = "none" => conn[d] = "none" /\ inbox'[d] = inbox[d]
  BY <1>1, <1>2
<1>. QED
  BY <1>1, <1>2, <1>3, <1>4, WireStep

\* What workers do on the wire: nothing, or a job_update that is no answer.
LEMMA WorkersOnWire ==
  ASSUME ServerInv, NEW j \in Job, Workers(j)
  PROVE  /\ conn' = conn /\ inbox' = inbox /\ at' = at /\ made' = made
         /\ \A c \in Conn : \/ outbox'[c] = outbox[c]
                            \/ \E m \in Message : m.type = "job_update" /\ outbox'[c] = Append(outbox[c], m)
<1>1. conn' = conn /\ inbox' = inbox /\ at' = at /\ made' = made
  BY DEF Workers, WorkerClaims, WorkerBegins, WorkerFinishes, CallbackSends, wireVars, endpointVars
<1>2. CASE ~CallbackSends(j)
  <2>1. outbox' = outbox
    BY <1>2 DEF Workers, WorkerClaims, WorkerBegins, WorkerFinishes, wireVars
  <2>. QED
    BY <1>1, <2>1
<1>3. CASE CallbackSends(j)
  <2>. DEFINE m == [type |-> "job_update", job |-> j, status |-> store[j]]
  <2>1. Push(socket[j], m) /\ stage[j] = "notifying"
    BY <1>3 DEF CallbackSends, Close, Tells
  <2>2. socket[j] \in Conn /\ m \in Message /\ m.type = "job_update"
    BY <2>1, ServerTypes DEF ServerInv, JobsHaveSockets, Message, MessageType
  <2>. HIDE DEF m
  <2>3. \A c \in Conn : outbox'[c] = outbox[c] \/ outbox'[c] = Append(outbox[c], m)
    BY <2>1, <2>2, PushFacts DEF ServerInv
  <2>. QED
    BY <1>1, <2>2, <2>3
<1>. QED
  BY <1>2, <1>3

LEMMA ServesKeepsUi ==
  ASSUME ServerInv, ServerInv', JobsKeep, UiInv, UNCHANGED uiVars,
         \/ \E c \in Conn : Endpoint(c) \/ Break(c)
         \/ \E j \in Job : Workers(j)
  PROVE  UiInv'
<1>1. /\ WsTypeOK /\ StatusMatchesStage /\ Ui \subseteq Conn
      /\ sent' = sent /\ results' = results /\ uiPc' = uiPc
      /\ inbox' \in [Conn -> Seq(Request)] /\ outbox' \in [Conn -> Seq(Message)]
  BY Calls DEF ServerInv, WsTypeOK, uiVars
<1>2. ASSUME NEW c \in Conn, Endpoint(c), NEW u \in Ui
      PROVE  UiOk(u)'
  <2>1. CASE c = u
    BY <1>2, <2>1, OwnEndpoint
  <2>2. CASE c # u
    <3>1. inbox'[u] = inbox[u] /\ outbox'[u] = outbox[u] /\ at'[u] = at[u] /\ made'[u] = made[u]
      BY <1>1, <1>2, <2>2, EndpointIsLocal
    <3>2. SubOf(inbox'[u], inbox[u]) /\ OutQuiet(u) /\ Making(u)' \subseteq Making(u)
      BY <1>1, <3>1, SameIsQuiet
    <3>. QED
      BY <1>1, <3>2, UiQuiet
  <2>. QED
    BY <2>1, <2>2
<1>3. ASSUME NEW c \in Conn, Break(c), NEW u \in Ui
      PROVE  UiOk(u)'
  <2>1. SubOf(inbox'[u], inbox[u]) /\ OutQuiet(u)
    BY <1>1, <1>3, BreakFacts DEF OutQuiet
  <2>2. Making(u)' \subseteq Making(u)
    BY <1>3 DEF Break, endpointVars, Making
  <2>. QED
    BY <1>1, <2>1, <2>2, UiQuiet
<1>4. ASSUME NEW j \in Job, Workers(j), NEW u \in Ui
      PROVE  UiOk(u)'
  <2>1. /\ inbox' = inbox /\ at' = at /\ made' = made
        /\ \/ outbox'[u] = outbox[u]
           \/ \E m \in Message : m.type = "job_update" /\ outbox'[u] = Append(outbox[u], m)
    BY <1>1, <1>4, WorkersOnWire
  <2>2. OutQuiet(u)
    BY <1>1, <2>1, SameIsQuiet DEF OutQuiet, AnswerMessages
  <2>3. SubOf(inbox'[u], inbox[u]) /\ Making(u)' \subseteq Making(u)
    BY <1>1, <2>1, SameIsQuiet
  <2>. QED
    BY <1>1, <2>2, <2>3, UiQuiet
<1>5. UiTypes'
  BY <1>1 DEF UiInv, UiTypes, Requests
<1>. QED
  BY <1>2, <1>3, <1>4, <1>5 DEF UiInv

\* A step that does not touch the server.
LEMMA StutterStep ==
  ASSUME ServerInv, UNCHANGED wsVars
  PROVE  ServerInv' /\ JobsKeep
<1>1. UNCHANGED <<serviceVars, endpointVars>> /\ conn' = conn /\ inbox' = inbox /\ outbox' = outbox
  BY DEF wsVars, wireVars
<1>2. /\ conn \in [Conn -> {"none", "open", "deaf", "broken"}]
      /\ inbox \in [Conn -> Seq(Request)] /\ outbox \in [Conn -> Seq(Message)]
  BY ServerTypes DEF ServerInv
<1>3. \A c \in Conn : SubOf(outbox'[c], outbox[c])
  BY <1>1, <1>2, SelfIsSub
<1>. QED
  BY <1>1, <1>2, <1>3, WireStep

LEMMA RecordsConn ==
  ASSUME NEW u, NEW r, UiRecords(u, r)
  PROVE  conn' = conn \/ conn' = [conn EXCEPT ![u] = "broken"]
BY DEF UiRecords

LEMMA UiCallOnWire ==
  ASSUME ServerInv, NEW u \in Ui, UiCall(u)
  PROVE  ServerInv' /\ JobsKeep
<1>1. /\ conn \in [Conn -> {"none", "open", "deaf", "broken"}]
      /\ inbox \in [Conn -> Seq(Request)] /\ outbox \in [Conn -> Seq(Message)]
      /\ u \in Conn
  BY ServerTypes, Calls DEF ServerInv
<1>2. \A c \in Conn : SubOf(outbox[c], outbox[c])
  BY <1>1, SelfIsSub
<1>3. outbox[u] # <<>> => Tail(outbox[u]) \in Seq(Message) /\ SubOf(Tail(outbox[u]), outbox[u])
  BY <1>1, TailIsSub
<1>4. CASE UiConnects(u)
  BY <1>1, <1>4, OpenStep DEF UiConnects
<1>5. CASE UiCannotConnect(u) \/ UiLosesInit(u)
  BY <1>5, StutterStep DEF UiCannotConnect, UiLosesInit
<1>6. CASE UiTakesInit(u)
  <2>1. /\ UNCHANGED <<serviceVars, endpointVars>> /\ conn' = conn /\ inbox' = inbox
        /\ outbox' = outbox \/ (outbox[u] # <<>> /\ outbox' = [outbox EXCEPT ![u] = Tail(outbox[u])])
    BY <1>6 DEF UiTakesInit
  <2>2. outbox' \in [Conn -> Seq(Message)] /\ \A c \in Conn : SubOf(outbox'[c], outbox[c])
    BY <1>1, <1>2, <1>3, <2>1
  <2>. QED
    BY <1>1, <2>1, <2>2, WireStep
<1>7. CASE UiReads(u)
  <2>1. /\ UNCHANGED <<serviceVars, endpointVars>> /\ inbox' = inbox
        /\ outbox[u] # <<>> /\ outbox' = [outbox EXCEPT ![u] = Tail(outbox[u])]
        /\ conn' = conn \/ conn' = [conn EXCEPT ![u] = "broken"]
    BY <1>7, RecordsConn DEF UiReads
  <2>2. outbox' \in [Conn -> Seq(Message)] /\ \A c \in Conn : SubOf(outbox'[c], outbox[c])
    BY <1>1, <1>2, <1>3, <2>1
  <2>3. /\ conn' \in [Conn -> {"none", "open", "deaf", "broken"}]
        /\ \A c \in Conn : conn'[c] = "none" => conn[c] = "none"
    BY <1>1, <2>1
  <2>. QED
    BY <1>1, <2>1, <2>2, <2>3, WireStep
<1>8. CASE UiGivesUp(u)
  <2>1. /\ UNCHANGED <<serviceVars, endpointVars>> /\ inbox' = inbox /\ outbox' = outbox
        /\ conn' = conn \/ conn' = [conn EXCEPT ![u] = "broken"]
    BY <1>8, RecordsConn DEF UiGivesUp
  <2>2. /\ conn' \in [Conn -> {"none", "open", "deaf", "broken"}]
        /\ \A c \in Conn : conn'[c] = "none" => conn[c] = "none"
    BY <1>1, <2>1
  <2>3. outbox' \in [Conn -> Seq(Message)] /\ \A c \in Conn : SubOf(outbox'[c], outbox[c])
    BY <1>1, <1>2, <2>1
  <2>. QED
    BY <1>1, <2>1, <2>2, <2>3, WireStep
<1>9. CASE UiSends(u)
  <2>1. PICK j \in Requests(u) \ sent[u] :
              /\ \/ /\ inbox' = IF conn[u] = "open"
                                THEN [inbox EXCEPT ![u] = Append(@, [ask |-> "create_job", job |-> j])]
                                ELSE inbox
                    /\ UNCHANGED conn
                 \/ /\ conn[u] = "broken" /\ UiRecords(u, Failure) /\ UNCHANGED inbox
              /\ UNCHANGED <<serviceVars, outbox, endpointVars>>
    BY <1>9 DEF UiSends
  <2>2. outbox' \in [Conn -> Seq(Message)] /\ \A c \in Conn : SubOf(outbox'[c], outbox[c])
    BY <1>1, <1>2, <2>1
  <2>3. [ask |-> "create_job", job |-> j] \in Request
    BY Calls DEF Request, Ask
  <2>4. Append(inbox[u], [ask |-> "create_job", job |-> j]) \in Seq(Request)
    BY <1>1, <2>3
  <2>5. inbox' \in [Conn -> Seq(Request)]
    BY <1>1, <2>1, <2>4
  <2>6. conn' = conn \/ (conn' = [conn EXCEPT ![u] = "broken"] /\ inbox' = inbox)
    BY <2>1, RecordsConn
  <2>7. conn' \in [Conn -> {"none", "open", "deaf", "broken"}]
    BY <1>1, <2>6
  <2>8. \A c \in Conn : conn'[c] = "none" => conn[c] = "none" /\ inbox'[c] = inbox[c]
    BY <1>1, <2>1, <2>6
  <2>. QED
    BY <2>1, <2>2, <2>5, <2>7, <2>8, WireStep
<1>. QED
  BY <1>4, <1>5, <1>6, <1>7, <1>8, <1>9 DEF UiCall

\* One result more: the count is right again.
LEMMA RecordsCount ==
  ASSUME UiTypes, NEW u \in Ui, NEW r \in UiResult, UiRecords(u, r),
         sent'[u] \subseteq Requests(u), Len(results[u]) + 1 = Cardinality(sent'[u])
  PROVE  /\ Counts(u)' /\ results' = [results EXCEPT ![u] = Append(results[u], r)]
         /\ \E p \in {"send", "done"} : uiPc' = [uiPc EXCEPT ![u] = p]
<1>1. results \in [Ui -> Seq(UiResult)] /\ uiPc \in [Ui -> {"idle", "init", "send", "wait", "done"}]
  BY DEF UiTypes
<1>2. /\ results' = [results EXCEPT ![u] = Append(results[u], r)]
      /\ \/ sent'[u] # Requests(u) /\ uiPc' = [uiPc EXCEPT ![u] = "send"]
         \/ sent'[u] = Requests(u) /\ uiPc' = [uiPc EXCEPT ![u] = "done"]
  BY DEF UiRecords, UiEnter
<1>3. results[u] \in Seq(UiResult)
  BY <1>1
<1>4. results'[u] = Append(results[u], r)
  BY <1>1, <1>2
<1>5. Len(results'[u]) = Len(results[u]) + 1
  BY <1>3, <1>4
<1>6. Counts(u)'
  BY <1>1, <1>2, <1>5 DEF Counts, Requests
<1>. QED
  BY <1>2, <1>6

\* Failures for all that is left.
LEMMA FailsRestCount ==
  ASSUME UiTypes, NEW u \in Ui, UiFailsRest(u), results[u] = <<>>
  PROVE  /\ Counts(u)' /\ sent' = sent /\ uiPc' = [uiPc EXCEPT ![u] = "done"]
         /\ results' \in [Ui -> Seq(UiResult)]
         /\ \A v \in Ui : v # u => results'[v] = results[v]
         /\ OnceIn(results'[u], Successes) /\ JobsIn(results'[u], Successes) = {}
<1>. DEFINE n == Cardinality(Requests(u))
            t == [i \in 1..n |-> Failure]
<1>1. results \in [Ui -> Seq(UiResult)] /\ uiPc \in [Ui -> {"idle", "init", "send", "wait", "done"}]
  BY DEF UiTypes
<1>2. n \in Nat
  BY Calls
<1>3. Failure \in UiResult /\ Failure \notin Successes
  BY DEF Failure, UiResult, Successes
<1>4. results' = [results EXCEPT ![u] = <<>> \o t] /\ sent' = sent /\ uiPc' = [uiPc EXCEPT ![u] = "done"]
  <2>1. results' = [results EXCEPT ![u] = results[u] \o [i \in 1..(n - Len(results[u])) |-> Failure]]
    BY DEF UiFailsRest
  <2>2. n - Len(results[u]) = n
    BY <1>2
  <2>. QED
    BY <2>1, <2>2 DEF UiFailsRest, UiEnter
<1>. HIDE DEF n
<1>5. t \in Seq(UiResult) /\ Len(t) = n /\ <<>> \o t = t /\ \A i \in DOMAIN t : t[i] \notin Successes
  BY <1>2, <1>3
<1>. HIDE DEF t
<1>6. results' \in [Ui -> Seq(UiResult)] /\ results'[u] = t
  BY <1>1, <1>4, <1>5
<1>7. Counts(u)'
  BY <1>1, <1>4, <1>5, <1>6 DEF Counts, Requests, n
<1>8. OnceIn(t, Successes) /\ JobsIn(t, Successes) = {}
  BY <1>5 DEF OnceIn, JobsIn
<1>. QED
  BY <1>1, <1>4, <1>6, <1>7, <1>8

\* The steps of a call, as far as its own requests and results go.
LEMMA CallBegins ==
  ASSUME ServerInv, ServerInv', JobsKeep, UiInv, NEW u \in Ui,
         UiConnects(u) \/ UiCannotConnect(u) \/ UiTakesInit(u) \/ UiLosesInit(u)
  PROVE  UiOk(u)' /\ UiTypes'
<1>1. /\ WsTypeOK /\ StatusMatchesStage /\ u \in Conn /\ UiTypes
      /\ OneTrace(u) /\ SuccessesAreReal(u) /\ uiPc[u] \in {"idle", "init"}
      /\ sent[u] = {} /\ results[u] = <<>>
      /\ inbox' \in [Conn -> Seq(Request)] /\ outbox' \in [Conn -> Seq(Message)]
  BY Calls DEF ServerInv, WsTypeOK, UiInv, UiOk, Counts, UiConnects, UiCannotConnect, UiTakesInit, UiLosesInit
<1>2. /\ results \in [Ui -> Seq(UiResult)] /\ uiPc \in [Ui -> {"idle", "init", "send", "wait", "done"}]
      /\ outbox \in [Conn -> Seq(Message)] /\ at \in [Conn -> {"off", "receive", "created", "submit", "ended"}]
  BY <1>1, ServerTypes DEF UiTypes
<1>3. inbox' = inbox /\ SubOf(inbox'[u], inbox[u])
  <2>1. inbox' = inbox
    BY DEF UiConnects, UiCannotConnect, UiTakesInit, UiLosesInit, Open, wsVars, wireVars
  <2>. QED
    BY <1>1, <2>1, SameIsQuiet
<1>4. CASE UiConnects(u) \/ UiTakesInit(u)
  <2>1. \E p \in {"init", "send"} : uiPc' = [uiPc EXCEPT ![u] = p]
    BY <1>4 DEF UiConnects, UiTakesInit, UiEnter
  <2>2. sent' = sent /\ results' = results
    BY <1>4 DEF UiConnects, UiTakesInit
  <2>3. Counts(u)'
    <3>1. Requests(u) # {}
      BY WsSystemAssumption DEF Requests, Ui
    <3>2. Cardinality({}) = 0 /\ Len(<<>>) = 0
      BY FS_EmptySet
    <3>. QED
      BY <1>1, <1>2, <2>1, <2>2, <3>1, <3>2 DEF Counts, Requests
  <2>4. OutQuiet(u)
    <3>1. CASE UiConnects(u)
      BY <1>1, <1>2, <3>1 DEF UiConnects, Open, OutQuiet
    <3>2. CASE UiTakesInit(u)
      <4>1. outbox'[u] = outbox[u] \/ (outbox[u] # <<>> /\ outbox'[u] = Tail(outbox[u]))
        BY <1>1, <1>2, <3>2 DEF UiTakesInit
      <4>2. outbox[u] \in Seq(Message)
        BY <1>1, <1>2
      <4>. QED
        BY <4>1, <4>2, TailIsSub, SelfIsSub DEF OutQuiet
    <3>. QED
      BY <1>4, <3>1, <3>2
  <2>5. Making(u)' \subseteq Making(u)
    BY <1>1, <1>2, <1>4 DEF UiConnects, UiTakesInit, Open, endpointVars, Making
  <2>6. OneTrace(u)'
    <3>1. OnceIn(results'[u], Successes) /\ JobsIn(results'[u], Successes) \subseteq Counted(u)
      BY <1>1, <2>2 DEF OneTrace, Counted
    <3>. QED
      BY <1>1, <1>3, <2>2, <2>4, <2>5, <3>1, TraceShrinks
  <2>7. SuccessesAreReal(u)'
    BY <1>1, <2>2 DEF SuccessesAreReal, Counted, JobsIn
  <2>8. UiTypes'
    BY <1>1, <1>2, <2>1, <2>2 DEF UiTypes, Requests
  <2>. QED
    BY <2>3, <2>6, <2>7, <2>8 DEF UiOk
<1>5. CASE UiCannotConnect(u) \/ UiLosesInit(u)
  <2>1. UiFailsRest(u) /\ outbox' = outbox /\ at' = at /\ made' = made
    BY <1>5 DEF UiCannotConnect, UiLosesInit, wsVars, wireVars, endpointVars
  <2>2. /\ Counts(u)' /\ sent' = sent /\ uiPc' = [uiPc EXCEPT ![u] = "done"]
        /\ results' \in [Ui -> Seq(UiResult)]
        /\ OnceIn(results'[u], Successes) /\ JobsIn(results'[u], Successes) = {}
    BY <1>1, <2>1, FailsRestCount
  <2>3. OutQuiet(u) /\ Making(u)' \subseteq Making(u)
    BY <1>1, <2>1, SameIsQuiet
  <2>4. OneTrace(u)'
    BY <1>1, <1>3, <2>2, <2>3, TraceShrinks
  <2>5. SuccessesAreReal(u)'
    BY <2>2 DEF SuccessesAreReal, Counted
  <2>6. UiTypes'
    BY <1>1, <1>2, <2>2 DEF UiTypes, Requests
  <2>. QED
    BY <2>2, <2>4, <2>5, <2>6 DEF UiOk
<1>. QED
  BY <1>4, <1>5

\* A failure is recorded: the requests stay where they are, or disappear.
LEMMA FailureStep ==
  ASSUME ServerInv, JobsKeep, UiInv, NEW u \in Ui, UiRecords(u, Failure),
         inbox' = inbox, at' = at, made' = made,
         outbox' \in [Conn -> Seq(Message)], OutQuiet(u),
         sent' \in [Ui -> SUBSET Job], sent[u] \subseteq sent'[u],
         \A v \in Ui : sent'[v] \subseteq Requests(v),
         Len(results[u]) + 1 = Cardinality(sent'[u])
  PROVE  UiOk(u)' /\ UiTypes'
<1>1. /\ WsTypeOK /\ StatusMatchesStage /\ u \in Conn /\ UiTypes
      /\ OneTrace(u) /\ SuccessesAreReal(u) /\ inbox \in [Conn -> Seq(Request)]
      /\ results \in [Ui -> Seq(UiResult)] /\ uiPc \in [Ui -> {"idle", "init", "send", "wait", "done"}]
      /\ sent[u] \subseteq Job
  BY Calls DEF ServerInv, WsTypeOK, UiInv, UiOk, UiTypes
<1>2. Failure \in UiResult /\ Failure \notin Successes
  BY DEF Failure, UiResult, Successes
<1>3. /\ Counts(u)' /\ results' = [results EXCEPT ![u] = Append(results[u], Failure)]
      /\ \E p \in {"send", "done"} : uiPc' = [uiPc EXCEPT ![u] = p]
  BY <1>1, <1>2, RecordsCount
<1>4. results[u] \in Seq(UiResult) /\ results'[u] = Append(results[u], Failure)
  BY <1>1, <1>3
<1>5. OnceIn(results'[u], Successes) /\ JobsIn(results'[u], Successes) = Counted(u)
  BY <1>1, <1>2, <1>4, AppendJobs DEF OneTrace, Counted
<1>6. SubOf(inbox'[u], inbox[u]) /\ Making(u)' \subseteq Making(u)
  BY <1>1, SameIsQuiet
<1>7. OneTrace(u)'
  BY <1>1, <1>5, <1>6, TraceShrinks
<1>8. SuccessesAreReal(u)'
  <2>1. Counted(u)' = Counted(u)
    BY <1>5 DEF Counted
  <2>2. Counted(u) \subseteq Job
    BY <1>1 DEF OneTrace, Apart
  <2>. QED
    BY <1>1, <2>1, <2>2, RealStays DEF SuccessesAreReal
<1>9. UiTypes'
  <2>1. Append(results[u], Failure) \in Seq(UiResult)
    BY <1>2, <1>4
  <2>. QED
    BY <1>1, <1>3, <2>1 DEF UiTypes, Requests
<1>. QED
  BY <1>3, <1>7, <1>8, <1>9 DEF UiOk

LEMMA CallSends ==
  ASSUME ServerInv, ServerInv', JobsKeep, UiInv, NEW u \in Ui, UiSends(u)
  PROVE  UiOk(u)' /\ UiTypes'
<1>1. /\ WsTypeOK /\ StatusMatchesStage /\ u \in Conn /\ UiTypes
      /\ OneTrace(u) /\ SuccessesAreReal(u) /\ inbox \in [Conn -> Seq(Request)]
      /\ results \in [Ui -> Seq(UiResult)] /\ uiPc \in [Ui -> {"idle", "init", "send", "wait", "done"}]
      /\ sent \in [Ui -> SUBSET Job] /\ sent[u] \subseteq Requests(u)
      /\ outbox \in [Conn -> Seq(Message)] /\ inbox' \in [Conn -> Seq(Request)]
  BY Calls DEF ServerInv, WsTypeOK, UiInv, UiOk, UiTypes
<1>2. PICK j \in Requests(u) \ sent[u] :
            /\ uiPc[u] = "send" /\ sent' = [sent EXCEPT ![u] = @ \cup {j}]
            /\ \/ /\ inbox' = IF conn[u] = "open"
                              THEN [inbox EXCEPT ![u] = Append(@, [ask |-> "create_job", job |-> j])]
                              ELSE inbox
                  /\ UiEnter(u, "wait") /\ results' = results
               \/ UiRecords(u, Failure) /\ inbox' = inbox
            /\ UNCHANGED <<outbox, endpointVars>>
  BY DEF UiSends
<1>3. /\ sent'[u] = sent[u] \cup {j} /\ sent' \in [Ui -> SUBSET Job]
      /\ \A v \in Ui : sent'[v] \subseteq Requests(v)
      /\ j \in Job
  BY <1>1, <1>2, Calls DEF UiTypes
<1>4. /\ Len(results[u]) = Cardinality(sent[u])
      /\ Cardinality(sent'[u]) = Cardinality(sent[u]) + 1
      /\ Cardinality(sent[u]) \in Nat
  <2>1. Len(results[u]) = Cardinality(sent[u])
    BY <1>2 DEF UiInv, UiOk, Counts
  <2>2. IsFiniteSet(sent[u]) /\ Cardinality(sent[u]) \in Nat
    BY <1>1, Calls
  <2>3. Cardinality(sent[u] \cup {j}) = Cardinality(sent[u]) + 1
    BY <1>2, <2>2, FS_AddElement
  <2>. QED
    BY <1>3, <2>1, <2>2, <2>3
<1>5. outbox' = outbox /\ at' = at /\ made' = made /\ outbox' \in [Conn -> Seq(Message)] /\ OutQuiet(u)
  <2>1. outbox' = outbox /\ at' = at /\ made' = made
    BY <1>2 DEF endpointVars
  <2>. QED
    BY <1>1, <2>1, SameIsQuiet
<1>6. CASE UiRecords(u, Failure) /\ inbox' = inbox
  <2>1. Len(results[u]) + 1 = Cardinality(sent'[u])
    BY <1>4
  <2>. QED
    BY <1>3, <1>5, <1>6, <2>1, FailureStep
<1>7. CASE /\ inbox' = IF conn[u] = "open"
                       THEN [inbox EXCEPT ![u] = Append(@, [ask |-> "create_job", job |-> j])]
                       ELSE inbox
           /\ UiEnter(u, "wait") /\ results' = results
  <2>. DEFINE r == [ask |-> "create_job", job |-> j]
              q == inbox[u]
  <2>1. uiPc' = [uiPc EXCEPT ![u] = "wait"] /\ results' = results
    BY <1>7 DEF UiEnter
  <2>2. Counts(u)'
    BY <1>1, <1>3, <1>4, <2>1 DEF Counts, Requests
  <2>3. UiTypes'
    BY <1>1, <1>3, <2>1 DEF UiTypes, Requests
  <2>4. Counted(u)' = Counted(u) /\ Counted(u) \subseteq Job
    BY <1>1, <2>1 DEF Counted, OneTrace, Apart, UiTypes
  <2>5. SuccessesAreReal(u)'
    BY <1>1, <2>4, RealStays DEF SuccessesAreReal
  <2>6. /\ Apart(Waiting(u), Making(u), Answered(u), Counted(u), sent[u])
        /\ Making(u)' = Making(u) /\ Answered(u)' = Answered(u)
        /\ (\A i \in DOMAIN q : q[i].ask = "create_job") /\ OnceIn(q, Request)
        /\ OnceIn(outbox'[u], AnswerMessages) /\ OnceIn(results'[u], Successes)
    BY <1>1, <1>5, <2>1 DEF OneTrace, Making, Answered
  <2>7. r \in Request /\ r.ask = "create_job" /\ r.job = j /\ q \in Seq(Request)
    BY <1>1, <1>3 DEF Request, Ask
  <2>8. inbox'[u] = q \/ inbox'[u] = Append(q, r)
    BY <1>1, <1>7
  <2>. HIDE DEF r, q
  <2>9. /\ \A i \in DOMAIN inbox'[u] : inbox'[u][i].ask = "create_job"
        /\ OnceIn(inbox'[u], Request)
        /\ JobsIn(inbox'[u], Request) \subseteq JobsIn(q, Request) \cup {j}
    <3>1. j \notin JobsIn(q, Request)
      BY <1>2, <2>6 DEF Apart, Waiting, q
    <3>2. CASE inbox'[u] = q
      BY <2>6, <3>2
    <3>3. CASE inbox'[u] = Append(q, r)
      <4>1. /\ OnceIn(Append(q, r), Request) /\ JobsIn(Append(q, r), Request) = JobsIn(q, Request) \cup {j}
            /\ \A i \in DOMAIN Append(q, r) : Append(q, r)[i] = r \/ \E k \in DOMAIN q : Append(q, r)[i] = q[k]
        BY <2>6, <2>7, <3>1, AppendJobs
      <4>. QED
        BY <2>6, <2>7, <3>3, <4>1
    <3>. QED
      BY <2>8, <3>2, <3>3
  <2>10. Apart(Waiting(u)', Making(u)', Answered(u)', Counted(u)', sent'[u])
    <3>1. Waiting(u)' \subseteq Waiting(u) \cup {j}
      BY <2>9 DEF Waiting, q
    <3>. QED
      BY <1>2, <1>3, <2>4, <2>6, <3>1 DEF Apart
  <2>11. OneTrace(u)'
    BY <2>6, <2>9, <2>10 DEF OneTrace
  <2>. QED
    BY <2>2, <2>3, <2>5, <2>11 DEF UiOk
<1>. QED
  BY <1>2, <1>6, <1>7

LEMMA CallGivesUp ==
  ASSUME ServerInv, ServerInv', JobsKeep, UiInv, NEW u \in Ui, UiGivesUp(u)
  PROVE  UiOk(u)' /\ UiTypes'
<1>1. /\ WsTypeOK /\ u \in Conn /\ UiRecords(u, Failure) /\ uiPc[u] = "wait"
      /\ sent' = sent /\ inbox' = inbox /\ outbox' = outbox /\ at' = at /\ made' = made
      /\ outbox \in [Conn -> Seq(Message)]
  BY Calls DEF ServerInv, WsTypeOK, UiGivesUp, endpointVars
<1>2. OutQuiet(u)
  BY <1>1, SameIsQuiet
<1>3. /\ sent \in [Ui -> SUBSET Job] /\ \A v \in Ui : sent[v] \subseteq Requests(v)
      /\ Len(results[u]) + 1 = Cardinality(sent[u])
  BY <1>1 DEF UiInv, UiOk, UiTypes, Counts
<1>. QED
  BY <1>1, <1>2, <1>3, FailureStep

\* A late answer may be taken for that to the next request: it is a success of
\* the request that it is about, which was not counted before.
LEMMA CallReads ==
  ASSUME ServerInv, ServerInv', JobsKeep, UiInv, NEW u \in Ui, UiReads(u)
  PROVE  UiOk(u)' /\ UiTypes'
<1>. DEFINE s == outbox[u]
            m == Head(s)
<1>1. /\ WsTypeOK /\ StatusMatchesStage /\ u \in Conn /\ UiTypes
      /\ OneTrace(u) /\ SuccessesAreReal(u)
      /\ inbox \in [Conn -> Seq(Request)] /\ outbox \in [Conn -> Seq(Message)]
      /\ results \in [Ui -> Seq(UiResult)] /\ uiPc \in [Ui -> {"idle", "init", "send", "wait", "done"}]
      /\ sent \in [Ui -> SUBSET Job] /\ \A v \in Ui : sent[v] \subseteq Requests(v)
      /\ sent[u] \subseteq Job
  BY Calls DEF ServerInv, WsTypeOK, UiInv, UiOk, UiTypes
<1>2. /\ uiPc[u] = "wait" /\ s # <<>> /\ outbox' = [outbox EXCEPT ![u] = Tail(s)]
      /\ sent' = sent /\ inbox' = inbox /\ at' = at /\ made' = made
      /\ \/ Ignored(u, m) /\ uiPc' = uiPc /\ results' = results
         \/ ~Ignored(u, m) /\ UiRecords(u, IF Wanted(u, m) THEN Success(m.job) ELSE Failure)
  BY DEF UiReads, endpointVars
<1>3. s \in Seq(Message) /\ m \in Message /\ Tail(s) \in Seq(Message) /\ SubOf(Tail(s), s)
      /\ m = s[1] /\ 1 \in DOMAIN s
  BY <1>1, <1>2, TailIsSub
<1>4. outbox' \in [Conn -> Seq(Message)] /\ outbox'[u] = Tail(s) /\ OutQuiet(u)
  BY <1>1, <1>2, <1>3 DEF OutQuiet
<1>5. Len(results[u]) + 1 = Cardinality(sent'[u])
  BY <1>2 DEF UiInv, UiOk, Counts
<1>6. SubOf(inbox'[u], inbox[u]) /\ Making(u)' = Making(u)
  BY <1>1, <1>2, SameIsQuiet DEF Making
<1>7. CASE uiPc' = uiPc /\ results' = results
  <2>1. UiOk(u)'
    BY <1>1, <1>2, <1>4, <1>6, <1>7, UiQuiet
  <2>. QED
    BY <1>1, <1>2, <1>7, <2>1 DEF UiTypes, Requests
<1>8. CASE UiRecords(u, Failure)
  BY <1>1, <1>2, <1>4, <1>5, <1>8, FailureStep
<1>9. CASE Wanted(u, m) /\ UiRecords(u, Success(m.job))
  <2>. DEFINE j == m.job
              r == Success(j)
  <2>1. /\ m.type \in {"job_created", "job_result"} /\ m \in AnswerMessages /\ True(m)
        /\ j \in Job
    BY <1>1, <1>3, <1>9 DEF Wanted, AnswerMessages, ServerInv, MessagesAreTrue, True
  <2>2. r \in UiResult /\ r \in Successes /\ r.job = j
    BY <2>1 DEF Success, UiResult, Successes
  <2>3. /\ j \in Answered(u) /\ j \notin JobsIn(Tail(s), AnswerMessages)
        /\ OnceIn(Tail(s), AnswerMessages)
        /\ JobsIn(Tail(s), AnswerMessages) \subseteq JobsIn(s, AnswerMessages)
    <3>1. OnceIn(s, AnswerMessages)
      BY <1>1 DEF OneTrace
    <3>. HIDE DEF s
    <3>2. j \in JobsIn(s, AnswerMessages) /\ j \notin JobsIn(Tail(s), AnswerMessages)
      BY <1>2, <1>3, <2>1, <3>1, TailJobs
    <3>3. /\ OnceIn(Tail(s), AnswerMessages)
          /\ JobsIn(Tail(s), AnswerMessages) \subseteq JobsIn(s, AnswerMessages)
      BY <1>3, <3>1, SubJobs
    <3>. QED
      BY <3>2, <3>3 DEF Answered, s
  <2>4. Apart(Waiting(u), Making(u), Answered(u), Counted(u), sent[u])
    BY <1>1 DEF OneTrace
  <2>. HIDE DEF s, m, j, r
  <2>5. /\ Counts(u)' /\ results' = [results EXCEPT ![u] = Append(results[u], r)]
        /\ \E p \in {"send", "done"} : uiPc' = [uiPc EXCEPT ![u] = p]
    BY <1>1, <1>2, <1>5, <1>9, <2>2, RecordsCount DEF r, j
  <2>6. results[u] \in Seq(UiResult) /\ results'[u] = Append(results[u], r) /\ Append(results[u], r) \in Seq(UiResult)
    BY <1>1, <2>2, <2>5
  <2>7. OnceIn(results'[u], Successes) /\ Counted(u)' = Counted(u) \cup {j}
    <3>1. j \notin JobsIn(results[u], Successes) /\ OnceIn(results[u], Successes)
      BY <1>1, <2>3, <2>4 DEF Apart, Counted, OneTrace
    <3>. QED
      BY <2>2, <2>6, <3>1, AppendJobs DEF Counted
  <2>8. Apart(Waiting(u)', Making(u)', Answered(u)', Counted(u)', sent'[u])
    <3>1. Waiting(u)' = Waiting(u) /\ Answered(u)' \subseteq Answered(u) \ {j}
      BY <1>2, <1>4, <2>3 DEF Waiting, Answered, s
    <3>. QED
      BY <1>2, <1>6, <2>3, <2>4, <2>7, <3>1 DEF Apart
  <2>9. OneTrace(u)'
    BY <1>1, <1>2, <1>4, <2>3, <2>7, <2>8 DEF OneTrace
  <2>10. SuccessesAreReal(u)'
    <3>1. form[j] = "async" => store[j] # "absent"
      <4>1. CASE m.type = "job_created"
        BY <1>1, <2>1, <4>1, StatusOf DEF True, j
      <4>2. CASE m.type = "job_result"
        BY <2>1, <4>2 DEF True, j
      <4>. QED
        BY <2>1, <4>1, <4>2
    <3>2. Counted(u) \subseteq Job
      BY <1>1, <2>4 DEF Apart
    <3>. QED
      BY <1>1, <2>1, <2>7, <3>1, <3>2, RealStays DEF SuccessesAreReal
  <2>11. UiTypes'
    BY <1>1, <1>2, <2>5, <2>6 DEF UiTypes, Requests
  <2>. QED
    BY <2>5, <2>9, <2>10, <2>11 DEF UiOk
<1>. QED
  BY <1>2, <1>7, <1>8, <1>9

LEMMA UiCallIsLocal ==
  ASSUME ServerInv, UiTypes, NEW u \in Ui, UiCall(u)
  PROVE  /\ \A c \in Conn : c # u => inbox'[c] = inbox[c] /\ outbox'[c] = outbox[c]
                                      /\ at'[c] = at[c] /\ made'[c] = made[c] /\ conn'[c] = conn[c]
         /\ \A v \in Ui : v # u => sent'[v] = sent[v] /\ results'[v] = results[v] /\ uiPc'[v] = uiPc[v]
<1>1. /\ inbox \in [Conn -> Seq(Request)] /\ outbox \in [Conn -> Seq(Message)]
      /\ at \in [Conn -> {"off", "receive", "created", "submit", "ended"}]
      /\ conn \in [Conn -> {"none", "open", "deaf", "broken"}]
      /\ sent \in [Ui -> SUBSET Job] /\ results \in [Ui -> Seq(UiResult)]
      /\ uiPc \in [Ui -> {"idle", "init", "send", "wait", "done"}]
  BY ServerTypes DEF ServerInv, UiTypes
<1>2. made' = made
  BY DEF UiCall, UiConnects, UiCannotConnect, UiTakesInit, UiLosesInit, UiSends, UiReads, UiGivesUp,
         Open, wsVars, endpointVars
<1>3. \A c \in Conn : c # u => at'[c] = at[c]
  BY <1>1 DEF UiCall, UiConnects, UiCannotConnect, UiTakesInit, UiLosesInit, UiSends, UiReads,
              UiGivesUp, Open, wsVars, endpointVars
<1>4. \A c \in Conn : c # u => inbox'[c] = inbox[c]
  BY <1>1 DEF UiCall, UiConnects, UiCannotConnect, UiTakesInit, UiLosesInit, UiSends, UiReads,
              UiGivesUp, Open, wsVars, wireVars
<1>5. \A c \in Conn : c # u => outbox'[c] = outbox[c]
  BY <1>1 DEF UiCall, UiConnects, UiCannotConnect, UiTakesInit, UiLosesInit, UiSends, UiReads,
              UiGivesUp, Open, wsVars, wireVars
<1>6. \A c \in Conn : c # u => conn'[c] = conn[c]
  BY <1>1, RecordsConn DEF UiCall, UiConnects, UiCannotConnect, UiTakesInit, UiLosesInit, UiSends, UiReads,
              UiGivesUp, Open, wsVars, wireVars
<1>7. \A v \in Ui : v # u => sent'[v] = sent[v]
  BY <1>1 DEF UiCall, UiConnects, UiCannotConnect, UiTakesInit, UiLosesInit, UiSends, UiReads,
              UiGivesUp, UiFailsRest
<1>8. \A v \in Ui : v # u => results'[v] = results[v]
  BY <1>1 DEF UiCall, UiConnects, UiCannotConnect, UiTakesInit, UiLosesInit, UiSends, UiReads,
              UiGivesUp, UiFailsRest, UiRecords
<1>9. \A v \in Ui : v # u => uiPc'[v] = uiPc[v]
  BY <1>1 DEF UiCall, UiConnects, UiCannotConnect, UiTakesInit, UiLosesInit, UiSends, UiReads,
              UiGivesUp, UiFailsRest, UiRecords, UiEnter
<1>. QED
  BY <1>2, <1>3, <1>4, <1>5, <1>6, <1>7, <1>8, <1>9

LEMMA UiCallStep ==
  ASSUME ServerInv, UiInv, NEW u \in Ui, UiCall(u)
  PROVE  ServerInv' /\ JobsKeep /\ UiInv'
<1>1. ServerInv' /\ JobsKeep
  BY UiCallOnWire
<1>2. UiOk(u)' /\ UiTypes'
  BY <1>1, CallBegins, CallSends, CallReads, CallGivesUp DEF UiCall
<1>3. ASSUME NEW v \in Ui, v # u
      PROVE  UiOk(v)'
  <2>1. /\ WsTypeOK /\ StatusMatchesStage /\ v \in Conn /\ UiTypes
        /\ inbox' \in [Conn -> Seq(Request)] /\ outbox' \in [Conn -> Seq(Message)]
    BY <1>1, Calls DEF ServerInv, WsTypeOK, UiInv
  <2>2. /\ inbox'[v] = inbox[v] /\ outbox'[v] = outbox[v] /\ at'[v] = at[v] /\ made'[v] = made[v]
        /\ sent'[v] = sent[v] /\ results'[v] = results[v] /\ uiPc'[v] = uiPc[v]
    BY <1>3, <2>1, UiCallIsLocal
  <2>3. SubOf(inbox'[v], inbox[v]) /\ OutQuiet(v) /\ Making(v)' \subseteq Making(v)
    BY <2>1, <2>2, SameIsQuiet
  <2>. QED
    BY <1>1, <2>1, <2>2, <2>3, UiQuiet
<1>. QED
  BY <1>1, <1>2, <1>3 DEF UiInv

-----------------------------------------------------------------------------
(* WebSocketJobClient: its calls use connections of their own *)

LEMMA AsksAreRequests ==
  /\ ApiAsk \subseteq Request /\ QueueStatus \in Request /\ ApiJob \subseteq Job
  /\ ApiConn \subseteq Conn
<1>1. ApiJob \subseteq Job /\ ApiConn \subseteq Conn
  BY WsSystemAssumption
<1>. QED
  BY <1>1 DEF ApiAsk, Request, Ask, QueueStatus

\* What a call may do to the wire, on one of its own connections.
LEMMA ApiOnWire ==
  ASSUME ServerInv, ApiTypes, ApiCall
  PROVE  /\ ServerInv' /\ JobsKeep
         /\ \A d \in Conn : d \notin ApiConn =>
              inbox'[d] = inbox[d] /\ outbox'[d] = outbox[d] /\ at'[d] = at[d] /\ made'[d] = made[d]
<1>1. /\ conn \in [Conn -> {"none", "open", "deaf", "broken"}]
      /\ inbox \in [Conn -> Seq(Request)] /\ outbox \in [Conn -> Seq(Message)]
      /\ at \in [Conn -> {"off", "receive", "created", "submit", "ended"}]
      /\ ApiConn \subseteq Conn
      /\ \A c \in Conn : SubOf(outbox[c], outbox[c])
  BY ServerTypes, AsksAreRequests, SelfIsSub DEF ServerInv
<1>2. CASE UNCHANGED wsVars
  BY <1>2, StutterStep DEF wsVars, wireVars, endpointVars
<1>3. ASSUME NEW c \in ApiConn, Open(c), UNCHANGED serviceVars
      PROVE  /\ ServerInv' /\ JobsKeep
             /\ \A d \in Conn : d \notin ApiConn =>
                  inbox'[d] = inbox[d] /\ outbox'[d] = outbox[d] /\ at'[d] = at[d] /\ made'[d] = made[d]
  <2>1. ServerInv' /\ JobsKeep
    BY <1>1, <1>3, OpenStep
  <2>2. /\ inbox' = inbox /\ made' = made /\ at' = [at EXCEPT ![c] = "receive"]
        /\ outbox' = [outbox EXCEPT ![c] = <<Plain("init")>>]
    BY <1>3 DEF Open
  <2>. QED
    BY <1>1, <2>1, <2>2
<1>4. ASSUME NEW r \in Request, Posts(r), websocket # NoConn,
             UNCHANGED <<serviceVars, conn, outbox, endpointVars>>
      PROVE  /\ ServerInv' /\ JobsKeep
             /\ \A d \in Conn : d \notin ApiConn =>
                  inbox'[d] = inbox[d] /\ outbox'[d] = outbox[d] /\ at'[d] = at[d] /\ made'[d] = made[d]
  <2>1. websocket \in ApiConn /\ conn[websocket] # "none"
    BY <1>4 DEF ApiTypes
  <2>2. inbox[websocket] \in Seq(Request) /\ Append(inbox[websocket], r) \in Seq(Request)
    BY <1>1, <2>1
  <2>3. inbox' = inbox \/ inbox' = [inbox EXCEPT ![websocket] = Append(inbox[websocket], r)]
    BY <1>4 DEF Posts
  <2>4. /\ inbox' \in [Conn -> Seq(Request)]
        /\ \A d \in Conn : d # websocket => inbox'[d] = inbox[d]
    BY <1>1, <2>2, <2>3
  <2>5. \A c \in Conn : conn'[c] = "none" => conn[c] = "none" /\ inbox'[c] = inbox[c]
    BY <1>4, <2>1, <2>4
  <2>6. ServerInv' /\ JobsKeep
    BY <1>1, <1>4, <2>4, <2>5, WireStep
  <2>. QED
    BY <1>4, <2>1, <2>4, <2>6 DEF endpointVars
<1>5. ASSUME apiPc # "idle",
             UNCHANGED <<serviceVars, inbox, endpointVars>>,
             \/ /\ outbox' = [outbox EXCEPT ![websocket] = <<>>]
                /\ conn' = [conn EXCEPT ![websocket] = IF @ = "open" THEN "deaf" ELSE @]
             \/ /\ outbox[websocket] # <<>> /\ outbox' = [outbox EXCEPT ![websocket] = Tail(@)]
                /\ conn' = conn
      PROVE  /\ ServerInv' /\ JobsKeep
             /\ \A d \in Conn : d \notin ApiConn =>
                  inbox'[d] = inbox[d] /\ outbox'[d] = outbox[d] /\ at'[d] = at[d] /\ made'[d] = made[d]
  <2>1. websocket \in ApiConn /\ websocket \in Conn /\ conn[websocket] # "none"
    BY <1>1, <1>5 DEF ApiTypes
  <2>2. PICK t \in Seq(Message) : SubOf(t, outbox[websocket]) /\ outbox' = [outbox EXCEPT ![websocket] = t]
    <3>1. outbox[websocket] \in Seq(Message) /\ <<>> \in Seq(Message)
      BY <1>1, <2>1
    <3>2. SubOf(<<>>, outbox[websocket])
      BY <3>1, SelfIsSub
    <3>3. outbox[websocket] # <<>> => /\ Tail(outbox[websocket]) \in Seq(Message)
                                       /\ SubOf(Tail(outbox[websocket]), outbox[websocket])
      BY <3>1, TailIsSub
    <3>. QED
      BY <1>5, <3>1, <3>2, <3>3
  <2>3. /\ outbox' \in [Conn -> Seq(Message)]
        /\ \A c \in Conn : SubOf(outbox'[c], outbox[c])
        /\ \A d \in Conn : d # websocket => outbox'[d] = outbox[d]
    BY <1>1, <2>1, <2>2
  <2>4. /\ conn' \in [Conn -> {"none", "open", "deaf", "broken"}]
        /\ \A c \in Conn : conn'[c] = "none" => conn[c] = "none"
    BY <1>1, <1>5, <2>1
  <2>5. ServerInv' /\ JobsKeep
    BY <1>1, <1>5, <2>3, <2>4, WireStep
  <2>. QED
    BY <1>5, <2>1, <2>3, <2>5 DEF endpointVars
<1>6. ASSUME NEW r \in ApiAsk, NEW c \in ApiConn, ApiConnects(r, c) \/ ApiReconnects(c)
      PROVE  Open(c) /\ UNCHANGED serviceVars
  BY <1>6 DEF ApiConnects, ApiReconnects
<1>7. CASE ApiSends
  <2>1. Posts(asked) /\ asked \in Request /\ websocket # NoConn
        /\ UNCHANGED <<serviceVars, conn, outbox, endpointVars>>
    BY <1>7 DEF ApiSends, ApiTypes
  <2>. QED
    BY <1>4, <2>1
<1>8. CASE ApiSendsAgain
  <2>1. Posts(QueueStatus) /\ QueueStatus \in Request /\ websocket # NoConn
        /\ UNCHANGED <<serviceVars, conn, outbox, endpointVars>>
    BY <1>8, AsksAreRequests DEF ApiSendsAgain, Reuses
  <2>. QED
    BY <1>4, <2>1
<1>9. CASE ApiReads \/ ApiTimesOut \/ ApiFails
  <2>1. /\ apiPc # "idle" /\ UNCHANGED <<serviceVars, inbox, endpointVars>>
        /\ \/ /\ outbox' = [outbox EXCEPT ![websocket] = <<>>]
              /\ conn' = [conn EXCEPT ![websocket] = IF @ = "open" THEN "deaf" ELSE @]
           \/ /\ outbox[websocket] # <<>> /\ outbox' = [outbox EXCEPT ![websocket] = Tail(@)]
              /\ conn' = conn
    BY <1>9 DEF ApiReads, ApiTimesOut, ApiFails, ApiReturns
  <2>. QED
    BY <1>5, <2>1
<1>10. CASE ApiCloses \/ \E r \in ApiAsk : ApiCannotConnect(r)
  BY <1>2, <1>10 DEF ApiCloses, ApiCannotConnect
<1>11. CASE \E c \in ApiConn : ApiReconnects(c)
  BY <1>3, <1>11 DEF ApiReconnects
<1>12. CASE \E r \in ApiAsk : \E c \in ApiConn : ApiConnects(r, c)
  BY <1>3, <1>12 DEF ApiConnects
<1>. QED
  BY <1>7, <1>8, <1>9, <1>10, <1>11, <1>12 DEF ApiCall

LEMMA ApiKeepsUi ==
  ASSUME ServerInv, UiInv, ApiTypes, ApiCall
  PROVE  ServerInv' /\ JobsKeep /\ UiInv'
<1>1. ServerInv' /\ JobsKeep
  BY ApiOnWire
<1>2. UNCHANGED uiVars
  BY DEF ApiCall, ApiCannotConnect, ApiConnects, ApiReconnects, ApiSends, ApiSendsAgain, ApiReads,
         ApiTimesOut, ApiFails, ApiCloses, ApiReturns, Asks
<1>3. ASSUME NEW u \in Ui
      PROVE  UiOk(u)'
  <2>1. /\ WsTypeOK /\ StatusMatchesStage /\ u \in Conn /\ u \notin ApiConn
        /\ inbox' \in [Conn -> Seq(Request)] /\ outbox' \in [Conn -> Seq(Message)]
        /\ sent' = sent /\ results' = results /\ uiPc' = uiPc
    BY <1>1, <1>2, Calls DEF ServerInv, WsTypeOK, uiVars
  <2>2. inbox'[u] = inbox[u] /\ outbox'[u] = outbox[u] /\ at'[u] = at[u] /\ made'[u] = made[u]
    BY <2>1, ApiOnWire
  <2>3. SubOf(inbox'[u], inbox[u]) /\ OutQuiet(u) /\ Making(u)' \subseteq Making(u)
    BY <2>1, <2>2, SameIsQuiet
  <2>. QED
    BY <1>1, <2>1, <2>3, UiQuiet
<1>4. UiTypes'
  BY <1>2 DEF UiInv, UiTypes, Requests, uiVars
<1>. QED
  BY <1>1, <1>3, <1>4 DEF UiInv

\* Own(m) of the next state.
OwnNext(m) ==
  m.type \in {Answer(asked)', "error"} =>
    /\ m.job \in {asked'.job, NoJob}
    /\ asked'.ask = "get_job" /\ Created(asked.job)' /\ m.type = "error" => m.job = NoJob

AnswerTypes == {"job_result", "job_created", "job", "jobs", "queue_status"}

LEMMA AnswerOf ==
  ASSUME NEW r \in Request
  PROVE  Answer(r) \in AnswerTypes /\ (form' = form => Answer(r)' = Answer(r))
<1>1. r.ask \in {"create_job", "get_job", "list_jobs", "get_queue_status"}
  BY DEF Request, Ask
<1>2. Answer(r) \in AnswerTypes
  BY <1>1 DEF Answer, AnswerTypes
<1>3. form' = form => Answer(r)' = Answer(r)
  BY DEF Answer
<1>. QED
  BY <1>2, <1>3

LEMMA OwnStays ==
  ASSUME NEW m, Own(m), asked' = asked, attempt' = attempt, form' = form, asked \in Request
  PROVE  OwnNext(m)
<1>1. Answer(asked)' = Answer(asked)
  BY DEF Answer
<1>2. Created(asked.job)' <=> Created(asked.job)
  BY DEF Created
<1>. QED
  BY <1>1, <1>2 DEF Own, OwnNext

\* The reply is the last one, and still true.
LEMMA ReplyStays ==
  ASSUME JobsKeep, RepliesAreOwn, reply \in Reply, reply' = reply,
         reply.status \in Outcome => reply.job \in Job
  PROVE  RepliesAreOwn'
<1>1. reply.asked \in Request
  BY DEF Reply
<1>2. Answer(reply.asked)' = Answer(reply.asked)
  BY DEF Answer, JobsKeep
<1>3. reply.status \in Outcome => store'[reply.job] = reply.status
  BY DEF RepliesAreOwn, JobsKeep
<1>. QED
  BY <1>2, <1>3 DEF RepliesAreOwn

\* A step of others, seen from a call under way.
LEMMA ApiQuiet ==
  ASSUME JobsKeep, ApiInv, UNCHANGED apiVars,
         websocket # NoConn => conn'[websocket] # "none",
         apiPc \in {"init", "wait"} =>
           /\ \A i \in DOMAIN inbox'[websocket] : inbox'[websocket][i] = asked
           /\ made'[websocket] \in {asked.job, NoJob}
           /\ \A i \in DOMAIN outbox'[websocket] : Own(outbox'[websocket][i])
  PROVE  ApiInv'
<1>1. /\ websocket' = websocket /\ apiPc' = apiPc /\ asked' = asked /\ attempt' = attempt /\ reply' = reply
      /\ form' = form /\ asked \in Request /\ reply \in Reply
      /\ ApiTypes /\ RepliesAreOwn /\ ApiJob \subseteq Job
  BY AsksAreRequests DEF apiVars, JobsKeep, ApiInv, ApiTypes
<1>2. ApiTypes'
  BY <1>1 DEF ApiTypes
<1>3. RepliesAreOwn'
  BY <1>1, ReplyStays DEF ApiInv
<1>4. apiPc \in {"init", "wait"} =>
        \A i \in DOMAIN outbox'[websocket] : OwnNext(outbox'[websocket][i])
  BY <1>1, OwnStays
<1>5. ConnectionIsOwn'
  BY <1>1, <1>4 DEF ConnectionIsOwn, Own, OwnNext
<1>6. \A j \in ApiJob : attempt'[j] = "created" => stage'[j] # "new"
  BY <1>1 DEF ApiInv, JobsKeep
<1>7. reply'.status \in Outcome => reply'.job \in Job
  BY <1>1 DEF ApiInv
<1>. QED
  BY <1>2, <1>3, <1>5, <1>6, <1>7 DEF ApiInv

LEMMA OwnGrows ==
  ASSUME NEW c \in Conn, NEW m \in Message, outbox[c] \in Seq(Message),
         \A i \in DOMAIN outbox[c] : Own(outbox[c][i]), Own(m),
         outbox'[c] = outbox[c] \/ outbox'[c] = Append(outbox[c], m)
  PROVE  \A i \in DOMAIN outbox'[c] : Own(outbox'[c][i])
<1>. DEFINE s == outbox[c]
            t == outbox'[c]
<1>1. /\ s \in Seq(Message) /\ (\A i \in DOMAIN s : Own(s[i])) /\ Own(m)
      /\ t = s \/ t = Append(s, m)
  OBVIOUS
<1>. SUFFICES \A i \in DOMAIN t : Own(t[i])
  OBVIOUS
<1>. HIDE DEF s, t
<1>2. \A i \in DOMAIN Append(s, m) : Append(s, m)[i] = m \/ \E k \in DOMAIN s : Append(s, m)[i] = s[k]
  BY <1>1, AppendJobs
<1>3. ASSUME NEW i \in DOMAIN t
      PROVE  Own(t[i])
  <2>1. CASE t = s
    BY <1>1, <2>1
  <2>2. CASE t = Append(s, m)
    BY <1>1, <1>2, <2>2
  <2>. QED
    BY <1>1, <2>1, <2>2
<1>. QED
  BY <1>3

\* The endpoint of the connection of a call: what it makes and sends is about
\* the request of the call.
LEMMA ApiEndpoint ==
  ASSUME ServerInv, ApiInv, apiPc \in {"init", "wait"}, Endpoint(websocket)
  PROVE  /\ \A i \in DOMAIN inbox'[websocket] : inbox'[websocket][i] = asked
         /\ made'[websocket] \in {asked.job, NoJob}
         /\ \A i \in DOMAIN outbox'[websocket] : Own(outbox'[websocket][i])
<1>. DEFINE w == websocket
            Goal == /\ \A i \in DOMAIN inbox'[w] : inbox'[w][i] = asked
                    /\ made'[w] \in {asked.job, NoJob}
                    /\ \A i \in DOMAIN outbox'[w] : Own(outbox'[w][i])
<1>1. /\ w \in Conn /\ asked \in Request /\ WsTypeOK /\ StatusMatchesStage
      /\ \A i \in DOMAIN inbox[w] : inbox[w][i] = asked
      /\ made[w] \in {asked.job, NoJob}
      /\ \A i \in DOMAIN outbox[w] : Own(outbox[w][i])
      /\ Endpoint(w)
  BY AsksAreRequests DEF ApiInv, ApiTypes, ConnectionIsOwn, ServerInv
<1>. SUFFICES Goal
  OBVIOUS
<1>. HIDE DEF w
<1>2. /\ inbox \in [Conn -> Seq(Request)] /\ outbox \in [Conn -> Seq(Message)]
      /\ made \in [Conn -> Job \cup {NoJob}] /\ NoJob \notin Job
      /\ made[w] # NoJob <=> at[w] \in {"created", "submit"}
      /\ inbox[w] \in Seq(Request) /\ outbox[w] \in Seq(Message)
  BY <1>1, ServerTypes
<1>3. Answer(asked) \in AnswerTypes
  BY <1>1, AnswerOf
<1>4. ASSUME NEW m \in Message, NEW next \in {"receive", "submit"}, Sends(w, m, next), Own(m)
      PROVE  /\ \A i \in DOMAIN outbox'[w] : Own(outbox'[w][i])
             /\ made'[w] \in {made[w], NoJob}
  <2>1. /\ outbox'[w] = outbox[w] \/ outbox'[w] = Append(outbox[w], m)
        /\ \/ made' = [made EXCEPT ![w] = IF next = "receive" THEN NoJob ELSE made[w]]
           \/ made' = [made EXCEPT ![w] = NoJob]
    BY <1>1, <1>4, SendsFacts DEF EndpointEnds
  <2>2. \A i \in DOMAIN outbox'[w] : Own(outbox'[w][i])
    BY <1>1, <1>2, <1>4, <2>1, OwnGrows
  <2>3. made'[w] \in {made[w], NoJob}
    BY <1>1, <1>2, <2>1
  <2>. QED
    BY <2>2, <2>3
<1>5. ASSUME NEW ask, NEW j, Receives(w, ask, j)
      PROVE  /\ asked = [ask |-> ask, job |-> j]
             /\ \A i \in DOMAIN inbox'[w] : inbox'[w][i] = asked
  <2>1. /\ inbox[w] # <<>> /\ Head(inbox[w]) = [ask |-> ask, job |-> j]
        /\ inbox' = [inbox EXCEPT ![w] = Tail(inbox[w])]
    BY <1>5 DEF Receives
  <2>2. inbox'[w] = Tail(inbox[w])
    BY <1>1, <1>2, <2>1
  <2>3. /\ Head(inbox[w]) = inbox[w][1] /\ 1 \in DOMAIN inbox[w] /\ Tail(inbox[w]) \in Seq(Request)
        /\ SubOf(Tail(inbox[w]), inbox[w])
    BY <1>2, <2>1, TailIsSub
  <2>4. \A i \in DOMAIN Tail(inbox[w]) : \E k \in DOMAIN inbox[w] : Tail(inbox[w])[i] = inbox[w][k]
    BY <1>2, <2>3, SubJobs
  <2>. QED
    BY <1>1, <2>1, <2>2, <2>3, <2>4
<1>6. ASSUME NEW ask, NEW j, NEW m \in Message, Replies(w, ask, j, m), asked = [ask |-> ask, job |-> j] => Own(m)
      PROVE  Goal
  <2>1. Receives(w, ask, j) /\ Sends(w, m, "receive")
    BY <1>6 DEF Replies
  <2>2. Own(m) /\ \A i \in DOMAIN inbox'[w] : inbox'[w][i] = asked
    BY <1>5, <1>6, <2>1
  <2>3. /\ \A i \in DOMAIN outbox'[w] : Own(outbox'[w][i])
        /\ made'[w] \in {made[w], NoJob}
    BY <1>4, <2>1, <2>2
  <2>. QED
    BY <1>1, <2>2, <2>3
<1>7. ASSUME NEW j \in Job, StoresJob(w, j)
      PROVE  Goal
  <2>1. Receives(w, "create_job", j) /\ made' = [made EXCEPT ![w] = j] /\ outbox' = outbox
    BY <1>7 DEF StoresJob
  <2>2. asked.job = j /\ \A i \in DOMAIN inbox'[w] : inbox'[w][i] = asked
    BY <1>5, <2>1
  <2>. QED
    BY <1>1, <1>2, <2>1, <2>2
<1>8. CASE SendsCreated(w)
  <2>. DEFINE m == About("job_created", made[w])
  <2>1. at[w] = "created" /\ Sends(w, m, "submit") /\ inbox' = inbox
    BY <1>8 DEF SendsCreated
  <2>2. made[w] = asked.job /\ made[w] \in Job
    BY <1>1, <1>2, <2>1
  <2>3. m \in Message /\ Own(m)
    BY <2>2 DEF About, Message, MessageType, Status, Own
  <2>. HIDE DEF m
  <2>4. /\ \A i \in DOMAIN outbox'[w] : Own(outbox'[w][i])
        /\ made'[w] \in {made[w], NoJob}
    BY <1>4, <2>1, <2>3
  <2>. QED
    BY <1>1, <2>1, <2>4
<1>9. CASE IsRefused(w)
  <2>. DEFINE m == [type |-> "job_update", job |-> made[w], status |-> "failed"]
  <2>1. Sends(w, m, "receive") /\ inbox' = inbox
    BY <1>9 DEF IsRefused
  <2>2. m \in Message /\ Own(m)
    BY <1>1, <1>2, <1>3 DEF Message, MessageType, Status, Own, AnswerTypes
  <2>. HIDE DEF m
  <2>3. /\ \A i \in DOMAIN outbox'[w] : Own(outbox'[w][i])
        /\ made'[w] \in {made[w], NoJob}
    BY <1>4, <2>1, <2>2
  <2>. QED
    BY <1>1, <2>1, <2>3
<1>10. CASE Submits(w) \/ Disconnects(w)
  <2>1. inbox' = inbox /\ outbox' = outbox /\ made' = [made EXCEPT ![w] = NoJob]
    BY <1>10 DEF Submits, Disconnects, EndpointEnds, wireVars
  <2>. QED
    BY <1>1, <1>2, <2>1
<1>11. ASSUME NEW j \in Job, ExecutesSync(w, j) \/ RefusesRequest(w, j)
       PROVE  Goal
  <2>1. /\ About("job_result", j) \in Message /\ Plain("error") \in Message
        /\ asked = [ask |-> "create_job", job |-> j] => Own(About("job_result", j)) /\ Own(Plain("error"))
    BY DEF About, Plain, Message, MessageType, Status, Own
  <2>. QED
    BY <1>6, <1>11, <2>1 DEF ExecutesSync, RefusesRequest
<1>12. ASSUME NEW j \in Job, GetsJob(w, j)
       PROVE  Goal
  <2>. DEFINE m == IF store[j] = "absent" THEN About("error", j)
                   ELSE [type |-> "job", job |-> j, status |-> store[j]]
  <2>1. store[j] \in Status
    BY <1>1, ServerTypes
  <2>2. m \in Message
    BY <2>1 DEF About, Message, MessageType, Status
  <2>3. ASSUME Created(j)
        PROVE  store[j] # "absent"
    <3>1. stage[j] # "new"
      BY <2>3 DEF Created, ApiInv
    <3>. QED
      BY <1>1, <3>1, StatusOf
  <2>4. asked = [ask |-> "get_job", job |-> j] => Own(m)
    BY <2>3 DEF Own, About
  <2>5. Replies(w, "get_job", j, m)
    BY <1>12 DEF GetsJob
  <2>. QED
    BY <1>6, <2>2, <2>4, <2>5
<1>13. CASE ListsJobs(w) \/ GetsQueueStatus(w)
  <2>1. /\ Plain("jobs") \in Message /\ Plain("queue_status") \in Message
        /\ Own(Plain("jobs")) /\ Own(Plain("queue_status"))
    BY DEF About, Plain, Message, MessageType, Status, Own
  <2>. QED
    BY <1>6, <1>13, <2>1 DEF ListsJobs, GetsQueueStatus
<1>. QED
  BY <1>1, <1>7, <1>8, <1>9, <1>10, <1>11, <1>12, <1>13 DEF Endpoint

\* The server and the network, seen from WebSocketJobClient.
LEMMA ServesKeepsApi ==
  ASSUME ServerInv, JobsKeep, ApiInv, UNCHANGED apiVars,
         \/ \E c \in Conn : Endpoint(c) \/ Break(c)
         \/ \E j \in Job : Workers(j)
  PROVE  ApiInv'
<1>. DEFINE w == websocket
            Goal == /\ w # NoConn => conn'[w] # "none"
                    /\ apiPc \in {"init", "wait"} =>
                         /\ \A i \in DOMAIN inbox'[w] : inbox'[w][i] = asked
                         /\ made'[w] \in {asked.job, NoJob}
                         /\ \A i \in DOMAIN outbox'[w] : Own(outbox'[w][i])
<1>1. /\ WsTypeOK /\ asked \in Request /\ w \in Conn \cup {NoConn}
      /\ w # NoConn => conn[w] # "none"
      /\ apiPc \in {"init", "wait"} =>
           /\ w \in Conn
           /\ \A i \in DOMAIN inbox[w] : inbox[w][i] = asked
           /\ made[w] \in {asked.job, NoJob}
           /\ \A i \in DOMAIN outbox[w] : Own(outbox[w][i])
  BY AsksAreRequests DEF ApiInv, ApiTypes, ConnectionIsOwn, ServerInv
<1>2. /\ inbox \in [Conn -> Seq(Request)] /\ outbox \in [Conn -> Seq(Message)]
      /\ conn \in [Conn -> {"none", "open", "deaf", "broken"}]
  BY <1>1, ServerTypes
<1>. SUFFICES Goal
  BY ApiQuiet
<1>3. ASSUME NEW c \in Conn, Endpoint(c)
      PROVE  Goal
  <2>1. conn' = conn
    BY <1>3 DEF Endpoint, SendsCreated, Submits, IsRefused, StoresJob, ExecutesSync, RefusesRequest,
                GetsJob, ListsJobs, GetsQueueStatus, Disconnects, Replies, wireVars
  <2>2. CASE c = w
    BY <1>1, <1>3, <2>1, <2>2, ApiEndpoint
  <2>3. CASE c # w
    <3>1. w \in Conn => inbox'[w] = inbox[w] /\ outbox'[w] = outbox[w] /\ made'[w] = made[w]
      BY <1>3, <2>3, EndpointIsLocal
    <3>. QED
      BY <1>1, <2>1, <3>1
  <2>. QED
    BY <2>2, <2>3
<1>4. ASSUME NEW c \in Conn, Break(c)
      PROVE  Goal
  <2>1. conn' = [conn EXCEPT ![c] = "broken"] /\ made' = made
    BY <1>4 DEF Break, endpointVars
  <2>2. w # NoConn => conn'[w] # "none"
    BY <1>1, <1>2, <2>1
  <2>3. ASSUME w \in Conn
        PROVE  /\ \A i \in DOMAIN inbox'[w] : \E k \in DOMAIN inbox[w] : inbox'[w][i] = inbox[w][k]
               /\ \A i \in DOMAIN outbox'[w] : \E k \in DOMAIN outbox[w] : outbox'[w][i] = outbox[w][k]
    <3>1. /\ inbox'[w] \in Seq(Request) /\ outbox'[w] \in Seq(Message)
          /\ inbox[w] \in Seq(Request) /\ outbox[w] \in Seq(Message)
          /\ SubOf(inbox'[w], inbox[w]) /\ SubOf(outbox'[w], outbox[w])
      BY <1>1, <1>2, <1>4, <2>3, BreakFacts
    <3>. QED
      BY <3>1 DEF SubOf
  <2>. QED
    BY <1>1, <2>1, <2>2, <2>3
<1>5. ASSUME NEW j \in Job, Workers(j)
      PROVE  Goal
  <2>1. conn' = conn /\ inbox' = inbox /\ made' = made
    BY <1>5, WorkersOnWire
  <2>2. ASSUME apiPc \in {"init", "wait"}
        PROVE  \A i \in DOMAIN outbox'[w] : Own(outbox'[w][i])
    <3>1. \/ outbox'[w] = outbox[w]
          \/ \E m \in Message : m.type = "job_update" /\ outbox'[w] = Append(outbox[w], m)
      BY <1>1, <1>5, <2>2, WorkersOnWire
    <3>2. \A m \in Message : m.type = "job_update" => Own(m)
      BY <1>1, AnswerOf DEF Own, AnswerTypes
    <3>3. outbox[w] \in Seq(Message)
      BY <1>1, <1>2, <2>2
    <3>. QED
      BY <1>1, <2>2, <3>1, <3>2, <3>3, OwnGrows
  <2>. QED
    BY <1>1, <2>1, <2>2
<1>. QED
  BY <1>3, <1>4, <1>5

\* So do the calls of the UI, whose connections are others.
LEMMA UiKeepsApi ==
  ASSUME ServerInv, UiTypes, JobsKeep, ApiInv, NEW u \in Ui, UiCall(u)
  PROVE  ApiInv'
<1>1. UNCHANGED apiVars
  BY DEF UiCall, UiConnects, UiCannotConnect, UiTakesInit, UiLosesInit, UiSends, UiReads, UiGivesUp
<1>2. websocket # NoConn => websocket \in Conn /\ websocket # u
  BY Calls DEF ApiInv, ApiTypes
<1>3. websocket # NoConn => /\ inbox'[websocket] = inbox[websocket] /\ outbox'[websocket] = outbox[websocket]
                            /\ made'[websocket] = made[websocket] /\ conn'[websocket] = conn[websocket]
  BY <1>2, UiCallIsLocal
<1>. QED
  BY <1>1, <1>3, ApiQuiet DEF ApiInv, ApiTypes, ConnectionIsOwn

\* A call gets a fresh connection: nothing is on it but init.
LEMMA CallConnects ==
  ASSUME ServerInv, JobsKeep, ApiInv, NEW c \in ApiConn, Open(c),
         websocket' = c, apiPc' \in {"init", "wait"}, asked' \in Request, reply' = reply,
         attempt' \in [ApiJob -> {"none", "tried", "created"}],
         \A j \in ApiJob : attempt'[j] = "created" => attempt[j] = "created"
  PROVE  ApiInv'
<1>1. /\ c \in Conn /\ c # NoConn /\ ApiJob \subseteq Job
      /\ outbox \in [Conn -> Seq(Message)] /\ conn \in [Conn -> {"none", "open", "deaf", "broken"}]
      /\ inbox[c] = <<>> /\ made[c] = NoJob
  BY AsksAreRequests, ServerTypes DEF ServerInv, ConnectionsBegin, Open
<1>2. conn'[c] = "open" /\ inbox'[c] = <<>> /\ made'[c] = NoJob /\ outbox'[c] = <<Plain("init")>>
  BY <1>1 DEF Open
<1>3. ApiTypes'
  BY <1>1, <1>2 DEF ApiInv, ApiTypes
<1>4. ConnectionIsOwn'
  <2>1. Answer(asked)' \in AnswerTypes
    BY DEF Answer, AnswerTypes, Request, Ask
  <2>2. OwnNext(Plain("init"))
    BY <2>1 DEF OwnNext, Plain, About, AnswerTypes
  <2>3. DOMAIN <<Plain("init")>> = {1} /\ <<Plain("init")>>[1] = Plain("init")
    OBVIOUS
  <2>4. \A i \in DOMAIN outbox'[c] : OwnNext(outbox'[c][i])
    BY <1>2, <2>2, <2>3
  <2>5. \A i \in DOMAIN <<>> : FALSE
    OBVIOUS
  <2>. QED
    BY <1>2, <2>4, <2>5 DEF ConnectionIsOwn, Own, OwnNext
<1>5. RepliesAreOwn'
  BY ReplyStays DEF ApiInv, ApiTypes
<1>6. /\ \A j \in ApiJob : attempt'[j] = "created" => stage'[j] # "new"
      /\ reply'.status \in Outcome => reply'.job \in Job
  BY <1>1 DEF ApiInv, JobsKeep
<1>. QED
  BY <1>3, <1>4, <1>5, <1>6 DEF ApiInv

\* A call ends with an answer of its own, or with none.
LEMMA CallReturns ==
  ASSUME ServerInv, JobsKeep, ApiInv, apiPc # "idle", NEW m, ApiReturns(m),
         m.type \in MessageType \cup {"timeout"}, m.job \in Job \cup {NoJob}, m.status \in Status,
         m.type \in {Answer(asked), "error", "timeout"}, Own(m), TrueNext(m),
         m.type = "timeout" => m.job = NoJob
  PROVE  ApiInv'
<1>1. /\ websocket \in ApiConn /\ websocket \in Conn /\ ApiJob \subseteq Job
      /\ conn \in [Conn -> {"none", "open", "deaf", "broken"}] /\ conn[websocket] # "none"
      /\ asked \in Request /\ attempt \in [ApiJob -> {"none", "tried", "created"}]
      /\ form' = form /\ QueueStatus \in Request
  BY AsksAreRequests, ServerTypes DEF ServerInv, ApiInv, ApiTypes, JobsKeep
<1>2. /\ apiPc' = "idle" /\ asked' = QueueStatus /\ websocket' = websocket
      /\ reply' = [type |-> m.type, job |-> m.job, status |-> m.status,
                   asked |-> asked, known |-> Created(asked.job)]
      /\ attempt' = [j \in ApiJob |->
           IF m.type = "job_created" /\ m.job = j THEN "created" ELSE attempt[j]]
      /\ conn' = [conn EXCEPT ![websocket] = IF @ = "open" THEN "deaf" ELSE @]
  BY DEF ApiReturns
<1>3. Created(asked.job) \in BOOLEAN
  BY DEF Created
<1>4. reply' \in Reply
  BY <1>1, <1>2, <1>3 DEF Reply
<1>5. attempt' \in [ApiJob -> {"none", "tried", "created"}]
  BY <1>1, <1>2
<1>6. conn'[websocket] # "none"
  BY <1>1, <1>2
<1>7. ApiTypes'
  BY <1>1, <1>2, <1>4, <1>5, <1>6 DEF ApiTypes
<1>8. ConnectionIsOwn'
  BY <1>2 DEF ConnectionIsOwn
<1>9. RepliesAreOwn'
  <2>1. /\ reply'.type = m.type /\ reply'.job = m.job /\ reply'.status = m.status
        /\ reply'.asked = asked /\ reply'.known = Created(asked.job)
    BY <1>2
  <2>2. Answer(reply.asked)' = Answer(asked)
    BY <1>1, <2>1 DEF Answer
  <2>3. m.job \in {asked.job, NoJob}
    BY DEF Own
  <2>4. m.status \in Outcome => store'[m.job] = m.status
    BY DEF TrueNext
  <2>5. asked.ask = "get_job" /\ Created(asked.job) => m.type # "error" \/ m.job = NoJob
    BY DEF Own
  <2>. QED
    BY <2>1, <2>2, <2>3, <2>4, <2>5 DEF RepliesAreOwn
<1>10. ASSUME NEW j \in ApiJob, attempt'[j] = "created"
       PROVE  stage'[j] # "new"
  BY <1>1, <1>2, <1>10 DEF TrueNext, ApiInv, JobsKeep
<1>11. reply'.status \in Outcome => reply'.job \in Job
  BY <1>2 DEF TrueNext
<1>. QED
  BY <1>7, <1>8, <1>9, <1>10, <1>11 DEF ApiInv

\* The answer the call waits for is read, or another message is dropped.
LEMMA CallTakes ==
  ASSUME ServerInv, JobsKeep, ApiInv, ApiReads
  PROVE  ApiInv'
<1>. DEFINE s == outbox[websocket]
            m == Head(s)
<1>1. /\ apiPc = "wait" /\ s # <<>> /\ websocket \in Conn
      /\ WsTypeOK /\ StatusMatchesStage /\ outbox \in [Conn -> Seq(Message)]
      /\ \A i \in DOMAIN s : Own(s[i]) /\ True(s[i])
  BY AsksAreRequests, ServerTypes
  DEF ApiReads, ApiInv, ApiTypes, ConnectionIsOwn, ServerInv, MessagesAreTrue
<1>2. s \in Seq(Message)
  BY <1>1
<1>3. /\ m \in Message /\ Own(m) /\ True(m)
      /\ Tail(s) \in Seq(Message) /\ SubOf(Tail(s), s)
  BY <1>1, <1>2, TailIsSub
<1>4. CASE m.type \in {Answer(asked), "error"} /\ ApiReturns(m)
  <2>1. TrueNext(m)
    BY <1>1, <1>3, TruthStays
  <2>2. m.type \in MessageType /\ m.job \in Job \cup {NoJob} /\ m.status \in Status /\ m.type # "timeout"
    BY <1>3 DEF Message, MessageType
  <2>. QED
    BY <1>1, <1>3, <1>4, <2>1, <2>2, CallReturns
<1>5. CASE /\ outbox' = [outbox EXCEPT ![websocket] = Tail(s)]
           /\ UNCHANGED <<conn, inbox, endpointVars, apiVars>>
  <2>1. outbox'[websocket] = Tail(s) /\ made' = made
    BY <1>1, <1>5 DEF endpointVars
  <2>2. \A i \in DOMAIN Tail(s) : \E k \in DOMAIN s : Tail(s)[i] = s[k]
    BY <1>3 DEF SubOf
  <2>3. \A i \in DOMAIN outbox'[websocket] : Own(outbox'[websocket][i])
    BY <1>1, <2>1, <2>2
  <2>. QED
    BY <1>5, <2>1, <2>3, ApiQuiet DEF ApiInv, ApiTypes, ConnectionIsOwn
<1>. QED
  BY <1>4, <1>5 DEF ApiReads, apiVars

\* The request of a call goes out.
LEMMA CallPosts ==
  ASSUME ServerInv, JobsKeep, ApiInv, ApiSends
  PROVE  ApiInv'
<1>. DEFINE w == websocket
<1>1. /\ w \in Conn /\ inbox \in [Conn -> Seq(Request)] /\ asked \in Request
      /\ \A i \in DOMAIN inbox[w] : inbox[w][i] = asked
      /\ made[w] \in {asked.job, NoJob}
      /\ \A i \in DOMAIN outbox[w] : Own(outbox[w][i])
      /\ reply \in Reply /\ RepliesAreOwn /\ ApiJob \subseteq Job
  BY AsksAreRequests, ServerTypes DEF ApiSends, ApiInv, ApiTypes, ConnectionIsOwn, ServerInv
<1>2. /\ w' = w /\ made' = made /\ outbox' = outbox /\ conn' = conn /\ apiPc' = "wait"
      /\ asked' = asked /\ attempt' = attempt /\ reply' = reply /\ form' = form
      /\ inbox' = inbox \/ inbox' = [inbox EXCEPT ![w] = Append(inbox[w], asked)]
  BY DEF ApiSends, Posts, endpointVars
<1>3. ASSUME NEW i \in DOMAIN inbox'[w]
      PROVE  inbox'[w][i] = asked
  <2>1. inbox[w] \in Seq(Request)
    BY <1>1
  <2>2. inbox'[w] = inbox[w] \/ inbox'[w] = Append(inbox[w], asked)
    BY <1>1, <1>2
  <2>. QED
    BY <1>1, <1>3, <2>1, <2>2, AppendJobs
<1>4. ApiTypes'
  BY <1>2 DEF ApiSends, ApiInv, ApiTypes
<1>5. ConnectionIsOwn'
  <2>1. \A i \in DOMAIN outbox'[w] : OwnNext(outbox'[w][i])
    BY <1>1, <1>2, OwnStays
  <2>. QED
    BY <1>1, <1>2, <1>3, <2>1 DEF ConnectionIsOwn, Own, OwnNext
<1>6. RepliesAreOwn'
  BY <1>1, <1>2, ReplyStays DEF ApiInv
<1>7. /\ \A j \in ApiJob : attempt'[j] = "created" => stage'[j] # "new"
      /\ reply'.status \in Outcome => reply'.job \in Job
  BY <1>1, <1>2 DEF ApiInv, JobsKeep
<1>. QED
  BY <1>4, <1>5, <1>6, <1>7 DEF ApiInv

\* No call is under way that waits on the connection.
LEMMA CallIsAway ==
  ASSUME JobsKeep, ApiInv, conn' = conn, reply' = reply,
         websocket' \in {websocket, NoConn}, apiPc' \in {"idle", "stale"},
         apiPc' # "idle" => websocket' # NoConn,
         asked' \in Request, attempt' \in [ApiJob -> {"none", "tried", "created"}],
         \A j \in ApiJob : attempt'[j] = "created" => attempt[j] = "created"
  PROVE  ApiInv'
<1>1. ApiTypes'
  BY DEF ApiInv, ApiTypes
<1>2. ConnectionIsOwn'
  BY DEF ConnectionIsOwn
<1>3. RepliesAreOwn'
  BY ReplyStays DEF ApiInv, ApiTypes
<1>4. /\ \A j \in ApiJob : attempt'[j] = "created" => stage'[j] # "new"
      /\ reply'.status \in Outcome => reply'.job \in Job
  BY AsksAreRequests DEF ApiInv, JobsKeep
<1>. QED
  BY <1>1, <1>2, <1>3, <1>4 DEF ApiInv

LEMMA ApiCallStep ==
  ASSUME ServerInv, JobsKeep, ApiInv, ApiCall
  PROVE  ApiInv'
<1>1. /\ apiPc \in {"idle", "init", "wait", "stale"} /\ asked \in Request
      /\ attempt \in [ApiJob -> {"none", "tried", "created"}]
      /\ Answer(asked) \in AnswerTypes
  BY AnswerOf DEF ApiInv, ApiTypes
<1>2. ASSUME NEW r \in Request, Asks(r)
      PROVE  /\ asked' \in Request /\ reply' = reply
             /\ attempt' \in [ApiJob -> {"none", "tried", "created"}]
             /\ \A j \in ApiJob : attempt'[j] = "created" => attempt[j] = "created"
  BY <1>1, <1>2 DEF Asks
<1>3. ASSUME NEW r \in ApiAsk, NEW c \in ApiConn, ApiConnects(r, c)
      PROVE  ApiInv'
  <2>1. Asks(r) /\ r \in Request /\ Open(c) /\ websocket' = c /\ apiPc' = "init"
    BY <1>3, AsksAreRequests DEF ApiConnects
  <2>. QED
    BY <1>2, <2>1, CallConnects
<1>4. ASSUME NEW c \in ApiConn, ApiReconnects(c)
      PROVE  ApiInv'
  BY <1>1, <1>4, CallConnects DEF ApiReconnects
<1>5. CASE ApiSendsAgain
  <2>1. /\ Asks(QueueStatus) /\ QueueStatus \in Request
        /\ apiPc' = "stale" /\ conn' = conn /\ websocket' = websocket /\ websocket # NoConn
    BY <1>5, AsksAreRequests DEF ApiSendsAgain, Reuses
  <2>. QED
    BY <1>2, <2>1, CallIsAway
<1>6. CASE ApiCloses \/ \E r \in ApiAsk : ApiCannotConnect(r)
  <2>1. /\ apiPc = "idle" /\ apiPc' = apiPc /\ websocket' = NoConn /\ conn' = conn
        /\ asked' = asked /\ attempt' = attempt /\ reply' = reply
    BY <1>6 DEF ApiCloses, ApiCannotConnect, MayAsk, wsVars, wireVars
  <2>. QED
    BY <1>1, <2>1, CallIsAway
<1>7. CASE ApiTimesOut
  <2>. DEFINE m == [type |-> "timeout", job |-> NoJob, status |-> "absent"]
  <2>1. apiPc # "idle" /\ ApiReturns(m)
    BY <1>7 DEF ApiTimesOut
  <2>2. /\ m.type = "timeout" /\ m.job = NoJob /\ m.status \in Status
        /\ Own(m) /\ TrueNext(m)
    BY <1>1 DEF Own, TrueNext, AnswerTypes, Status, Outcome
  <2>. HIDE DEF m
  <2>. QED
    BY <2>1, <2>2, CallReturns
<1>8. CASE ApiFails
  <2>. DEFINE m == Plain("error")
  <2>1. apiPc # "idle" /\ ApiReturns(m)
    BY <1>8 DEF ApiFails
  <2>2. /\ m.type = "error" /\ m.job = NoJob /\ m.status \in Status /\ "error" \in MessageType
        /\ Own(m) /\ TrueNext(m)
    BY DEF Own, TrueNext, Plain, About, Status, Outcome, MessageType
  <2>. HIDE DEF m
  <2>. QED
    BY <2>1, <2>2, CallReturns
<1>. QED
  BY <1>3, <1>4, <1>5, <1>6, <1>7, <1>8, CallPosts, CallTakes DEF ApiCall

-----------------------------------------------------------------------------
(* The invariant *)

LEMMA WsInvInit == Init => WsInv
<1>. SUFFICES ASSUME Init
              PROVE  WsInv
  OBVIOUS
<1>. USE DEF Init, WsInit
<1>1. ServiceTypeOK /\ StatusMatchesStage
  BY ServiceBegins
<1>2. /\ \A j \in Job : stage[j] = "new"
      /\ \A c \in Conn : made[c] = NoJob /\ at[c] = "off" /\ inbox[c] = <<>> /\ outbox[c] = <<>>
      /\ \A u \in Ui : uiPc[u] = "idle" /\ sent[u] = {} /\ results[u] = <<>>
  BY WsAssumption DEF ServiceInit
<1>3. WsTypeOK
  BY <1>1 DEF WsTypeOK
<1>4. \A s : s = <<>> => DOMAIN s = {}
  OBVIOUS
<1>5. ServerInv
  BY <1>1, <1>2, <1>3, <1>4
  DEF ServerInv, ConnectionsBegin, MadeIsStored, JobsHaveSockets, MessagesAreTrue, UpdateComesLast
<1>6. UiTypes
  BY DEF UiTypes
<1>7. ASSUME NEW u \in Ui
      PROVE  UiOk(u)
  <2>1. /\ DOMAIN inbox[u] = {} /\ DOMAIN outbox[u] = {} /\ DOMAIN results[u] = {}
        /\ u \in Conn
    BY <1>2, <1>4, Calls
  <2>2. Waiting(u) = {} /\ Making(u) = {} /\ Answered(u) = {} /\ Counted(u) = {}
    BY <1>2, <2>1 DEF Waiting, Making, Answered, Counted, JobsIn
  <2>3. OneTrace(u)
    BY <2>1, <2>2 DEF OneTrace, OnceIn, Apart
  <2>. QED
    BY <1>2, <2>2, <2>3 DEF UiOk, Counts, SuccessesAreReal
<1>8. ApiInv
  <2>1. QueueStatus \in Request /\ NoReply \in Reply /\ Answer(QueueStatus) = "queue_status"
    BY AsksAreRequests DEF QueueStatus, NoReply, Reply, Answer, Status
  <2>2. ApiTypes
    BY <2>1 DEF ApiTypes
  <2>. QED
    BY <2>1, <2>2 DEF ApiInv, ConnectionIsOwn, RepliesAreOwn, NoReply, QueueStatus, Outcome
<1>. QED
  BY <1>5, <1>6, <1>7, <1>8 DEF WsInv, UiInv

LEMMA WsInvStep == WsInv /\ [Next]_vars => WsInv'
<1>. SUFFICES ASSUME WsInv, [Next]_vars
              PROVE  WsInv'
  OBVIOUS
<1>1. ServerInv /\ UiInv /\ ApiInv /\ party \in Parties /\ WsTypeOK /\ UiTypes /\ ApiTypes
  BY DEF WsInv, ServerInv, UiInv, ApiInv
<1>2. CASE Serves \/ Breaks
  <2>1. /\ \/ \E c \in Conn : Endpoint(c) \/ Break(c)
           \/ \E j \in Job : Workers(j)
        /\ UNCHANGED uiVars /\ UNCHANGED apiVars
    BY <1>2 DEF Serves, Server, Breaks
  <2>2. ServerInv' /\ JobsKeep
    <3>1. JobsKeep
      BY <1>1, <1>2, ServiceStep, ServiceKeeps DEF Next, ServerInv, WsTypeOK
    <3>. QED
      BY <1>1, <2>1, <3>1, EndpointKeeps, WorkersKeep, BreakStep
  <2>3. UiInv'
    BY <1>1, <2>1, <2>2, ServesKeepsUi
  <2>4. ApiInv'
    BY <1>1, <2>1, <2>2, ServesKeepsApi
  <2>. QED
    BY <1>1, <2>1, <2>2, <2>3, <2>4 DEF WsInv, uiVars
<1>3. ASSUME NEW u \in Ui, UiCall(u)
      PROVE  WsInv'
  <2>1. ServerInv' /\ JobsKeep /\ UiInv'
    BY <1>1, <1>3, UiCallStep
  <2>2. ApiInv'
    BY <1>1, <1>3, <2>1, UiKeepsApi
  <2>3. party' = party
    BY <1>3 DEF UiCall, UiConnects, UiCannotConnect, UiTakesInit, UiLosesInit, UiSends, UiReads,
                UiGivesUp
  <2>. QED
    BY <1>1, <2>1, <2>2, <2>3 DEF WsInv
<1>4. CASE ApiCall
  <2>1. ServerInv' /\ JobsKeep /\ UiInv'
    BY <1>1, <1>4, ApiKeepsUi
  <2>2. ApiInv'
    BY <1>1, <1>4, <2>1, ApiCallStep
  <2>3. party' = party
    BY <1>4 DEF ApiCall, ApiCannotConnect, ApiConnects, ApiReconnects, ApiSends, ApiSendsAgain,
                ApiReads, ApiTimesOut, ApiFails, ApiCloses, ApiReturns, Asks, uiVars
  <2>. QED
    BY <1>1, <2>1, <2>2, <2>3 DEF WsInv
<1>5. CASE UNCHANGED vars
  <2>1. UNCHANGED wsVars /\ UNCHANGED uiVars /\ UNCHANGED apiVars
    BY <1>5 DEF vars
  <2>2. ServerInv' /\ JobsKeep
    BY <1>1, <2>1, StutterStep
  <2>3. UiInv'
    BY <1>1, <2>1 DEF UiInv, UiTypes, UiOk, OneTrace, Counts, SuccessesAreReal, Waiting, Making,
                      Answered, Counted, uiVars, wsVars, wireVars, endpointVars, serviceVars
  <2>4. ApiInv'
    BY <1>1, <2>1, <2>2, ApiQuiet DEF ApiInv, ApiTypes, ConnectionIsOwn, wsVars, wireVars, endpointVars
  <2>. QED
    BY <1>1, <2>1, <2>2, <2>3, <2>4 DEF WsInv, uiVars
<1>. QED
  BY <1>2, <1>3, <1>4, <1>5 DEF Next

LEMMA WsInvariant == Spec => []WsInv
BY WsInvInit, WsInvStep, PTL DEF Spec

-----------------------------------------------------------------------------
(* What follows from it *)

LEMMA WsInvTypes == WsInv => TypeOK
BY DEF WsInv, ServerInv, UiInv, UiTypes, ApiInv, ApiTypes, TypeOK

LEMMA WsInvAddsUp == WsInv => ResultsAddUp
<1>. SUFFICES ASSUME WsInv, NEW u \in Ui
              PROVE  LET successes == {i \in DOMAIN results[u] : results[u][i].ok} IN
                       /\ uiPc[u] = "done" => Len(results[u]) = Cardinality(Requests(u))
                       /\ \A i \in successes :
                            /\ results[u][i].job \in Requests(u)
                            /\ form[results[u][i].job] = "async" => store[results[u][i].job] # "absent"
                            /\ \A k \in successes : results[u][i].job = results[u][k].job => i = k
  BY DEF ResultsAddUp
<1>1. /\ OneTrace(u) /\ Counts(u) /\ SuccessesAreReal(u) /\ sent[u] \subseteq Requests(u)
      /\ results \in [Ui -> Seq(UiResult)]
  BY DEF WsInv, UiInv, UiTypes, UiOk
<1>2. \A i \in DOMAIN results[u] : results[u][i] \in UiResult
  <2>1. results[u] \in Seq(UiResult)
    BY <1>1
  <2>. QED
    BY <2>1
<1>3. \A i \in DOMAIN results[u] : results[u][i].ok => results[u][i] \in Successes
  BY <1>2 DEF Successes
<1>4. \A i \in DOMAIN results[u] : results[u][i].ok => results[u][i].job \in Counted(u)
  BY <1>3 DEF Counted, JobsIn
<1>5. Counted(u) \subseteq Requests(u)
  BY <1>1 DEF OneTrace, Apart
<1>6. \A i, k \in DOMAIN results[u] :
        results[u][i].ok /\ results[u][k].ok /\ results[u][i].job = results[u][k].job => i = k
  BY <1>1, <1>3 DEF OneTrace, OnceIn
<1>7. uiPc[u] = "done" => Len(results[u]) = Cardinality(Requests(u))
  BY <1>1 DEF Counts
<1>. QED
  BY <1>1, <1>4, <1>5, <1>6, <1>7 DEF SuccessesAreReal

-----------------------------------------------------------------------------
(* Every variable of the WebSocket server and its clients stays in its set,
   and the endpoint of a connection has a job in hand exactly between its
   storing and its submission (websocket_api/server.py). *)
THEOREM WsTypeCorrect == Spec => []TypeOK
BY WsInvariant, WsInvTypes, PTL

(* The job_update of a job, which a worker sends while the endpoint handles
   requests, never overtakes job_created on a connection and is never sent
   twice, however many connections and jobs there are. *)
THEOREM UpdatesComeLast == Spec => []UpdateComesLast
<1>1. WsInv => UpdateComesLast
  BY DEF WsInv, ServerInv
<1>. QED
  BY <1>1, WsInvariant, PTL

(* What a call of WebSocketJobClient returns is the answer to its own request
   and says what is so, although messages carry no request id, calls time out
   and connections are used again (websocket_api/client.py). *)
THEOREM RepliesBelongToCalls == Spec => []RepliesAreOwn
<1>1. WsInv => RepliesAreOwn
  BY DEF WsInv, ApiInv
<1>. QED
  BY <1>1, WsInvariant, PTL

(* A call of the UI over WebSocket ends with one result per request whatever
   breaks, and its successes are different requests of its own that the server
   has taken on, although a late answer is counted for the next request. *)
THEOREM ResultsAlwaysAddUp == Spec => []ResultsAddUp
BY WsInvariant, WsInvAddsUp, PTL
=============================================================================
