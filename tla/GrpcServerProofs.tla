--------------------------- MODULE GrpcServerProofs ---------------------------
(***************************************************************************)
(* What holds of GrpcServer for any number of jobs and watchers: the types,*)
(* that the open streams are the watched ones, that a watcher misses no    *)
(* outcome, and that it is never told anything else after an outcome.      *)
(***************************************************************************)
EXTENDS GrpcServer, JobServiceProofs, SequenceTheorems

-----------------------------------------------------------------------------
(* The inductive invariant *)

\* Every job that was created is in the dict.
CreatedAreListed == \A j \in Job : stage[j] # "new" => \E i \in DOMAIN order : order[i] = j

\* An update is never stale: it is made when the outcome is final.
MailIsTrue ==
  \A w \in Watcher : \A i \in DOMAIN mail[w] :
    LET m == mail[w][i] IN Ended(m.job) /\ m.status = store[m.job]

MailOnce ==
  \A w \in Watcher : \A i, k \in DOMAIN mail[w] : mail[w][i].job = mail[w][k].job => i = k

ToldIsTrue == \A w \in Watcher, j \in Job : told[w][j] \in Outcome => told[w][j] = store[j]

GrpcInv ==
  /\ TypeOK /\ StatusMatchesStage /\ OpenStreamsAreWatched
  /\ CreatedAreListed /\ MailIsTrue /\ MailOnce /\ ToldIsTrue /\ NothingIsMissed

-----------------------------------------------------------------------------
(* The jobs *)

\* What a step may do to the jobs, whatever it does to the watchers.
JobsMoveOn ==
  /\ ServiceTypeOK' /\ StatusMatchesStage'
  /\ \A j \in Job : store[j] \in Outcome => store'[j] = store[j]
  /\ \A j \in Job : Ended(j) => Ended(j)'

LEMMA StatusOf ==
  ASSUME ServiceTypeOK, StatusMatchesStage
  PROVE  /\ \A j \in Job : Ended(j) => store[j] \in Outcome
         /\ \A j \in Job : stage[j] = "new" => store[j] = "absent"
         /\ \A j \in Job : stage[j] = "running" => store[j] = "pending"
BY GrpcAssumption DEF ServiceTypeOK, StatusMatchesStage, Ended, Outcome, Status

LEMMA Types ==
  ASSUME TypeOK
  PROVE  /\ ServiceTypeOK /\ stage \in [Job -> Stage] /\ store \in [Job -> Status]
         /\ order \in Seq(Job) /\ Len(order) \in Nat /\ DOMAIN order = 1..Len(order)
         /\ size \in [Watcher -> Nat] /\ pos \in [Watcher -> Nat]
         /\ \A w \in Watcher : size[w] <= Len(order) /\ pos[w] <= Len(order)
         /\ \A w \in Watcher : /\ mail[w] \in Seq(Update) /\ Len(mail[w]) \in Nat
                               /\ DOMAIN mail[w] = 1..Len(mail[w])
         /\ \A w \in Watcher : \A i \in DOMAIN mail[w] :
              mail[w][i] \in Update /\ mail[w][i].job \in Job
<1>1. ServiceTypeOK /\ order \in Seq(Job) /\ mail \in [Watcher -> Seq(Update)]
  BY DEF TypeOK
<1>2. Len(order) \in Nat /\ DOMAIN order = 1..Len(order)
  BY <1>1
<1>3. stage \in [Job -> Stage] /\ store \in [Job -> Status]
  BY <1>1 DEF ServiceTypeOK
<1>4. /\ size \in [Watcher -> 0..Len(order)] /\ pos \in [Watcher -> 0..Len(order)]
  BY DEF TypeOK
<1>5. /\ size \in [Watcher -> Nat] /\ pos \in [Watcher -> Nat]
      /\ \A w \in Watcher : size[w] <= Len(order) /\ pos[w] <= Len(order)
  BY <1>2, <1>4
<1>6. ASSUME NEW w \in Watcher
      PROVE  /\ mail[w] \in Seq(Update) /\ Len(mail[w]) \in Nat
             /\ DOMAIN mail[w] = 1..Len(mail[w])
  BY <1>1
<1>7. ASSUME NEW w \in Watcher, NEW i \in DOMAIN mail[w]
      PROVE  mail[w][i] \in Update /\ mail[w][i].job \in Job
  <2>1. mail[w][i] \in Update
    BY <1>6
  <2>. QED
    BY <2>1 DEF Update
<1>. QED
  BY <1>1, <1>2, <1>3, <1>5, <1>6, <1>7

LEMMA WorkersMoveOn ==
  ASSUME ServiceTypeOK, StatusMatchesStage, NEW j \in Job, Workers(j)
  PROVE  JobsMoveOn
<1>1. \/ Claim(j) \/ Begin(j) \/ Close(j)
      \/ \E outcome \in Outcome : Finish(j, outcome)
  BY DEF Workers, WorkerClaims, WorkerBegins, CallbackReturns, WorkerFinishes
<1>2. [ServiceNext]_serviceVars
  BY <1>1 DEF ServiceNext
<1>3. ServiceTypeOK' /\ StatusMatchesStage'
  BY <1>2, ServiceTypeStep, StatusStep
<1>4. \A k \in Job : store[k] \in Outcome => store'[k] = store[k]
  BY <1>2, OutcomeStays, GrpcAssumption
<1>5. \A k \in Job : Ended(k) => Ended(k)'
  BY <1>1 DEF Claim, Begin, Close, Finish, Move, Ended, ServiceTypeOK
<1>. QED
  BY <1>3, <1>4, <1>5 DEF JobsMoveOn

LEMMA CreatedMoveOn ==
  ASSUME ServiceTypeOK, StatusMatchesStage, NEW j \in Job, Create(j)
  PROVE  JobsMoveOn
<1>1. stage[j] = "new" /\ store[j] = "absent"
  BY StatusOf DEF Create, CreateAccepted, CreateRejected
<1>. USE DEF ServiceTypeOK, StatusMatchesStage, Ended, Status, Outcome, Stage, Move
<1>2. CASE CreateAccepted(j)
  BY <1>1, <1>2 DEF CreateAccepted, JobsMoveOn
<1>3. CASE CreateRejected(j)
  BY <1>1, <1>3 DEF CreateRejected, JobsMoveOn
<1>. QED
  BY <1>2, <1>3 DEF Create

LEMMA IdleJobsMoveOn ==
  ASSUME ServiceTypeOK, StatusMatchesStage, UNCHANGED serviceVars
  PROVE  JobsMoveOn
BY DEF ServiceTypeOK, StatusMatchesStage, Ended, JobsMoveOn, serviceVars

-----------------------------------------------------------------------------
(* The steps *)

\* The parts of GrpcInv that speak of the watchers' queues and clients stay
\* as they are while jobs only move on.
LEMMA MailStays ==
  ASSUME GrpcInv, JobsMoveOn, UNCHANGED <<mail, told>>
  PROVE  MailIsTrue' /\ MailOnce' /\ ToldIsTrue'
<1>. USE DEF GrpcInv
<1>1. MailIsTrue'
  <2>. SUFFICES ASSUME NEW w \in Watcher, NEW i \in DOMAIN mail[w]
                PROVE  Ended(mail[w][i].job)' /\ mail[w][i].status = store'[mail[w][i].job]
    BY DEF MailIsTrue
  <2>1. mail[w][i].job \in Job
    BY Types
  <2>2. Ended(mail[w][i].job) /\ mail[w][i].status = store[mail[w][i].job]
    BY DEF MailIsTrue
  <2>. QED
    BY <2>1, <2>2, StatusOf, Types DEF JobsMoveOn
<1>2. MailOnce' /\ ToldIsTrue'
  BY DEF MailOnce, ToldIsTrue, JobsMoveOn
<1>. QED
  BY <1>1, <1>2

LEMMA CreateStep ==
  ASSUME GrpcInv, NEW j \in Job, Create(j)
  PROVE  GrpcInv'
<1>. USE DEF GrpcInv
<1>1. /\ stage[j] = "new" /\ order' = Append(order, j)
      /\ \E s \in {"waiting", "rejected"} : stage' = [stage EXCEPT ![j] = s]
      /\ UNCHANGED <<watchers, phase, size, pos, mail, told>>
      /\ \A k \in Job \ {j} : store'[k] = store[k]
  BY DEF Create, CreateAccepted, CreateRejected, Move, watchVars, TypeOK, ServiceTypeOK
<1>2. JobsMoveOn
  BY CreatedMoveOn DEF TypeOK
<1>3. MailIsTrue' /\ MailOnce' /\ ToldIsTrue'
  BY <1>1, <1>2, MailStays
<1>4. /\ order \in Seq(Job) /\ Len(order) \in Nat
      /\ DOMAIN order = 1..Len(order) /\ order' \in Seq(Job)
      /\ Len(order') = Len(order) + 1 /\ DOMAIN order' = 1..(Len(order) + 1)
      /\ \A i \in 1..Len(order) : order'[i] = order[i]
      /\ order'[Len(order) + 1] = j
  <2>1. order \in Seq(Job)
    BY Types
  <2>. QED
    BY <1>1, <2>1
<1>5. Len(order') = Cardinality(Job \ At("new"))'
  <2>. DEFINE C == Job \ At("new")
  <2>1. /\ C' = C \cup {j} /\ j \notin C /\ IsFiniteSet(C)
    BY <1>1, ServiceAssumption, FS_Subset DEF At, TypeOK, ServiceTypeOK
  <2>2. Cardinality(C') = Cardinality(C) + 1
    BY <2>1, FS_AddElement
  <2>3. Len(order) = Cardinality(C)
    BY DEF TypeOK
  <2>. HIDE DEF C
  <2>4. Len(order') = Cardinality(C')
    BY <1>4, <2>2, <2>3
  <2>. QED
    BY <2>4 DEF C
<1>6. TypeOK'
  <2>1. /\ watchers' \subseteq Watcher
        /\ phase' \in [Watcher -> {"new", "listing", "streaming", "leaving", "ended", "broken"}]
        /\ mail' \in [Watcher -> Seq(Update)]
        /\ \A w \in Watcher : Len(mail'[w]) <= Cardinality(Job)
        /\ told' \in [Watcher -> [Job -> Status]]
    BY <1>1 DEF TypeOK
  <2>2. size' \in [Watcher -> 0..(Len(order) + 1)] /\ pos' \in [Watcher -> 0..(Len(order) + 1)]
    BY <1>1, <1>4, Types
  <2>. QED
    BY <1>2, <1>4, <1>5, <2>1, <2>2 DEF TypeOK, JobsMoveOn
<1>7. OpenStreamsAreWatched'
  BY <1>1 DEF OpenStreamsAreWatched
<1>8. CreatedAreListed'
  <2>. SUFFICES ASSUME NEW k \in Job, stage'[k] # "new"
                PROVE  \E i \in DOMAIN order' : order'[i] = k
    BY DEF CreatedAreListed
  <2>1. CASE k = j
    BY <2>1, <1>4
  <2>2. CASE k # j
    <3>1. stage[k] # "new"
      BY <2>2, <1>1, Types
    <3>. QED
      BY <3>1, <1>4 DEF CreatedAreListed
  <2>. QED
    BY <2>1, <2>2
<1>9. NothingIsMissed'
  <2>. SUFFICES ASSUME NEW w \in Watcher, NEW k \in Job, Watching(w), Ended(k)'
                PROVE  told[w][k] = store'[k] \/ OnItsWay(w, k)'
    BY <1>1 DEF NothingIsMissed, Watching
  <2>1. k # j /\ Ended(k) /\ store'[k] = store[k]
    BY <1>1 DEF Ended, TypeOK, ServiceTypeOK
  <2>2. told[w][k] = store[k] \/ OnItsWay(w, k)
    BY <2>1 DEF NothingIsMissed
  <2>3. pos[w] \in Nat
    BY DEF TypeOK
  <2>4. OnItsWay(w, k) => OnItsWay(w, k)'
    BY <1>1, <1>4, <2>1, <2>3 DEF OnItsWay
  <2>. QED
    BY <2>1, <2>2, <2>4
<1>. QED
  BY <1>2, <1>3, <1>6, <1>7, <1>8, <1>9 DEF JobsMoveOn

\* A worker's step that makes no update.
LEMMA SilentWorkerStep ==
  ASSUME GrpcInv, NEW j \in Job, WorkerClaims(j) \/ WorkerBegins(j) \/ CallbackReturns(j)
  PROVE  GrpcInv'
<1>. USE DEF GrpcInv
<1>1. /\ UNCHANGED <<store, order, watchers, phase, size, pos, mail, told>>
      /\ stage[j] \in {"waiting", "claimed", "notifying"}
      /\ \E s \in {"claimed", "running", "closed"} : stage' = [stage EXCEPT ![j] = s]
      /\ stage[j] = "claimed" => stage'[j] = "running"
      /\ stage[j] = "waiting" => stage'[j] = "claimed"
      /\ stage[j] = "notifying" => stage'[j] = "closed"
  BY StatusOf, GrpcAssumption
     DEF WorkerClaims, WorkerBegins, CallbackReturns, Claim, Begin, Close, Move, watchVars, TypeOK,
         ServiceTypeOK, StatusMatchesStage
<1>2. JobsMoveOn
  BY WorkersMoveOn DEF TypeOK, Workers
<1>3. MailIsTrue' /\ MailOnce' /\ ToldIsTrue'
  BY <1>1, <1>2, MailStays
<1>4. At("new")' = At("new") /\ \A k \in Job : Ended(k)' <=> Ended(k)
  BY <1>1, Types DEF At, Ended
<1>5. TypeOK'
  BY <1>1, <1>2, <1>4 DEF TypeOK, JobsMoveOn
<1>6. OpenStreamsAreWatched' /\ CreatedAreListed'
  BY <1>1, <1>4 DEF OpenStreamsAreWatched, CreatedAreListed, At
<1>7. NothingIsMissed'
  BY <1>1, <1>4 DEF NothingIsMissed, Watching, OnItsWay
<1>. QED
  BY <1>2, <1>3, <1>5, <1>6, <1>7 DEF JobsMoveOn

\* A worker stores an outcome and puts it into the queue of every watcher.
LEMMA FinishStep ==
  ASSUME GrpcInv, NEW j \in Job, NEW outcome \in Outcome, WorkerFinishes(j, outcome)
  PROVE  GrpcInv'
<1>. USE DEF GrpcInv
<1>. DEFINE m == [job |-> j, status |-> outcome]
<1>1. /\ stage[j] = "running" /\ stage' = [stage EXCEPT ![j] = "notifying"]
      /\ store' = [store EXCEPT ![j] = outcome]
      /\ \A w \in Watcher : mail'[w] = IF w \in watchers THEN Append(mail[w], m) ELSE mail[w]
      /\ mail' = [w \in Watcher |-> IF w \in watchers THEN Append(mail[w], m) ELSE mail[w]]
      /\ UNCHANGED <<order, watchers, phase, size, pos, told>>
  BY DEF WorkerFinishes, Finish, PutAll, Move
<1>2. JobsMoveOn
  BY WorkersMoveOn DEF TypeOK, Workers
<1>3. /\ stage'[j] = "notifying" /\ store'[j] = outcome /\ store[j] = "pending"
      /\ \A k \in Job \ {j} : stage'[k] = stage[k] /\ store'[k] = store[k]
      /\ \A k \in Job \ {j} : Ended(k)' <=> Ended(k)
      /\ ~Ended(j) /\ Ended(j)' /\ m \in Update /\ m.job = j /\ m.status = outcome
  BY <1>1, Types, StatusOf DEF Ended, Update
<1>. HIDE DEF m
<1>4. At("new")' = At("new")
  BY <1>1, <1>3, Types DEF At
<1>5. ASSUME NEW w \in Watcher
      PROVE  /\ mail'[w] \in Seq(Update)
             /\ Len(mail[w]) \in Nat /\ DOMAIN mail[w] = 1..Len(mail[w])
             /\ DOMAIN mail'[w] = IF w \in watchers THEN 1..(Len(mail[w]) + 1)
                                                   ELSE DOMAIN mail[w]
             /\ \A i \in DOMAIN mail[w] :
                  mail'[w][i] = mail[w][i] /\ mail[w][i].job \in Job
             /\ w \in watchers => mail'[w][Len(mail[w]) + 1] = m
  <2>1. /\ mail[w] \in Seq(Update) /\ Len(mail[w]) \in Nat
        /\ DOMAIN mail[w] = 1..Len(mail[w])
        /\ \A i \in DOMAIN mail[w] : mail[w][i].job \in Job
    BY Types
  <2>2. mail'[w] = IF w \in watchers THEN Append(mail[w], m) ELSE mail[w]
    BY <1>1
  <2>. QED
    BY <1>3, <2>1, <2>2
\* The job has ended just now: it is in no queue yet.
<1>6. \A w \in Watcher : \A i \in DOMAIN mail[w] :
        /\ mail[w][i].job \in Job \ {j}
        /\ Ended(mail[w][i].job) /\ mail[w][i].status = store[mail[w][i].job]
  BY <1>3, Types DEF MailIsTrue
<1>7. MailIsTrue'
  <2>. SUFFICES ASSUME NEW w \in Watcher, NEW i \in DOMAIN mail'[w]
                PROVE  /\ stage'[mail'[w][i].job] \in {"notifying", "closed"}
                       /\ mail'[w][i].status = store'[mail'[w][i].job]
    BY DEF MailIsTrue, Ended
  <2>1. CASE i \in DOMAIN mail[w]
    <3>1. mail'[w][i] = mail[w][i] /\ mail[w][i].job \in Job \ {j}
      BY <2>1, <1>5, <1>6
    <3>2. stage'[mail[w][i].job] \in {"notifying", "closed"}
      BY <2>1, <3>1, <1>3, <1>6 DEF Ended
    <3>. QED
      BY <2>1, <3>1, <3>2, <1>3, <1>6
  <2>2. CASE i \notin DOMAIN mail[w]
    <3>1. mail'[w][i] = m
      BY <2>2, <1>5
    <3>. QED
      BY <3>1, <1>3
  <2>. QED
    BY <2>1, <2>2
<1>8. MailOnce'
  <2>. SUFFICES ASSUME NEW w \in Watcher, NEW i \in DOMAIN mail'[w], NEW k \in DOMAIN mail'[w],
                       mail'[w][i].job = mail'[w][k].job
                PROVE  i = k
    BY DEF MailOnce
  <2>1. \A n \in DOMAIN mail'[w] :
          \/ n \in DOMAIN mail[w] /\ mail'[w][n] = mail[w][n] /\ mail'[w][n].job # j
          \/ n = Len(mail[w]) + 1 /\ n \notin DOMAIN mail[w] /\ mail'[w][n].job = j
    BY <1>3, <1>5, <1>6
  <2>. QED
    BY <2>1 DEF MailOnce
<1>9. ToldIsTrue'
  BY <1>1, <1>3 DEF ToldIsTrue, Outcome
<1>10. TypeOK'
  <2>1. \A w \in Watcher : Len(mail'[w]) <= Cardinality(Job)
    <3>. SUFFICES ASSUME NEW w \in Watcher
                  PROVE  Len(mail'[w]) <= Cardinality(Job)
      OBVIOUS
    <3>1. mail'[w] \in Seq(Update) /\ \A i \in DOMAIN mail'[w] : mail'[w][i].job \in Job
      <4>1. mail'[w] \in Seq(Update)
        BY <1>5
      <4>2. \A i \in DOMAIN mail'[w] : mail'[w][i] \in Update
        BY <4>1
      <4>. QED
        BY <4>1, <4>2 DEF Update
    <3>. DEFINE n == Len(mail'[w])
                f == [i \in 1..n |-> mail'[w][i].job]
    <3>2. n \in Nat /\ DOMAIN mail'[w] = 1..n
      BY <3>1
    <3>3. f \in Injection(1..n, Job)
      BY <3>1, <3>2, <1>8 DEF Injection, IsInjective, MailOnce
    <3>4. Cardinality(1..n) = n
      BY <3>2, FS_Interval
    <3>. HIDE DEF f, n
    <3>5. Cardinality(1..n) <= Cardinality(Job)
      BY <3>3, FS_Injection, ServiceAssumption
    <3>. QED
      BY <3>4, <3>5 DEF n
  <2>2. mail' \in [Watcher -> Seq(Update)]
    BY <1>1, <1>5
  <2>3. Len(order') = Cardinality(Job \ At("new"))'
    BY <1>1, <1>4 DEF TypeOK
  <2>. QED
    BY <1>1, <1>2, <2>1, <2>2, <2>3 DEF TypeOK, JobsMoveOn
<1>11. OpenStreamsAreWatched' /\ CreatedAreListed'
  BY <1>1, <1>3 DEF OpenStreamsAreWatched, CreatedAreListed
<1>12. NothingIsMissed'
  <2>. SUFFICES ASSUME NEW w \in Watcher, NEW k \in Job, Watching(w), Ended(k)'
                PROVE  told[w][k] = store'[k] \/ OnItsWay(w, k)'
    BY <1>1 DEF NothingIsMissed, Watching
  <2>1. CASE k = j
    <3>1. w \in watchers
      BY DEF OpenStreamsAreWatched, Watching
    <3>2. Len(mail[w]) + 1 \in DOMAIN mail'[w] /\ mail'[w][Len(mail[w]) + 1] = m
      BY <3>1, <1>5
    <3>. QED
      BY <2>1, <3>2, <1>3 DEF OnItsWay, m
  <2>2. CASE k # j
    <3>1. Ended(k) /\ store'[k] = store[k]
      BY <2>2, <1>3
    <3>2. told[w][k] = store[k] \/ OnItsWay(w, k)
      BY <3>1 DEF NothingIsMissed
    <3>3. OnItsWay(w, k) => OnItsWay(w, k)'
      BY <1>1, <1>5, <3>1 DEF OnItsWay
    <3>. QED
      BY <3>1, <3>2, <3>3
  <2>. QED
    BY <2>1, <2>2
<1>. QED
  BY <1>2, <1>7, <1>8, <1>9, <1>10, <1>11, <1>12 DEF JobsMoveOn

\* A step of one call of WatchJobs: its queue keeps a part of what it holds,
\* and its client is told what is in the store.
LEMMA WatcherFrame ==
  ASSUME GrpcInv, NEW w \in Watcher,
         UNCHANGED <<serviceVars, order>>,
         NEW p \in {"listing", "streaming", "leaving", "ended", "broken"},
         phase' = [phase EXCEPT ![w] = p],
         watchers' = IF p \in {"listing", "streaming", "leaving"} THEN watchers \cup {w}
                                                                ELSE watchers \ {w},
         size' \in [Watcher -> 0..Len(order)], pos' \in [Watcher -> 0..Len(order)],
         \A v \in Watcher \ {w} : pos'[v] = pos[v],
         NEW q, mail' = [mail EXCEPT ![w] = q],
         q \in {mail[w], <<>>} \/ (mail[w] # <<>> /\ q = Tail(mail[w])),
         NEW f \in [Job -> Status], told' = [told EXCEPT ![w] = f],
         \A j \in Job : f[j] \in {told[w][j], store[j]},
         p \in {"listing", "streaming"} =>
           \A j \in Job : Ended(j) => f[j] = store[j] \/ OnItsWay(w, j)'
  PROVE  GrpcInv'
<1>. USE DEF GrpcInv
<1>1. UNCHANGED <<store, stage>> /\ JobsMoveOn
  BY IdleJobsMoveOn DEF serviceVars, TypeOK
<1>2. /\ mail[w] \in Seq(Update) /\ Len(mail[w]) \in Nat /\ DOMAIN mail[w] = 1..Len(mail[w])
      /\ mail'[w] = q /\ told'[w] = f /\ phase'[w] = p
      /\ \A v \in Watcher \ {w} : mail'[v] = mail[v] /\ told'[v] = told[v] /\ phase'[v] = phase[v]
  BY Types DEF TypeOK
<1>3. /\ q \in Seq(Update) /\ Len(q) \in Nat /\ DOMAIN q = 1..Len(q) /\ Len(q) <= Len(mail[w])
      /\ \E d \in {0, 1} : \A i \in DOMAIN q : i + d \in DOMAIN mail[w] /\ q[i] = mail[w][i + d]
  <2>1. CASE q = mail[w]
    <3>1. \A i \in DOMAIN q : i + 0 \in DOMAIN mail[w] /\ q[i] = mail[w][i + 0]
      BY <1>2, <2>1
    <3>. QED
      BY <1>2, <2>1, <3>1
  <2>2. CASE q = <<>>
    BY <1>2, <2>2
  <2>3. CASE mail[w] # <<>> /\ q = Tail(mail[w])
    <3>1. /\ q \in Seq(Update) /\ Len(q) = Len(mail[w]) - 1 /\ Len(q) \in Nat
          /\ DOMAIN q = 1..Len(q)
          /\ \A i \in 1..(Len(mail[w]) - 1) : q[i] = mail[w][i + 1]
      BY <1>2, <2>3
    <3>2. \A i \in DOMAIN q : i + 1 \in DOMAIN mail[w] /\ q[i] = mail[w][i + 1]
      BY <1>2, <3>1
    <3>. QED
      BY <1>2, <3>1, <3>2
  <2>. QED
    BY <2>1, <2>2, <2>3
<1>4. PICK d \in {0, 1} : \A i \in DOMAIN q : i + d \in DOMAIN mail[w] /\ q[i] = mail[w][i + d]
  BY <1>3
<1>5. MailIsTrue'
  <2>. SUFFICES ASSUME NEW v \in Watcher, NEW i \in DOMAIN mail'[v]
                PROVE  /\ stage[mail'[v][i].job] \in {"notifying", "closed"}
                       /\ mail'[v][i].status = store[mail'[v][i].job]
    BY <1>1 DEF MailIsTrue, Ended
  <2>1. CASE v = w
    BY <2>1, <1>2, <1>4 DEF MailIsTrue, Ended
  <2>2. CASE v # w
    BY <2>2, <1>2 DEF MailIsTrue, Ended
  <2>. QED
    BY <2>1, <2>2
<1>6. MailOnce'
  <2>. SUFFICES ASSUME NEW v \in Watcher, NEW i \in DOMAIN mail'[v], NEW k \in DOMAIN mail'[v],
                       mail'[v][i].job = mail'[v][k].job
                PROVE  i = k
    BY DEF MailOnce
  <2>1. CASE v = w
    <3>1. i \in DOMAIN q /\ k \in DOMAIN q /\ q[i].job = q[k].job
      BY <2>1, <1>2
    <3>2. i + d \in DOMAIN mail[w] /\ k + d \in DOMAIN mail[w]
          /\ mail[w][i + d].job = mail[w][k + d].job
      BY <3>1, <1>4
    <3>3. i + d = k + d
      BY <3>2 DEF MailOnce
    <3>. QED
      BY <3>1, <3>3, <1>3
  <2>2. CASE v # w
    BY <2>2, <1>2 DEF MailOnce
  <2>. QED
    BY <2>1, <2>2
<1>7. ToldIsTrue'
  <2>. SUFFICES ASSUME NEW v \in Watcher, NEW j \in Job, told'[v][j] \in Outcome
                PROVE  told'[v][j] = store[j]
    BY <1>1 DEF ToldIsTrue
  <2>1. CASE v = w
    <3>1. f[j] \in Outcome /\ told'[v][j] = f[j]
      BY <2>1, <1>2
    <3>. QED
      BY <3>1 DEF ToldIsTrue
  <2>2. CASE v # w
    <3>1. told'[v][j] = told[v][j]
      BY <2>2, <1>2
    <3>. QED
      BY <3>1 DEF ToldIsTrue
  <2>. QED
    BY <2>1, <2>2
<1>8. TypeOK'
  <2>1. phase' \in [Watcher -> {"new", "listing", "streaming", "leaving", "ended", "broken"}]
        /\ watchers' \subseteq Watcher
    BY DEF TypeOK
  <2>2. mail' \in [Watcher -> Seq(Update)] /\ told' \in [Watcher -> [Job -> Status]]
    BY <1>3 DEF TypeOK
  <2>3. \A v \in Watcher : Len(mail'[v]) <= Cardinality(Job)
    <3>1. Cardinality(Job) \in Nat /\ \A v \in Watcher : Len(mail[v]) <= Cardinality(Job)
      BY ServiceAssumption, FS_CardinalityType DEF TypeOK
    <3>. QED
      BY <1>2, <1>3, <3>1
  <2>4. At("new")' = At("new")
    BY <1>1 DEF At
  <2>5. order' \in Seq(Job) /\ Len(order') = Cardinality(Job \ At("new"))'
    BY <2>4 DEF TypeOK
  <2>. QED
    BY <1>1, <2>1, <2>2, <2>3, <2>5 DEF TypeOK, JobsMoveOn
<1>9. OpenStreamsAreWatched'
  BY <1>2 DEF OpenStreamsAreWatched
<1>10. CreatedAreListed'
  BY <1>1 DEF CreatedAreListed
<1>11. NothingIsMissed'
  <2>. SUFFICES ASSUME NEW v \in Watcher, NEW j \in Job, Watching(v)', Ended(j)
                PROVE  told'[v][j] = store[j] \/ OnItsWay(v, j)'
    BY <1>1 DEF NothingIsMissed, Ended
  <2>1. CASE v = w
    BY <2>1, <1>2 DEF Watching
  <2>2. CASE v # w
    <3>1. /\ mail'[v] = mail[v] /\ told'[v] = told[v] /\ phase'[v] = phase[v] /\ pos'[v] = pos[v]
          /\ UNCHANGED <<store, order>>
      BY <2>2, <1>1, <1>2
    <3>2. told[v][j] = store[j] \/ OnItsWay(v, j)
      BY <3>1 DEF NothingIsMissed, Watching
    <3>3. OnItsWay(v, j) => OnItsWay(v, j)'
      BY <3>1 DEF OnItsWay
    <3>. QED
      BY <3>1, <3>2, <3>3
  <2>. QED
    BY <2>1, <2>2
<1>. QED
  BY <1>1, <1>5, <1>6, <1>7, <1>8, <1>9, <1>10, <1>11 DEF JobsMoveOn

LEMMA WatchJobsStep ==
  ASSUME GrpcInv, NEW w \in Watcher, WatchJobs(w)
  PROVE  GrpcInv'
<1>. USE DEF GrpcInv
<1>1. /\ UNCHANGED <<serviceVars, order>> /\ UNCHANGED <<store, stage>>
      /\ watchers' = watchers \cup {w}
      /\ size' \in [Watcher -> 0..Len(order)]
      /\ mail' = [mail EXCEPT ![w] = mail[w]] /\ mail[w] \in {mail[w], <<>>}
  <2>1. Len(order) \in 0..Len(order)
    BY Types
  <2>. QED
    BY <2>1 DEF WatchJobs, serviceVars, TypeOK
<1>2. CASE order = <<>>
  <2>1. /\ phase' = [phase EXCEPT ![w] = "streaming"]
        /\ pos' = pos /\ told' = [told EXCEPT ![w] = told[w]] /\ told[w] \in [Job -> Status]
    BY <1>2 DEF WatchJobs, Enter, TypeOK
  <2>2. pos' \in [Watcher -> 0..Len(order)] /\ \A v \in Watcher \ {w} : pos'[v] = pos[v]
    BY <2>1 DEF TypeOK
  <2>3. \A j \in Job : ~Ended(j)
    BY <1>2 DEF CreatedAreListed, Ended
  <2>. QED
    BY <1>1, <2>1, <2>2, <2>3, WatcherFrame
<1>3. CASE order # <<>>
  <2>1. /\ Head(order) \in Job /\ Len(order) > 0 /\ Head(order) = order[1]
        /\ Len(order) \in Nat /\ DOMAIN order = 1..Len(order)
    <3>1. order \in Seq(Job)
      BY Types
    <3>. QED
      BY <1>3, <3>1
  <2>. DEFINE f == [told[w] EXCEPT ![Head(order)] = store[Head(order)]]
  <2>2. /\ phase' = [phase EXCEPT ![w] = "listing"]
        /\ pos' = [pos EXCEPT ![w] = 1]
        /\ told' = [told EXCEPT ![w] = f]
    BY <1>3 DEF WatchJobs, Enter, Tell, TypeOK
  <2>3. f \in [Job -> Status] /\ \A j \in Job : f[j] \in {told[w][j], store[j]}
        /\ f[order[1]] = store[order[1]]
    BY <2>1, Types DEF TypeOK
  <2>. HIDE DEF f
  <2>4. /\ pos' \in [Watcher -> 0..Len(order)] /\ pos'[w] = 1
        /\ \A v \in Watcher \ {w} : pos'[v] = pos[v]
    <3>1. 1 \in 0..Len(order)
      BY <2>1
    <3>. QED
      BY <2>2, <3>1 DEF TypeOK
  <2>5. ASSUME NEW j \in Job, Ended(j)
        PROVE  f[j] = store[j] \/ OnItsWay(w, j)'
    <3>1. PICK i \in DOMAIN order : order[i] = j
      BY <2>5 DEF CreatedAreListed, Ended
    <3>2. CASE i = 1
      BY <3>1, <3>2, <2>3
    <3>3. CASE i # 1
      <4>1. i \in (pos'[w] + 1)..Len(order) /\ phase'[w] = "listing"
        BY <3>3, <2>1, <2>2, <2>4 DEF TypeOK
      <4>. QED
        BY <1>1, <3>1, <4>1 DEF OnItsWay
    <3>. QED
      BY <3>2, <3>3
  <2>. QED
    BY <1>1, <2>2, <2>3, <2>4, <2>5, WatcherFrame
<1>. QED
  BY <1>2, <1>3

LEMMA ListNextStep ==
  ASSUME GrpcInv, NEW w \in Watcher, ListNext(w)
  PROVE  GrpcInv'
<1>. USE DEF GrpcInv
<1>. DEFINE n == pos[w] + 1
            f == [told[w] EXCEPT ![order[n]] = store[order[n]]]
<1>1. /\ UNCHANGED <<serviceVars, order>> /\ UNCHANGED <<store, stage>>
      /\ phase[w] = "listing" /\ phase' = [phase EXCEPT ![w] = "listing"]
      /\ watchers' = watchers \cup {w}
      /\ size' \in [Watcher -> 0..Len(order)]
      /\ mail' = [mail EXCEPT ![w] = mail[w]] /\ mail[w] \in {mail[w], <<>>}
      /\ Len(order) = size[w] /\ pos[w] < size[w]
      /\ pos' = [pos EXCEPT ![w] = n]
      /\ told' = [told EXCEPT ![w] = f]
  BY DEF ListNext, Tell, serviceVars, TypeOK, OpenStreamsAreWatched
<1>2. pos[w] \in Nat /\ Len(order) \in Nat /\ DOMAIN order = 1..Len(order)
  BY Types
<1>3. n \in Nat /\ n \in 1..Len(order) /\ n \in 0..Len(order)
  BY <1>1, <1>2
<1>4. order[n] \in Job
  BY <1>2, <1>3, Types
<1>. HIDE DEF n
<1>5. f \in [Job -> Status] /\ (\A j \in Job : f[j] \in {told[w][j], store[j]})
      /\ f[order[n]] = store[order[n]] /\ (\A j \in Job \ {order[n]} : f[j] = told[w][j])
  BY <1>4, Types DEF TypeOK
<1>. HIDE DEF f
<1>6. /\ pos' \in [Watcher -> 0..Len(order)] /\ pos'[w] = n
      /\ \A v \in Watcher \ {w} : pos'[v] = pos[v]
  BY <1>1, <1>3 DEF TypeOK
<1>7. ASSUME NEW j \in Job, Ended(j)
      PROVE  f[j] = store[j] \/ OnItsWay(w, j)'
  <2>1. CASE j = order[n]
    BY <2>1, <1>5
  <2>2. CASE j # order[n]
    <3>1. told[w][j] = store[j] \/ OnItsWay(w, j)
      BY <1>1, <1>7 DEF NothingIsMissed, Watching
    <3>2. ASSUME NEW i \in n..Len(order), order[i] = j
          PROVE  i \in (n + 1)..Len(order)
      BY <2>2, <3>2, <1>3
    <3>3. OnItsWay(w, j) => OnItsWay(w, j)'
      BY <1>1, <1>6, <3>2 DEF OnItsWay, n
    <3>. QED
      BY <2>2, <3>1, <3>3, <1>5
  <2>. QED
    BY <2>1, <2>2
<1>. QED
  BY <1>1, <1>5, <1>6, <1>7, WatcherFrame

LEMMA DeliverStep ==
  ASSUME GrpcInv, NEW w \in Watcher, Deliver(w)
  PROVE  GrpcInv'
<1>. USE DEF GrpcInv
<1>1. /\ mail[w] # <<>> /\ mail[w] \in Seq(Update) /\ Len(mail[w]) \in Nat
      /\ DOMAIN mail[w] = 1..Len(mail[w])
  BY Types DEF Deliver
<1>2. /\ Len(mail[w]) > 0 /\ Head(mail[w]) = mail[w][1]
      /\ DOMAIN Tail(mail[w]) = 1..(Len(mail[w]) - 1)
      /\ \A i \in 1..(Len(mail[w]) - 1) : Tail(mail[w])[i] = mail[w][i + 1]
  BY <1>1
<1>. DEFINE k == Head(mail[w]).job
            f == [told[w] EXCEPT ![k] = store[k]]
<1>3. k \in Job /\ Head(mail[w]).status = store[k]
  BY <1>1, <1>2, Types DEF MailIsTrue
<1>4. /\ UNCHANGED <<serviceVars, order>> /\ UNCHANGED <<store, stage>>
      /\ phase[w] = "streaming" /\ phase' = [phase EXCEPT ![w] = "streaming"]
      /\ watchers' = watchers \cup {w}
      /\ size' \in [Watcher -> 0..Len(order)] /\ pos' \in [Watcher -> 0..Len(order)]
      /\ pos' = pos
      /\ mail' = [mail EXCEPT ![w] = Tail(mail[w])]
      /\ told' = [told EXCEPT ![w] = f]
  BY <1>3 DEF Deliver, Tell, serviceVars, TypeOK, OpenStreamsAreWatched
<1>. HIDE DEF k
<1>5. f \in [Job -> Status] /\ (\A j \in Job : f[j] \in {told[w][j], store[j]})
      /\ f[k] = store[k] /\ (\A j \in Job \ {k} : f[j] = told[w][j])
  BY <1>3, Types DEF TypeOK
<1>. HIDE DEF f
<1>6. ASSUME NEW j \in Job, Ended(j)
      PROVE  f[j] = store[j] \/ OnItsWay(w, j)'
  <2>1. CASE j = k
    BY <2>1, <1>5
  <2>2. CASE j # k
    <3>1. told[w][j] = store[j] \/ OnItsWay(w, j)
      BY <1>4, <1>6 DEF NothingIsMissed, Watching
    <3>2. ASSUME NEW i \in DOMAIN mail[w], mail[w][i] = [job |-> j, status |-> store[j]]
          PROVE  OnItsWay(w, j)'
      <4>1. i # 1
        BY <2>2, <3>2, <1>2 DEF k
      <4>2. i - 1 \in DOMAIN Tail(mail[w]) /\ Tail(mail[w])[i - 1] = mail[w][i]
        BY <4>1, <1>1, <1>2
      <4>3. mail'[w] = Tail(mail[w])
        BY <1>4 DEF TypeOK
      <4>. QED
        BY <4>2, <4>3, <3>2, <1>4 DEF OnItsWay
    <3>3. OnItsWay(w, j) => OnItsWay(w, j)'
      BY <1>4, <3>2 DEF OnItsWay
    <3>. QED
      BY <2>2, <3>1, <3>3, <1>5
  <2>. QED
    BY <2>1, <2>2
<1>. QED
  BY <1>1, <1>4, <1>5, <1>6, WatcherFrame

\* The steps that tell the client nothing.
LEMMA EndingStep ==
  ASSUME GrpcInv, NEW w \in Watcher,
         ListEnds(w) \/ ListBreaks(w) \/ ClientLeaves(w) \/ RemoveWatcher(w)
  PROVE  GrpcInv'
<1>. USE DEF GrpcInv
<1>1. /\ UNCHANGED <<serviceVars, order>> /\ UNCHANGED <<store, stage>>
      /\ size' \in [Watcher -> 0..Len(order)] /\ pos' \in [Watcher -> 0..Len(order)]
      /\ pos' = pos
      /\ told' = [told EXCEPT ![w] = told[w]] /\ told[w] \in [Job -> Status]
  BY DEF ListEnds, ListBreaks, ClientLeaves, RemoveWatcher, serviceVars, TypeOK
<1>2. CASE ListEnds(w)
  <2>1. /\ phase[w] = "listing" /\ phase' = [phase EXCEPT ![w] = "streaming"]
        /\ watchers' = watchers \cup {w}
        /\ mail' = [mail EXCEPT ![w] = mail[w]] /\ mail[w] \in {mail[w], <<>>}
        /\ Len(order) = size[w] /\ pos[w] = size[w]
    BY <1>2 DEF ListEnds, Enter, TypeOK, OpenStreamsAreWatched
  <2>2. ASSUME NEW j \in Job, Ended(j)
        PROVE  told[w][j] = store[j] \/ OnItsWay(w, j)'
    <3>1. told[w][j] = store[j] \/ OnItsWay(w, j)
      BY <2>1, <2>2 DEF NothingIsMissed, Watching
    <3>2. (pos[w] + 1)..Len(order) = {}
      BY <2>1, Types
    <3>3. mail'[w] = mail[w]
      BY <2>1 DEF TypeOK
    <3>4. OnItsWay(w, j) => OnItsWay(w, j)'
      BY <1>1, <3>2, <3>3 DEF OnItsWay
    <3>. QED
      BY <3>1, <3>4
  <2>. QED
    BY <1>1, <2>1, <2>2, WatcherFrame
<1>3. CASE ListBreaks(w)
  <2>1. /\ phase' = [phase EXCEPT ![w] = "broken"] /\ watchers' = watchers \ {w}
        /\ mail' = [mail EXCEPT ![w] = <<>>]
    BY <1>3 DEF ListBreaks, Enter
  <2>. QED
    BY <1>1, <2>1, WatcherFrame
<1>4. CASE ClientLeaves(w)
  <2>1. /\ phase' = [phase EXCEPT ![w] = "leaving"] /\ watchers' = watchers \cup {w}
        /\ mail' = [mail EXCEPT ![w] = mail[w]] /\ mail[w] \in {mail[w], <<>>}
    BY <1>4 DEF ClientLeaves, Enter, TypeOK, OpenStreamsAreWatched
  <2>. QED
    BY <1>1, <2>1, WatcherFrame
<1>5. CASE RemoveWatcher(w)
  <2>1. /\ phase' = [phase EXCEPT ![w] = "ended"] /\ watchers' = watchers \ {w}
        /\ mail' = [mail EXCEPT ![w] = <<>>]
    BY <1>5 DEF RemoveWatcher, Enter
  <2>. QED
    BY <1>1, <2>1, WatcherFrame
<1>. QED
  BY <1>2, <1>3, <1>4, <1>5

-----------------------------------------------------------------------------
(* The theorems *)

LEMMA GrpcInvStep == GrpcInv /\ [Next]_vars => GrpcInv'
<1>. SUFFICES ASSUME GrpcInv, [Next]_vars PROVE GrpcInv'
  OBVIOUS
<1>1. ASSUME NEW j \in Job, Create(j) \/ Workers(j)
      PROVE  GrpcInv'
  BY <1>1, CreateStep, SilentWorkerStep, FinishStep DEF Workers
<1>2. ASSUME NEW w \in Watcher, WatchJobs(w) \/ Stream(w) \/ ClientLeaves(w)
      PROVE  GrpcInv'
  BY <1>2, WatchJobsStep, ListNextStep, DeliverStep, EndingStep DEF Stream
<1>3. CASE UNCHANGED vars
  <2>1. UNCHANGED <<serviceVars, store, stage, order, watchers, phase, size, pos, mail, told>>
    BY <1>3 DEF vars, serviceVars, watchVars
  <2>2. ServiceTypeOK' /\ StatusMatchesStage' /\ MailIsTrue' /\ MailOnce' /\ ToldIsTrue'
    BY <2>1, IdleJobsMoveOn, MailStays DEF GrpcInv, TypeOK, JobsMoveOn
  <2>3. TypeOK'
    BY <2>1, <2>2 DEF GrpcInv, TypeOK, At
  <2>4. OpenStreamsAreWatched' /\ CreatedAreListed' /\ NothingIsMissed'
    BY <2>1 DEF GrpcInv, OpenStreamsAreWatched, CreatedAreListed, NothingIsMissed, Ended, Watching,
                OnItsWay
  <2>. QED
    BY <2>2, <2>3, <2>4 DEF GrpcInv
<1>. QED
  BY <1>1, <1>2, <1>3 DEF Next

LEMMA GrpcInvInit == Init => GrpcInv
<1>. SUFFICES ASSUME Init PROVE GrpcInv
  OBVIOUS
<1>1. ServiceTypeOK /\ StatusMatchesStage
  BY ServiceBegins DEF Init
<1>2. /\ At("new") = Job /\ Len(order) = 0 /\ order \in Seq(Job)
      /\ \A w \in Watcher : mail[w] = <<>> /\ Len(mail[w]) = 0 /\ DOMAIN mail[w] = {}
      /\ mail \in [Watcher -> Seq(Update)]
  BY EmptySeq DEF Init, ServiceInit, At
<1>3. Cardinality(Job \ At("new")) = 0 /\ 0 <= Cardinality(Job)
  <2>1. Job \ At("new") = {}
    BY <1>2
  <2>2. Cardinality({}) = 0
    BY FS_EmptySet
  <2>3. Cardinality(Job) \in Nat
    BY FS_CardinalityType, ServiceAssumption
  <2>. QED
    BY <2>1, <2>2, <2>3
<1>4. TypeOK
  BY <1>1, <1>2, <1>3 DEF Init, TypeOK, Status
<1>5. /\ OpenStreamsAreWatched /\ CreatedAreListed /\ MailIsTrue /\ MailOnce /\ ToldIsTrue
      /\ NothingIsMissed
  BY <1>2 DEF Init, ServiceInit, OpenStreamsAreWatched, CreatedAreListed, MailIsTrue, MailOnce,
              ToldIsTrue, NothingIsMissed, Watching, Outcome
<1>. QED
  BY <1>1, <1>4, <1>5 DEF GrpcInv

LEMMA GrpcInvariant == Spec => []GrpcInv
BY GrpcInvInit, GrpcInvStep, PTL DEF Spec

(* Every variable of GrpcServer keeps its type, and no watcher's queue ever
   holds more updates than there are jobs. *)
THEOREM GrpcTypeCorrect == Spec => []TypeOK
BY GrpcInvariant, PTL DEF GrpcInv

(* However a stream ends, add_watcher() and remove_watcher() keep the set of
   watchers equal to the streams that are open. *)
THEOREM WatchersAreTheOpenStreams == Spec => []OpenStreamsAreWatched
BY GrpcInvariant, PTL DEF GrpcInv

(* No outcome falls between the initial list of WatchJobs and its updates,
   for any number of jobs and watchers. *)
THEOREM WatchersMissNothing == Spec => []NothingIsMissed
BY GrpcInvariant, PTL DEF GrpcInv

(* A watching client that knows an outcome is never told anything else. *)
THEOREM WatchersNeverGoBack == Spec => NeverBackwards
<1>1. ASSUME GrpcInv, GrpcInv', [Next]_vars, NEW w \in Watcher, NEW j \in Job,
             told[w][j] \in Outcome
      PROVE  told'[w][j] = told[w][j]
  <2>. USE <1>1 DEF GrpcInv
  <2>1. told[w][j] = store[j]
    BY DEF ToldIsTrue
  <2>2. CASE UNCHANGED told
    BY <2>2
  <2>3. ASSUME NEW v \in Watcher, WatchJobs(v) \/ ListNext(v) \/ Deliver(v), told' # told
        PROVE  told'[w][j] = told[w][j]
    <3>1. \E k, status : told' = [told EXCEPT ![v][k] = status] /\ (k = j => status = store[j])
      <4>1. CASE Deliver(v)
        <5>1. /\ mail[v] # <<>> /\ mail[v] \in Seq(Update)
              /\ 1 \in DOMAIN mail[v] /\ Head(mail[v]) = mail[v][1]
          BY <4>1, Types DEF Deliver
        <5>2. Head(mail[v]).status = store[Head(mail[v]).job]
          BY <5>1 DEF MailIsTrue
        <5>. QED
          BY <4>1, <5>2 DEF Deliver, Tell
      <4>2. CASE ListNext(v)
        <5>1. told' = [told EXCEPT ![v][order[pos[v] + 1]] = store[order[pos[v] + 1]]]
          BY <4>2 DEF ListNext, Tell
        <5>. QED
          BY <5>1
      <4>3. CASE WatchJobs(v)
        <5>1. told' = [told EXCEPT ![v][Head(order)] = store[Head(order)]]
          BY <2>3, <4>3 DEF WatchJobs, Tell
        <5>. QED
          BY <5>1
      <4>. QED
        BY <2>3, <4>1, <4>2, <4>3
    <3>. QED
      BY <2>1, <3>1 DEF TypeOK
  <2>4. ASSUME NEW k \in Job, Create(k) \/ Workers(k)
        PROVE  UNCHANGED told
    BY <2>4 DEF Create, CreateAccepted, CreateRejected, Workers, WorkerClaims, WorkerBegins,
                CallbackReturns, WorkerFinishes, watchVars
  <2>5. ASSUME NEW v \in Watcher,
               ListEnds(v) \/ ListBreaks(v) \/ ClientLeaves(v) \/ RemoveWatcher(v)
        PROVE  UNCHANGED told
    BY <2>5 DEF ListEnds, ListBreaks, ClientLeaves, RemoveWatcher
  <2>. QED
    BY <2>2, <2>3, <2>4, <2>5 DEF Next, Stream, vars, watchVars
<1>2. GrpcInv /\ GrpcInv' /\ [Next]_vars =>
        [\A w \in Watcher, j \in Job :
           told[w][j] \in Outcome => told'[w][j] = told[w][j]]_vars
  BY <1>1
<1>. QED
  BY <1>2, GrpcInvariant, PTL DEF Spec, NeverBackwards
=============================================================================
