---------------------------- MODULE MqSystemProofs ----------------------------
(***************************************************************************)
(* What holds of MqSystem for any number of calls: the types, that a reply *)
(* is true, and that a UI call that waits misses no result that its        *)
(* subscription could bring.                                               *)
(***************************************************************************)
EXTENDS MqSystem, JobServiceProofs

-----------------------------------------------------------------------------
(* The inductive invariant *)

\* What a result may say of j: its outcome in the store, or anything of a job
\* that was refused before it got an entry.
Said(j, status) == store[j] = IF j \in Invalid THEN "absent" ELSE status

ResultsAreTrue ==
  /\ \A s \in Subscribers : \A m \in got[s] : Said(m.job, m.status)
  /\ refusing # NoJob => Said(refusing, "failed")

\* The service never hears of an invalid job.
InvalidStayOut == \A j \in Invalid : stage[j] = "new"

NotRequested == {"idle", "subscribed"}

\* Nothing happens to a job before its call has published or posted it.
OnlyRequested ==
  /\ \A i \in DOMAIN requests : call[requests[i]] \notin NotRequested
  /\ refusing # NoJob => call[refusing] \notin NotRequested
  /\ \A j \in Job : stage[j] # "new" \/ j \in published => call[j] \notin NotRequested

UiCallsListen ==
  \A j \in UiJob : /\ call[j] # "posted"
                   /\ call[j] \in {"subscribed", "waiting"} => link[j] # "none"

MqInv ==
  /\ TypeOK /\ StatusMatchesStage /\ RepliesAreTrue /\ UiMissesNothing
  /\ ResultsAreTrue /\ InvalidStayOut /\ OnlyRequested /\ UiCallsListen

-----------------------------------------------------------------------------
(* The jobs *)

LEMMA Types ==
  ASSUME TypeOK
  PROVE  /\ ServiceTypeOK /\ store \in [Job -> Status] /\ stage \in [Job -> Stage]
         /\ call \in [Job -> {"idle", "subscribed", "posted", "waiting", "returned"}]
         /\ reply \in [Job -> Outcome \cup {"none", "timeout", "error"}]
         /\ subscriber \in {"none", "live", "dead"}
         /\ redis \in BOOLEAN /\ link \in [Subscribers -> {"none", "up", "down"}]
         /\ \A j \in UiJob : link[j] # "none" => call[j] \in {"subscribed", "waiting"}
         /\ link[Api] # "none" => subscriber = "live"
         /\ missed \subseteq published /\ Subscribers = UiJob \cup {Api}
         /\ got \in [Subscribers -> SUBSET Result]
         /\ requests \in Seq(Job) /\ Len(requests) \in Nat /\ DOMAIN requests = 1..Len(requests)
         /\ refusing \in Job \cup {NoJob} /\ published \subseteq Job
         /\ UiJob \subseteq Job /\ Api \notin Job /\ NoJob \notin Job /\ UiJob \cap ApiJob = {}
<1>1. requests \in Seq(Job)
  BY DEF TypeOK
<1>2. Len(requests) \in Nat /\ DOMAIN requests = 1..Len(requests)
  BY <1>1
<1>3. ServiceTypeOK /\ store \in [Job -> Status] /\ stage \in [Job -> Stage]
  BY DEF TypeOK, ServiceTypeOK
<1>. QED
  BY <1>1, <1>2, <1>3, MqAssumption DEF TypeOK, Subscribers

LEMMA StatusOf ==
  ASSUME ServiceTypeOK, StatusMatchesStage, NEW j \in Job
  PROVE  /\ stage[j] = "new" <=> store[j] = "absent"
         /\ store[j] \in Outcome <=> stage[j] \in {"rejected", "notifying", "closed"}
BY MqAssumption DEF StatusMatchesStage

\* What every step leaves of the jobs.
JobsKeep ==
  /\ ServiceTypeOK' /\ StatusMatchesStage' /\ InvalidStayOut'
  /\ \A j \in Job : store[j] \in Outcome => store'[j] = store[j]

LEMMA WorkersKeep ==
  ASSUME MqInv, NEW j \in Job, Workers(j)
  PROVE  JobsKeep
<1>1. ServiceTypeOK /\ StatusMatchesStage /\ stage \in [Job -> Stage]
  BY Types DEF MqInv
<1>2. ServiceNext /\ stage[j] # "new"
  BY DEF Workers, WorkerClaims, WorkerBegins, WorkerFinishes, CallbackPublishes, ServiceNext,
         Claim, Begin, Finish, Close
<1>3. \A k \in Job \ {j} : stage'[k] = stage[k]
  BY <1>1 DEF Workers, WorkerClaims, WorkerBegins, WorkerFinishes, CallbackPublishes,
         Claim, Begin, Finish, Close, Move
<1>4. InvalidStayOut'
  BY <1>2, <1>3, MqAssumption DEF MqInv, InvalidStayOut
<1>5. ServiceTypeOK' /\ StatusMatchesStage'
  BY <1>1, <1>2, ServiceTypeStep, StatusStep
<1>6. \A k \in Job : store[k] \in Outcome => store'[k] = store[k]
  BY <1>1, <1>2, OutcomeStays, MqAssumption
<1>. QED
  BY <1>4, <1>5, <1>6 DEF JobsKeep

LEMMA LoopKeeps ==
  ASSUME MqInv, NEW j \in Job, LoopAccepts(j) \/ LoopRejects(j)
  PROVE  /\ JobsKeep /\ j \notin Invalid
         /\ LoopRejects(j) => store'[j] = "failed"
         /\ \A k \in Job \ {j} : stage'[k] = stage[k]
<1>1. /\ ServiceTypeOK /\ StatusMatchesStage /\ stage \in [Job -> Stage] /\ store \in [Job -> Status]
      /\ ticket \in [Job -> Nat] /\ clock \in Nat
  BY Types DEF MqInv, ServiceTypeOK
<1>2. j \notin Invalid /\ stage[j] = "new" /\ store[j] \notin Outcome
  BY <1>1, StatusOf DEF LoopAccepts, LoopRejects
<1>3. CASE LoopAccepts(j)
  <2>1. /\ stage' = [stage EXCEPT ![j] = "waiting"] /\ store' = [store EXCEPT ![j] = "pending"]
        /\ clock' = clock + 1 /\ ticket' = [ticket EXCEPT ![j] = clock + 1]
    BY <1>3 DEF LoopAccepts, Move
  <2>2. ServiceTypeOK'
    BY <1>1, <2>1 DEF ServiceTypeOK, Stage, Status
  <2>3. StatusMatchesStage'
    BY <1>1, <2>1 DEF StatusMatchesStage, Outcome
  <2>. QED
    BY <1>1, <1>2, <1>3, <2>1, <2>2, <2>3
    DEF JobsKeep, InvalidStayOut, MqInv, LoopAccepts, LoopRejects, Outcome
<1>4. CASE LoopRejects(j)
  <2>1. /\ stage' = [stage EXCEPT ![j] = "rejected"] /\ store' = [store EXCEPT ![j] = "failed"]
        /\ ticket' = ticket /\ clock' = clock
    BY <1>4 DEF LoopRejects, Move
  <2>2. ServiceTypeOK'
    BY <1>1, <2>1 DEF ServiceTypeOK, Stage, Status
  <2>3. StatusMatchesStage'
    BY <1>1, <2>1 DEF StatusMatchesStage, Outcome
  <2>. QED
    BY <1>1, <1>2, <1>4, <2>1, <2>2, <2>3
    DEF JobsKeep, InvalidStayOut, MqInv
<1>. QED
  BY <1>3, <1>4

LEMMA OthersKeep ==
  ASSUME MqInv, UNCHANGED serviceVars
  PROVE  JobsKeep
BY DEF MqInv, TypeOK, JobsKeep, serviceVars, ServiceTypeOK, StatusMatchesStage, InvalidStayOut

-----------------------------------------------------------------------------
(* What is said of a job stays true *)

\* The same of the next state.
SaidNext(j, status) == store'[j] = IF j \in Invalid THEN "absent" ELSE status

LEMMA SaidStays ==
  ASSUME JobsKeep, NEW j \in Job, NEW status \in Outcome, Said(j, status)
  PROVE  SaidNext(j, status)
<1>1. CASE j \in Invalid
  <2>1. stage'[j] = "new" /\ j \notin Orphans
    BY <1>1, MqAssumption DEF JobsKeep, InvalidStayOut
  <2>2. store'[j] = "absent"
    BY <2>1 DEF JobsKeep, StatusMatchesStage
  <2>. QED
    BY <1>1, <2>2 DEF SaidNext
<1>2. CASE j \notin Invalid
  BY <1>2 DEF JobsKeep, Said, SaidNext
<1>. QED
  BY <1>1, <1>2

\* A step that only passes on what is true: a message, a reply or a refusal
\* is an old one or says what the store says now.
LEMMA TruthStays ==
  ASSUME MqInv, JobsKeep, got' \in [Subscribers -> SUBSET Result],
         \A s \in Subscribers : \A m \in got'[s] : m \in got[s] \/ SaidNext(m.job, m.status),
         refusing' \in {NoJob, refusing} \/ SaidNext(refusing', "failed"),
         \A j \in Job : reply'[j] \in Outcome => reply'[j] = reply[j] \/ SaidNext(j, reply'[j])
  PROVE  ResultsAreTrue' /\ RepliesAreTrue'
<1>1. /\ TypeOK /\ ResultsAreTrue /\ RepliesAreTrue /\ refusing \in Job \cup {NoJob}
      /\ got \in [Subscribers -> SUBSET Result]
  BY Types DEF MqInv
<1>2. \A j \in Job, status \in Outcome : Said(j, status) => SaidNext(j, status)
  BY SaidStays
<1>3. \A s \in Subscribers : \A m \in got'[s] : SaidNext(m.job, m.status)
  <2>. SUFFICES ASSUME NEW s \in Subscribers, NEW m \in got[s]
                PROVE  SaidNext(m.job, m.status)
    OBVIOUS
  <2>1. m \in Result
    BY <1>1
  <2>2. m.job \in Job /\ m.status \in Outcome
    BY <2>1 DEF Result
  <2>. QED
    BY <1>1, <1>2, <2>2 DEF ResultsAreTrue
<1>4. refusing' # NoJob => SaidNext(refusing', "failed")
  BY <1>1, <1>2 DEF ResultsAreTrue, Outcome
<1>5. \A j \in Job : reply'[j] \in Outcome => SaidNext(j, reply'[j])
  BY <1>1, <1>2 DEF RepliesAreTrue, Said
<1>6. ResultsAreTrue'
  BY <1>3, <1>4 DEF ResultsAreTrue, Said, SaidNext
<1>. QED
  BY <1>5, <1>6 DEF RepliesAreTrue, SaidNext

-----------------------------------------------------------------------------
(* The calls *)

\* A call of the UI ends: its subscription and what it got go together.
LEMMA UiReturnsStep ==
  ASSUME MqInv, NEW j \in UiJob, NEW r, UiReturns(j, r),
         r \in {"timeout", "error"} \/ \E m \in got[j] : m.job = j /\ m.status = r
  PROVE  MqInv'
<1>1. /\ TypeOK /\ StatusMatchesStage /\ RepliesAreTrue /\ UiMissesNothing
      /\ ResultsAreTrue /\ InvalidStayOut /\ OnlyRequested /\ UiCallsListen
  BY DEF MqInv
<1>2. /\ call \in [Job -> {"idle", "subscribed", "posted", "waiting", "returned"}]
      /\ reply \in [Job -> Outcome \cup {"none", "timeout", "error"}]
      /\ got \in [Subscribers -> SUBSET Result] /\ requests \in Seq(Job) /\ refusing \in Job \cup {NoJob}
      /\ link \in [Subscribers -> {"none", "up", "down"}] /\ redis \in BOOLEAN /\ missed \subseteq published
      /\ \A i \in UiJob : link[i] # "none" => call[i] \in {"subscribed", "waiting"}
      /\ link[Api] # "none" => subscriber = "live"
      /\ subscriber \in {"none", "live", "dead"} /\ Subscribers = UiJob \cup {Api}
      /\ published \subseteq Job /\ UiJob \subseteq Job /\ Api \notin Job /\ NoJob \notin Job
      /\ \A i \in DOMAIN requests : requests[i] \in Job
  BY <1>1, Types
<1>3. /\ call' = [call EXCEPT ![j] = "returned"] /\ reply' = [reply EXCEPT ![j] = r]
      /\ link' = [link EXCEPT ![j] = "none"] /\ redis' = redis /\ missed' = missed /\ got' = [got EXCEPT ![j] = {}]
      /\ subscriber' = subscriber /\ connected' = connected /\ requests' = requests
      /\ refusing' = refusing /\ published' = published
      /\ UNCHANGED serviceVars /\ stage' = stage /\ store' = store
  BY DEF UiReturns, Enter, loopVars, serviceVars
<1>4. JobsKeep
  BY <1>3, OthersKeep
<1>5. r \in Outcome \cup {"timeout", "error"}
  BY <1>2 DEF Subscribers, Result
<1>6. r \in Outcome => SaidNext(j, r)
  <2>. SUFFICES ASSUME r \in Outcome
                PROVE  SaidNext(j, r)
    OBVIOUS
  <2>1. PICK m \in got[j] : m.job = j /\ m.status = r
    BY DEF Outcome
  <2>2. Said(j, r)
    BY <1>1, <2>1 DEF ResultsAreTrue, Subscribers
  <2>. QED
    BY <1>2, <1>4, <2>2, SaidStays
<1>7. got' \in [Subscribers -> SUBSET Result]
  BY <1>2, <1>3
<1>8. ResultsAreTrue' /\ RepliesAreTrue'
  <2>1. \A s \in Subscribers : \A m \in got'[s] : m \in got[s]
    BY <1>2, <1>3
  <2>2. \A k \in Job : reply'[k] \in Outcome => reply'[k] = reply[k] \/ SaidNext(k, reply'[k])
    BY <1>2, <1>3, <1>6
  <2>. QED
    BY <1>3, <1>4, <1>7, <2>1, <2>2, TruthStays
<1>9. TypeOK'
  <2>1. /\ link' \in [Subscribers -> {"none", "up", "down"}]
        /\ \A i \in UiJob : link'[i] # "none" => call'[i] \in {"subscribed", "waiting"}
    BY <1>2, <1>3
  <2>2. link'[Api] # "none" => subscriber' = "live"
    BY <1>2, <1>3
  <2>3. /\ call' \in [Job -> {"idle", "subscribed", "posted", "waiting", "returned"}]
        /\ reply' \in [Job -> Outcome \cup {"none", "timeout", "error"}]
    BY <1>2, <1>3, <1>5
  <2>4. ServiceTypeOK'
    BY <1>4 DEF JobsKeep
  <2>. QED
    BY <1>1, <1>3, <1>7, <2>1, <2>2, <2>3, <2>4 DEF TypeOK
<1>10. UiMissesNothing'
  BY <1>1, <1>2, <1>3, MqAssumption DEF UiMissesNothing, Received, Subscribers
<1>11. OnlyRequested'
  BY <1>1, <1>2, <1>3 DEF OnlyRequested, NotRequested
<1>12. UiCallsListen'
  BY <1>1, <1>2, <1>3 DEF UiCallsListen
<1>. QED
  BY <1>4, <1>8, <1>9, <1>10, <1>11, <1>12 DEF MqInv, JobsKeep

LEMMA RequestAdds ==
  ASSUME TypeOK, NEW j \in Job, Request(j)
  PROVE  /\ requests' \in Seq(Job)
         /\ \A i \in DOMAIN requests' : requests'[i] = j \/ \E k \in DOMAIN requests : requests'[i] = requests[k]
<1>1. requests \in Seq(Job) /\ DOMAIN requests = 1..Len(requests) /\ Len(requests) \in Nat
  BY Types
<1>2. CASE requests' = requests
  BY <1>1, <1>2
<1>3. CASE requests' = Append(requests, j)
  <2>1. /\ requests' \in Seq(Job) /\ DOMAIN requests' = 1..(Len(requests) + 1)
        /\ \A i \in 1..Len(requests) : requests'[i] = requests[i]
        /\ requests'[Len(requests) + 1] = j
    BY <1>1, <1>3
  <2>2. ASSUME NEW i \in DOMAIN requests'
        PROVE  i \in 1..Len(requests) \/ i = Len(requests) + 1
    BY <1>1, <2>1
  <2>. QED
    BY <1>1, <2>1, <2>2
<1>. QED
  BY <1>2, <1>3 DEF Request

\* A call goes from one place to the next; it may ask for its job, and who
\* starts to listen has not asked yet.
LEMMA CallStep ==
  ASSUME MqInv, NEW j \in Job, NEW p \in {"subscribed", "posted", "waiting"},
         call' = [call EXCEPT ![j] = p],
         Request(j) \/ requests' = requests,
         UNCHANGED <<serviceVars, reply, got, connected, refusing, published, missed>>,
         j \in UiJob => \/ p = "subscribed" /\ call[j] = "idle" /\ link' = [link EXCEPT ![j] = "up"]
                        \/ p = "waiting" /\ call[j] = "subscribed" /\ link' = link,
         j \notin UiJob => link' \in {link, [link EXCEPT ![Api] = "up"]} /\ p # "subscribed",
         p = "subscribed" => requests' = requests /\ call[j] = "idle",
         subscriber' \in {"none", "live", "dead"}, redis' \in BOOLEAN,
         link'[Api] # "none" => subscriber' = "live"
  PROVE  MqInv'
<1>1. /\ TypeOK /\ StatusMatchesStage /\ RepliesAreTrue /\ UiMissesNothing
      /\ ResultsAreTrue /\ InvalidStayOut /\ OnlyRequested /\ UiCallsListen
  BY DEF MqInv
<1>2. /\ call \in [Job -> {"idle", "subscribed", "posted", "waiting", "returned"}]
      /\ got \in [Subscribers -> SUBSET Result] /\ refusing \in Job \cup {NoJob}
      /\ link \in [Subscribers -> {"none", "up", "down"}] /\ redis \in BOOLEAN /\ missed \subseteq published
      /\ \A i \in UiJob : link[i] # "none" => call[i] \in {"subscribed", "waiting"}
      /\ link[Api] # "none" => subscriber = "live"
      /\ subscriber \in {"none", "live", "dead"} /\ Subscribers = UiJob \cup {Api}
      /\ published \subseteq Job /\ UiJob \subseteq Job /\ Api \notin Job /\ NoJob \notin Job
      /\ \A i \in DOMAIN requests : requests[i] \in Job
  BY <1>1, Types
<1>3. /\ reply' = reply /\ got' = got /\ connected' = connected
      /\ refusing' = refusing /\ published' = published /\ missed' = missed
      /\ stage' = stage /\ store' = store
  BY DEF serviceVars
<1>4. JobsKeep
  BY OthersKeep
<1>5. ResultsAreTrue' /\ RepliesAreTrue'
  BY <1>2, <1>3, <1>4, TruthStays
<1>6. /\ requests' \in Seq(Job)
      /\ \/ requests' = requests
         \/ \A i \in DOMAIN requests' : requests'[i] = j \/ \E k \in DOMAIN requests : requests'[i] = requests[k]
  BY <1>1, RequestAdds, Types
<1>7. /\ call' \in [Job -> {"idle", "subscribed", "posted", "waiting", "returned"}]
      /\ call'[j] = p /\ \A k \in Job \ {j} : call'[k] = call[k]
  BY <1>2
<1>8. TypeOK'
  <2>1. ASSUME NEW i \in UiJob, link'[i] # "none"
        PROVE  call'[i] \in {"subscribed", "waiting"}
    <3>1. CASE i = j
      BY <1>2, <1>7, <2>1, <3>1
    <3>2. CASE i # j
      BY <1>2, <1>7, <2>1, <3>2
    <3>. QED
      BY <3>1, <3>2
  <2>2. link' \in [Subscribers -> {"none", "up", "down"}]
    BY <1>2
  <2>3. ServiceTypeOK'
    BY <1>4 DEF JobsKeep
  <2>. QED
    BY <1>1, <1>3, <1>6, <1>7, <2>1, <2>2, <2>3 DEF TypeOK
<1>9. p = "subscribed" \/ p \notin NotRequested
  BY DEF NotRequested
<1>10. call[j] = "idle" /\ p = "subscribed" => j \notin published /\ stage[j] = "new" /\ refusing # j
                                             /\ \A i \in DOMAIN requests : requests[i] # j
  BY <1>1, <1>2 DEF OnlyRequested, NotRequested
<1>11. OnlyRequested'
  BY <1>1, <1>2, <1>3, <1>6, <1>7, <1>9, <1>10 DEF OnlyRequested
<1>12. UiCallsListen'
  BY <1>1, <1>2, <1>7 DEF UiCallsListen
<1>13. UiMissesNothing'
  <2>. SUFFICES ASSUME NEW k \in UiJob, call'[k] = "waiting", k \in published \ missed
                PROVE  Received(k, k)
    BY <1>3 DEF UiMissesNothing, Received
  <2>1. k # j
    BY <1>1, <1>7 DEF OnlyRequested, NotRequested
  <2>. QED
    BY <1>1, <1>2, <1>7, <2>1 DEF UiMissesNothing
<1>. QED
  BY <1>4, <1>5, <1>8, <1>11, <1>12, <1>13 DEF MqInv, JobsKeep

\* A call of MQJobClient ends.
LEMMA ApiReturnsStep ==
  ASSUME MqInv, NEW j \in Job, NEW r, ApiReturns(j, r), redis' \in BOOLEAN, j \in ApiJob \/ call[j] = "posted",
         got' \in [Subscribers -> SUBSET Result],
         \A s \in Subscribers : got'[s] \subseteq got[s] /\ (s # Api => got'[s] = got[s]),
         r \in {"timeout", "error"} \/ \E m \in got[Api] : m.job = j /\ m.status = r
  PROVE  MqInv'
<1>1. /\ TypeOK /\ StatusMatchesStage /\ RepliesAreTrue /\ UiMissesNothing
      /\ ResultsAreTrue /\ InvalidStayOut /\ OnlyRequested /\ UiCallsListen
  BY DEF MqInv
<1>2. /\ call \in [Job -> {"idle", "subscribed", "posted", "waiting", "returned"}]
      /\ reply \in [Job -> Outcome \cup {"none", "timeout", "error"}]
      /\ got \in [Subscribers -> SUBSET Result] /\ requests \in Seq(Job) /\ refusing \in Job \cup {NoJob}
      /\ link \in [Subscribers -> {"none", "up", "down"}] /\ redis \in BOOLEAN /\ missed \subseteq published
      /\ \A i \in UiJob : link[i] # "none" => call[i] \in {"subscribed", "waiting"}
      /\ link[Api] # "none" => subscriber = "live"
      /\ subscriber \in {"none", "live", "dead"} /\ Subscribers = UiJob \cup {Api}
      /\ published \subseteq Job /\ UiJob \subseteq Job /\ Api \notin Job /\ NoJob \notin Job
      /\ UiJob \cap ApiJob = {}
      /\ \A i \in DOMAIN requests : requests[i] \in Job
  BY <1>1, Types
<1>3. /\ call' = [call EXCEPT ![j] = "returned"] /\ reply' = [reply EXCEPT ![j] = r]
      /\ subscriber' = IF subscriber = "live" THEN "dead" ELSE subscriber
      /\ link' = [link EXCEPT ![Api] = "none"] /\ missed' = missed
      /\ connected' = connected /\ requests' = requests
      /\ refusing' = refusing /\ published' = published
      /\ UNCHANGED serviceVars /\ stage' = stage /\ store' = store
  BY DEF ApiReturns, Enter, loopVars, serviceVars
<1>4. JobsKeep
  BY <1>3, OthersKeep
<1>5. j \notin UiJob
  BY <1>1, <1>2 DEF UiCallsListen
<1>6. r \in Outcome \cup {"timeout", "error"}
  BY <1>2 DEF Subscribers, Result
<1>7. r \in Outcome => SaidNext(j, r)
  <2>. SUFFICES ASSUME r \in Outcome
                PROVE  SaidNext(j, r)
    OBVIOUS
  <2>1. PICK m \in got[Api] : m.job = j /\ m.status = r
    BY DEF Outcome
  <2>2. Said(j, r)
    BY <1>1, <2>1 DEF ResultsAreTrue, Subscribers
  <2>. QED
    BY <1>2, <1>4, <2>2, SaidStays
<1>8. ResultsAreTrue' /\ RepliesAreTrue'
  <2>1. \A k \in Job : reply'[k] \in Outcome => reply'[k] = reply[k] \/ SaidNext(k, reply'[k])
    BY <1>2, <1>3, <1>7
  <2>2. \A s \in Subscribers : \A m \in got'[s] : m \in got[s]
    OBVIOUS
  <2>. QED
    BY <1>3, <1>4, <2>1, <2>2, TruthStays
<1>9. TypeOK'
  <2>1. /\ link' \in [Subscribers -> {"none", "up", "down"}]
        /\ \A i \in UiJob : link'[i] # "none" => call'[i] \in {"subscribed", "waiting"}
    BY <1>2, <1>3, <1>5
  <2>2. link'[Api] # "none" => subscriber' = "live"
    BY <1>2, <1>3
  <2>3. /\ call' \in [Job -> {"idle", "subscribed", "posted", "waiting", "returned"}]
        /\ reply' \in [Job -> Outcome \cup {"none", "timeout", "error"}]
        /\ subscriber' \in {"none", "live", "dead"}
    BY <1>2, <1>3, <1>6
  <2>4. ServiceTypeOK'
    BY <1>4 DEF JobsKeep
  <2>. QED
    BY <1>1, <1>3, <2>1, <2>2, <2>3, <2>4 DEF TypeOK
<1>10. UiMissesNothing'
  <2>1. \A k \in UiJob : call'[k] = call[k] /\ got'[k] = got[k]
    BY <1>2, <1>3, <1>5 DEF Subscribers
  <2>. QED
    BY <1>1, <1>3, <2>1 DEF UiMissesNothing, Received
<1>11. OnlyRequested'
  BY <1>1, <1>2, <1>3 DEF OnlyRequested, NotRequested
<1>12. UiCallsListen'
  BY <1>1, <1>2, <1>3, <1>5 DEF UiCallsListen
<1>. QED
  BY <1>4, <1>8, <1>9, <1>10, <1>11, <1>12 DEF MqInv, JobsKeep

-----------------------------------------------------------------------------
(* The server *)

\* A result reaches whoever is subscribed; that it is true of its job is the
\* business of who publishes it.
LEMMA PublishFacts ==
  ASSUME TypeOK, NEW j \in Job, NEW status \in Outcome, PublishResult(j, status)
  PROVE  /\ got' \in [Subscribers -> SUBSET Result] /\ published' \subseteq published \cup {j}
         /\ \A s \in Subscribers : got[s] \subseteq got'[s]
         /\ \A s \in Subscribers : \A m \in got'[s] : m \in got[s] \/ m = [job |-> j, status |-> status]
         /\ missed \subseteq missed' /\ missed' \subseteq published'
         /\ published' # published =>
              /\ \A s \in Subscribers : link[s] = "up" => [job |-> j, status |-> status] \in got'[s]
              /\ link[Owner(j)] = "down" => j \in missed'
<1>1. got \in [Subscribers -> SUBSET Result] /\ missed \subseteq published
  BY Types
<1>2. [job |-> j, status |-> status] \in Result
  BY DEF Result
<1>. DEFINE m == [job |-> j, status |-> status]
<1>. HIDE DEF m
<1>3. CASE UNCHANGED resultVars
  BY <1>1, <1>3 DEF resultVars
<1>4. CASE /\ got' = [s \in Subscribers |-> IF link[s] = "up" THEN got[s] \cup {m} ELSE got[s]]
           /\ published' = published \cup {j}
           /\ missed' = IF link[Owner(j)] = "down" THEN missed \cup {j} ELSE missed
  BY <1>1, <1>2, <1>4 DEF m
<1>. QED
  BY <1>3, <1>4 DEF PublishResult, m

\* A step of the worker loop or of a worker: what it takes on was requested,
\* and what it publishes is true.
LEMMA ServerStep ==
  ASSUME MqInv, JobsKeep, UNCHANGED callVars,
         connected' \in BOOLEAN, requests' \in Seq(Job),
         \A i \in DOMAIN requests' : \E k \in DOMAIN requests : requests'[i] = requests[k],
         \/ refusing' \in {NoJob, refusing}
         \/ refusing' \in Job /\ SaidNext(refusing', "failed") /\ call[refusing'] \notin NotRequested,
         \A k \in Job : stage'[k] # "new" => stage[k] # "new" \/ call[k] \notin NotRequested,
         \/ UNCHANGED resultVars
         \/ \E j \in Job, status \in Outcome :
              PublishResult(j, status) /\ SaidNext(j, status) /\ call[j] \notin NotRequested
  PROVE  MqInv'
<1>1. /\ TypeOK /\ StatusMatchesStage /\ RepliesAreTrue /\ UiMissesNothing
      /\ ResultsAreTrue /\ InvalidStayOut /\ OnlyRequested /\ UiCallsListen
  BY DEF MqInv
<1>2. /\ call' = call /\ reply' = reply /\ subscriber' = subscriber /\ redis' = redis /\ link' = link
      /\ refusing \in Job \cup {NoJob} /\ got \in [Subscribers -> SUBSET Result] /\ published \subseteq Job
      /\ UiJob \subseteq Subscribers /\ UiJob \subseteq Job /\ missed \subseteq published
      /\ link \in [Subscribers -> {"none", "up", "down"}]
  BY <1>1, Types DEF Subscribers, callVars
<1>. DEFINE Passed == \A s \in Subscribers : \A m \in got'[s] : m \in got[s] \/ SaidNext(m.job, m.status)
            Reached == \A j \in (published' \ published) \ missed' :
                         /\ link[Owner(j)] # "down"
                         /\ \A s \in Subscribers : link[s] = "up" => \E m \in got'[s] : m.job = j
<1>3. /\ got' \in [Subscribers -> SUBSET Result] /\ published' \subseteq Job
      /\ \A s \in Subscribers : got[s] \subseteq got'[s]
      /\ \A j \in published' : j \in published \/ call[j] \notin NotRequested
      /\ missed \subseteq missed' /\ missed' \subseteq published'
      /\ Passed /\ Reached
  <2>1. CASE UNCHANGED resultVars
    BY <1>2, <2>1 DEF resultVars
  <2>2. ASSUME NEW j \in Job, NEW status \in Outcome,
               PublishResult(j, status), SaidNext(j, status), call[j] \notin NotRequested
        PROVE  /\ got' \in [Subscribers -> SUBSET Result] /\ published' \subseteq Job
               /\ \A s \in Subscribers : got[s] \subseteq got'[s]
               /\ \A k \in published' : k \in published \/ call[k] \notin NotRequested
               /\ missed \subseteq missed' /\ missed' \subseteq published'
               /\ Passed /\ Reached
    <3>. DEFINE m == [job |-> j, status |-> status]
    <3>1. m.job = j /\ m.status = status
      OBVIOUS
    <3>2. /\ got' \in [Subscribers -> SUBSET Result] /\ published' \subseteq published \cup {j}
          /\ \A s \in Subscribers : got[s] \subseteq got'[s]
          /\ \A s \in Subscribers : \A n \in got'[s] : n \in got[s] \/ n = m
          /\ missed \subseteq missed' /\ missed' \subseteq published'
          /\ published' # published =>
               /\ \A s \in Subscribers : link[s] = "up" => m \in got'[s]
               /\ link[Owner(j)] = "down" => j \in missed'
      BY <1>1, <2>2, PublishFacts
    <3>. HIDE DEF m
    <3>. QED
      BY <1>2, <2>2, <3>1, <3>2
  <2>. QED
    BY <2>1, <2>2
<1>4. ResultsAreTrue' /\ RepliesAreTrue'
  BY <1>2, <1>3, TruthStays
<1>5. TypeOK'
  <2>1. refusing' \in Job \cup {NoJob}
    BY <1>2
  <2>2. ServiceTypeOK'
    BY DEF JobsKeep
  <2>. QED
    BY <1>1, <1>2, <1>3, <2>1, <2>2 DEF TypeOK
<1>6. OnlyRequested'
  <2>1. \A i \in DOMAIN requests' : call[requests'[i]] \notin NotRequested
    BY <1>1 DEF OnlyRequested
  <2>2. refusing' # NoJob => call[refusing'] \notin NotRequested
    BY <1>1, <1>2 DEF OnlyRequested
  <2>3. \A j \in Job : stage'[j] # "new" \/ j \in published' => call[j] \notin NotRequested
    BY <1>1, <1>3 DEF OnlyRequested
  <2>. QED
    BY <1>2, <2>1, <2>2, <2>3 DEF OnlyRequested
<1>7. UiCallsListen'
  BY <1>1, <1>2 DEF UiCallsListen
<1>8. UiMissesNothing'
  <2>. SUFFICES ASSUME NEW j \in UiJob, call[j] = "waiting", j \in published' \ missed'
                PROVE  \E m \in got'[j] : m.job = j
    BY <1>2 DEF UiMissesNothing, Received
  <2>1. CASE j \in published
    BY <1>1, <1>2, <1>3, <2>1 DEF UiMissesNothing, Received
  <2>2. CASE j \notin published
    <3>1. Owner(j) = j /\ link[j] # "none" /\ j \in Subscribers
      BY <1>1, <1>2 DEF UiCallsListen, Owner
    <3>2. link[j] = "up"
      BY <1>2, <1>3, <2>2, <3>1
    <3>. QED
      BY <1>3, <2>2, <3>1, <3>2
  <2>. QED
    BY <2>1, <2>2
<1>. QED
  BY <1>4, <1>5, <1>6, <1>7, <1>8 DEF MqInv, JobsKeep

LEMMA TakenRequest ==
  ASSUME TypeOK, NEW j \in Job, NextRequest(j)
  PROVE  /\ requests' \in Seq(Job)
         /\ \A i \in DOMAIN requests' : \E k \in DOMAIN requests : requests'[i] = requests[k]
         /\ \E k \in DOMAIN requests : requests[k] = j
<1>1. /\ requests \in Seq(Job) /\ Len(requests) \in Nat /\ DOMAIN requests = 1..Len(requests)
      /\ requests # <<>> /\ Head(requests) = j /\ requests' = Tail(requests)
  BY Types DEF NextRequest
<1>2. /\ requests' \in Seq(Job) /\ DOMAIN requests' = 1..(Len(requests) - 1)
      /\ \A i \in 1..(Len(requests) - 1) : requests'[i] = requests[i + 1]
      /\ Len(requests) > 0 /\ requests[1] = j
  BY <1>1
<1>3. ASSUME NEW i \in DOMAIN requests'
      PROVE  i + 1 \in DOMAIN requests /\ requests'[i] = requests[i + 1]
  BY <1>1, <1>2
<1>. QED
  BY <1>1, <1>2, <1>3

LEMMA LoopStep ==
  ASSUME MqInv, Loop
  PROVE  MqInv'
<1>1. /\ TypeOK /\ ServiceTypeOK /\ StatusMatchesStage /\ OnlyRequested /\ ResultsAreTrue
      /\ InvalidStayOut
      /\ requests \in Seq(Job) /\ connected \in BOOLEAN /\ refusing \in Job \cup {NoJob}
      /\ NoJob \notin Job
  BY Types DEF MqInv, TypeOK
<1>2. ASSUME NEW j \in Job, LoopAccepts(j) \/ LoopRejects(j) \/ LoopRefuses(j)
      PROVE  MqInv'
  <2>1. NextRequest(j)
    BY <1>2 DEF LoopAccepts, LoopRejects, LoopRefuses
  <2>2. /\ requests' \in Seq(Job)
        /\ \A i \in DOMAIN requests' : \E k \in DOMAIN requests : requests'[i] = requests[k]
        /\ call[j] \notin NotRequested
    BY <1>1, <2>1, TakenRequest DEF OnlyRequested
  <2>3. UNCHANGED callVars /\ UNCHANGED resultVars /\ connected' = connected
    BY <1>2 DEF LoopAccepts, LoopRejects, LoopRefuses
  <2>4. CASE LoopAccepts(j)
    <3>1. refusing' = refusing
      BY <2>1, <2>4 DEF LoopAccepts
    <3>. QED
      BY <1>1, <2>2, <2>3, <2>4, <3>1, LoopKeeps, ServerStep
  <2>5. CASE LoopRejects(j)
    <3>1. refusing' = j /\ SaidNext(j, "failed") /\ JobsKeep
      BY <2>5, LoopKeeps DEF LoopRejects, SaidNext
    <3>. QED
      BY <1>1, <2>2, <2>3, <2>5, <3>1, LoopKeeps, ServerStep
  <2>6. CASE LoopRefuses(j)
    <3>1. JobsKeep /\ refusing' = j /\ stage' = stage
      BY <2>6, OthersKeep DEF LoopRefuses, serviceVars
    <3>2. SaidNext(j, "failed")
      <4>1. Said(j, "failed")
        BY <1>1, <2>6, StatusOf DEF LoopRefuses, Said, InvalidStayOut
      <4>. QED
        BY <3>1, <4>1, SaidStays DEF Outcome
    <3>. QED
      BY <1>1, <2>2, <2>3, <3>1, <3>2, ServerStep
  <2>. QED
    BY <1>2, <2>4, <2>5, <2>6
<1>3. ASSUME NEW j \in Job, LoopPublishes(j)
      PROVE  MqInv'
  <2>1. /\ refusing = j /\ PublishResult(j, "failed") /\ refusing' = NoJob
        /\ UNCHANGED callVars /\ connected' = connected
        /\ requests' = requests /\ UNCHANGED serviceVars /\ stage' = stage
    BY <1>3 DEF LoopPublishes, serviceVars
  <2>2. JobsKeep
    BY <2>1, OthersKeep
  <2>3. SaidNext(j, "failed") /\ call[j] \notin NotRequested
    BY <1>1, <2>1, <2>2, SaidStays DEF ResultsAreTrue, OnlyRequested, Outcome
  <2>. QED
    BY <1>1, <2>1, <2>2, <2>3, ServerStep DEF Outcome
<1>. QED
  BY <1>2, <1>3 DEF Loop

LEMMA ConnectionStep ==
  ASSUME MqInv, LoopDisconnects \/ LoopReconnects
  PROVE  MqInv'
<1>1. /\ TypeOK /\ requests \in Seq(Job) /\ Len(requests) \in Nat /\ DOMAIN requests = 1..Len(requests)
  BY Types DEF MqInv
<1>2. /\ UNCHANGED callVars /\ UNCHANGED resultVars /\ refusing' = refusing
      /\ connected' \in BOOLEAN /\ UNCHANGED serviceVars /\ stage' = stage
  BY DEF LoopDisconnects, LoopReconnects, serviceVars
<1>3. /\ requests' \in Seq(Job)
      /\ \A i \in DOMAIN requests' : \E k \in DOMAIN requests : requests'[i] = requests[k]
  <2>1. CASE LoopReconnects
    BY <1>1, <2>1 DEF LoopReconnects
  <2>2. ASSUME NEW n \in 0..Len(requests), requests' = SubSeq(requests, 1, n)
        PROVE  /\ requests' \in Seq(Job)
               /\ \A i \in DOMAIN requests' : \E k \in DOMAIN requests : requests'[i] = requests[k]
    <3>1. /\ requests' \in Seq(Job) /\ DOMAIN requests' = 1..n
          /\ \A i \in 1..n : requests'[i] = requests[i]
      BY <1>1, <2>2
    <3>. QED
      BY <1>1, <3>1
  <2>. QED
    BY <2>1, <2>2 DEF LoopDisconnects
<1>4. JobsKeep
  BY <1>2, OthersKeep
<1>. QED
  BY <1>2, <1>3, <1>4, ServerStep

LEMMA WorkerStep ==
  ASSUME MqInv, NEW j \in Job, Workers(j)
  PROVE  MqInv'
<1>1. /\ TypeOK /\ ServiceTypeOK /\ StatusMatchesStage /\ OnlyRequested /\ InvalidStayOut
      /\ requests \in Seq(Job) /\ connected \in BOOLEAN /\ stage \in [Job -> Stage]
  BY Types DEF MqInv, TypeOK
<1>2. JobsKeep
  BY WorkersKeep
<1>3. /\ UNCHANGED callVars /\ UNCHANGED <<connected, requests, refusing>>
      /\ stage[j] # "new" /\ \A k \in Job \ {j} : stage'[k] = stage[k]
  BY <1>1 DEF Workers, WorkerClaims, WorkerBegins, WorkerFinishes, CallbackPublishes,
         Claim, Begin, Finish, Close, Move, loopVars
<1>4. /\ call[j] \notin NotRequested /\ j \notin Invalid
      /\ \A k \in Job : stage'[k] # "new" => stage[k] # "new" \/ call[k] \notin NotRequested
  BY <1>1, <1>3 DEF OnlyRequested, InvalidStayOut
<1>5. \/ UNCHANGED resultVars
      \/ \E status \in Outcome : PublishResult(j, status) /\ SaidNext(j, status)
  <2>1. CASE CallbackPublishes(j)
    <3>1. stage[j] = "notifying" /\ store' = store /\ PublishResult(j, store[j])
      BY <2>1 DEF CallbackPublishes, Close
    <3>2. store[j] \in Outcome /\ SaidNext(j, store[j])
      BY <1>1, <1>4, <3>1, StatusOf DEF SaidNext
    <3>. QED
      BY <3>1, <3>2
  <2>2. CASE ~CallbackPublishes(j)
    BY <2>2 DEF Workers, WorkerClaims, WorkerBegins, WorkerFinishes
  <2>. QED
    BY <2>1, <2>2
<1>. QED
  BY <1>1, <1>2, <1>3, <1>4, <1>5, ServerStep

LEMMA UiStep ==
  ASSUME MqInv, NEW j \in Job, UiSubscribes(j) \/ Ui(j)
  PROVE  MqInv'
<1>1. /\ TypeOK /\ UiCallsListen /\ subscriber \in {"none", "live", "dead"}
      /\ link[Api] # "none" => subscriber = "live"
      /\ redis \in BOOLEAN /\ link \in [Subscribers -> {"none", "up", "down"}]
      /\ Api \notin Job
  BY Types DEF MqInv
<1>2. CASE UiSubscribes(j)
  <2>1. /\ j \in UiJob /\ call[j] = "idle" /\ call' = [call EXCEPT ![j] = "subscribed"]
        /\ requests' = requests /\ link' = [link EXCEPT ![j] = "up"] /\ subscriber' = subscriber /\ redis' = redis
        /\ UNCHANGED <<serviceVars, reply, got, connected, refusing, published, missed>>
    BY <1>2 DEF UiSubscribes, Enter, loopVars, resultVars
  <2>2. link'[Api] = link[Api]
    BY <1>1, <2>1, MqAssumption
  <2>. QED
    BY <1>1, <2>1, <2>2, CallStep, MqAssumption
<1>3. CASE UiPublishes(j)
  <2>1. /\ call[j] = "subscribed" /\ call' = [call EXCEPT ![j] = "waiting"]
        /\ Request(j) /\ link' = link /\ subscriber' = subscriber /\ redis' = redis
        /\ UNCHANGED <<serviceVars, reply, got, connected, refusing, published, missed>>
    BY <1>3 DEF UiPublishes, Enter, resultVars
  <2>. QED
    BY <1>1, <2>1, CallStep
<1>4. CASE UiReceives(j)
  <2>1. PICK m \in got[j] : m.job = j /\ UiReturns(j, m.status)
    BY <1>4 DEF UiReceives
  <2>. QED
    BY <1>4, <2>1, UiReturnsStep DEF UiReceives
<1>5. CASE UiTimesOut(j) \/ UiFails(j)
  BY <1>5, UiReturnsStep DEF UiTimesOut, UiFails
<1>. QED
  BY <1>2, <1>3, <1>4, <1>5 DEF Ui

LEMMA ApiStep ==
  ASSUME MqInv, NEW j \in Job, ApiPosts(j) \/ ApiCall(j)
  PROVE  MqInv'
<1>1. /\ TypeOK /\ UiCallsListen /\ subscriber \in {"none", "live", "dead"}
      /\ link[Api] # "none" => subscriber = "live"
      /\ redis \in BOOLEAN /\ link \in [Subscribers -> {"none", "up", "down"}]
      /\ Api \notin Job /\ UiJob \cap ApiJob = {} /\ got \in [Subscribers -> SUBSET Result]
  BY Types DEF MqInv
<1>2. CASE ApiPosts(j)
  <2>1. /\ j \in ApiJob /\ call' = [call EXCEPT ![j] = "posted"]
        /\ Request(j) /\ link' = link /\ subscriber' = subscriber /\ redis' = redis
        /\ UNCHANGED <<serviceVars, reply, got, connected, refusing, published, missed>>
    BY <1>2 DEF ApiPosts, MayPost, Enter, resultVars
  <2>. QED
    BY <1>1, <2>1, CallStep
<1>3. CASE ApiWaits(j)
  <2>1. /\ j \in ApiJob /\ call' = [call EXCEPT ![j] = "waiting"]
        /\ requests' = requests /\ link' \in {link, [link EXCEPT ![Api] = "up"]}
        /\ subscriber' \in {"none", "live", "dead"}
        /\ redis' \in BOOLEAN /\ (link'[Api] # "none" => subscriber' = "live")
        /\ UNCHANGED <<serviceVars, reply, got, connected, refusing, published, missed>>
    BY <1>1, <1>3 DEF ApiWaits, Enter, loopVars, resultVars
  <2>. QED
    BY <1>1, <2>1, CallStep
<1>4. CASE ApiReceives(j)
  <2>1. PICK m \in got[Api] : /\ m.job = j /\ ApiReturns(j, m.status)
                              /\ got' = [got EXCEPT ![Api] = @ \ {m}]
    BY <1>4 DEF ApiReceives
  <2>3. redis' = redis
    BY <1>4 DEF ApiReceives
  <2>2. /\ got' \in [Subscribers -> SUBSET Result]
        /\ \A s \in Subscribers : got'[s] \subseteq got[s] /\ (s # Api => got'[s] = got[s])
    BY <1>1, <2>1
  <2>. QED
    BY <1>1, <1>4, <2>1, <2>2, <2>3, ApiReturnsStep DEF ApiReceives
<1>5. CASE ApiTimesOut(j) \/ ApiCannotSubscribe(j) \/ ApiFails(j)
  <2>1. ApiReturns(j, "timeout") \/ ApiReturns(j, "error")
    BY <1>5 DEF ApiTimesOut, ApiCannotSubscribe, ApiFails
  <2>2. got' = got /\ redis' \in BOOLEAN /\ (j \in ApiJob \/ call[j] = "posted")
    BY <1>1, <1>5 DEF ApiTimesOut, ApiCannotSubscribe, ApiFails, MayPost
  <2>. QED
    BY <1>1, <2>1, <2>2, ApiReturnsStep
<1>. QED
  BY <1>2, <1>3, <1>4, <1>5 DEF ApiCall

\* A subscription breaks or is made anew: what is lost is counted as missed.
LEMMA LinkStep ==
  ASSUME MqInv, NEW s \in Subscribers, Breaks(s) \/ Resubscribes(s)
  PROVE  MqInv'
<1>1. /\ TypeOK /\ StatusMatchesStage /\ RepliesAreTrue /\ UiMissesNothing
      /\ ResultsAreTrue /\ InvalidStayOut /\ OnlyRequested /\ UiCallsListen
  BY DEF MqInv
<1>2. /\ got \in [Subscribers -> SUBSET Result] /\ published \subseteq Job /\ missed \subseteq published
      /\ link \in [Subscribers -> {"none", "up", "down"}]
      /\ \A i \in UiJob : link[i] # "none" => call[i] \in {"subscribed", "waiting"}
      /\ link[Api] # "none" => subscriber = "live"
      /\ Subscribers = UiJob \cup {Api} /\ UiJob \subseteq Job /\ Api \notin Job
  BY <1>1, Types
<1>3. /\ call' = call /\ reply' = reply /\ subscriber' = subscriber /\ redis' = redis
      /\ published' = published /\ connected' = connected /\ requests' = requests
      /\ refusing' = refusing /\ UNCHANGED serviceVars /\ stage' = stage /\ store' = store
      /\ link[s] # "none"
      /\ link' = [link EXCEPT ![s] = "up"] \/ link' = [link EXCEPT ![s] = "down"]
  BY DEF Breaks, Resubscribes, loopVars, resultVars, serviceVars
<1>4. /\ got' \in [Subscribers -> SUBSET Result]
      /\ \A i \in Subscribers : got'[i] \subseteq got[i] /\ (i # s => got'[i] = got[i])
      /\ missed \subseteq missed' /\ missed' \subseteq published
      /\ got' = got \/ \A j \in published : Owner(j) = s => j \in missed'
  <2>1. CASE Breaks(s)
    <3>1. PICK kept \in SUBSET got[s] : got' = [got EXCEPT ![s] = kept]
      BY <2>1 DEF Breaks
    <3>2. missed' = missed \cup {j \in published : Owner(j) = s}
      BY <2>1 DEF Breaks
    <3>. QED
      BY <1>2, <3>1, <3>2
  <2>2. CASE Resubscribes(s)
    BY <1>2, <2>2 DEF Resubscribes, resultVars
  <2>. QED
    BY <2>1, <2>2
<1>5. JobsKeep
  BY <1>3, OthersKeep
<1>6. ResultsAreTrue' /\ RepliesAreTrue'
  <2>1. \A i \in Subscribers : \A m \in got'[i] : m \in got[i]
    BY <1>4
  <2>. QED
    BY <1>3, <1>4, <1>5, <2>1, TruthStays
<1>7. TypeOK'
  <2>1. /\ link' \in [Subscribers -> {"none", "up", "down"}]
        /\ \A i \in Subscribers : link'[i] # "none" => link[i] # "none"
    BY <1>2, <1>3
  <2>2. ServiceTypeOK'
    BY <1>5 DEF JobsKeep
  <2>. QED
    BY <1>1, <1>2, <1>3, <1>4, <2>1, <2>2 DEF TypeOK
<1>8. OnlyRequested' /\ UiCallsListen'
  BY <1>1, <1>2, <1>3 DEF OnlyRequested, NotRequested, UiCallsListen
<1>9. UiMissesNothing'
  <2>. SUFFICES ASSUME NEW k \in UiJob, call[k] = "waiting", k \in published \ missed'
                PROVE  \E m \in got'[k] : m.job = k
    BY <1>3 DEF UiMissesNothing, Received
  <2>1. \E m \in got[k] : m.job = k
    BY <1>1, <1>4 DEF UiMissesNothing, Received
  <2>2. Owner(k) = k
    BY DEF Owner
  <2>. QED
    BY <1>2, <1>4, <2>1, <2>2
<1>. QED
  BY <1>5, <1>6, <1>7, <1>8, <1>9 DEF MqInv, JobsKeep

LEMMA MqInvariant == Spec => []MqInv
<1>1. Init => MqInv
  <2>. SUFFICES ASSUME Init
                PROVE  MqInv
    OBVIOUS
  <2>1. ServiceTypeOK /\ StatusMatchesStage
    BY ServiceBegins DEF Init
  <2>0. link \in [Subscribers -> {"none", "up", "down"}] /\ \A i \in Subscribers : link[i] = "none"
    BY DEF Init
  <2>2. TypeOK
    <3>1. got \in [Subscribers -> SUBSET Result] /\ requests \in Seq(Job)
      BY DEF Init
    <3>2. /\ call \in [Job -> {"idle", "subscribed", "posted", "waiting", "returned"}]
          /\ reply \in [Job -> Outcome \cup {"none", "timeout", "error"}]
      BY DEF Init
    <3>3. \A s \in UiJob \cup {Api} : link[s] = "none"
      BY <2>0 DEF Subscribers
    <3>. QED
      BY <2>0, <2>1, <3>1, <3>2, <3>3 DEF Init, TypeOK
  <2>3. RepliesAreTrue /\ UiMissesNothing /\ ResultsAreTrue
    BY DEF Init, RepliesAreTrue, UiMissesNothing, ResultsAreTrue, Outcome
  <2>4. InvalidStayOut /\ OnlyRequested /\ UiCallsListen
    BY MqAssumption DEF Init, ServiceInit, InvalidStayOut, OnlyRequested, UiCallsListen
  <2>. QED
    BY <2>1, <2>2, <2>3, <2>4 DEF MqInv
<1>2. MqInv /\ [Next]_vars => MqInv'
  <2>. SUFFICES ASSUME MqInv, [Next]_vars
                PROVE  MqInv'
    OBVIOUS
  <2>1. CASE UNCHANGED vars
    <3>1. /\ UNCHANGED callVars /\ UNCHANGED resultVars /\ refusing' = refusing /\ requests' = requests
          /\ connected' = connected /\ UNCHANGED serviceVars /\ stage' = stage
      BY <2>1 DEF vars, loopVars, serviceVars
    <3>2. requests \in Seq(Job) /\ connected \in BOOLEAN
      BY DEF MqInv, TypeOK
    <3>. QED
      BY <3>1, <3>2, OthersKeep, ServerStep
  <2>. QED
    BY <2>1, UiStep, ApiStep, LinkStep, LoopStep, ConnectionStep, WorkerStep DEF Next
<1>. QED
  BY <1>1, <1>2, PTL DEF Spec

-----------------------------------------------------------------------------
(* The theorems *)

(* The types; in particular only calls in progress have a subscription, and
   MQJobClient only as long as its subscriber task lives. *)
THEOREM MqTypeCorrect == Spec => []TypeOK
<1>1. MqInv => TypeOK
  BY DEF MqInv
<1>. QED
  BY <1>1, MqInvariant, PTL

(* Whatever is lost, late or refused, an outcome that a call returns is that
   of its own job. *)
THEOREM RepliesTellTheTruth == Spec => []RepliesAreTrue
<1>1. MqInv => RepliesAreTrue
  BY DEF MqInv
<1>. QED
  BY <1>1, MqInvariant, PTL

(* A UI call that waits has got whatever was published for its job, unless its
   subscription was broken at that moment or broke before the result arrived. *)
THEOREM UiGetsEveryResult == Spec => []UiMissesNothing
<1>1. MqInv => UiMissesNothing
  BY DEF MqInv
<1>. QED
  BY <1>1, MqInvariant, PTL
=============================================================================
