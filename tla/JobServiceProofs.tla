--------------------------- MODULE JobServiceProofs ---------------------------
(***************************************************************************)
(* What the service of JobService keeps, step by step, whatever else the   *)
(* servers built from its actions do around them.  The servers' own proofs *)
(* cite these lemmas.                                                      *)
(***************************************************************************)
EXTENDS JobService, FiniteSetTheorems, TLAPS

LEMMA ServiceTypeStep ==
  ASSUME ServiceTypeOK, [ServiceNext]_serviceVars
  PROVE  ServiceTypeOK'
<1>. USE DEF ServiceTypeOK, Status, Outcome, Stage, Move
<1>1. ASSUME NEW j \in Job, Store(j) \/ Accept(j) \/ Reject(j)
      PROVE  ServiceTypeOK'
  BY <1>1 DEF Store, Accept, Reject
<1>2. ASSUME NEW j \in Job, \/ Claim(j) \/ Begin(j) \/ Close(j)
                            \/ \E outcome \in Outcome : Finish(j, outcome)
      PROVE  ServiceTypeOK'
  BY <1>2 DEF Claim, Begin, Close, Finish
<1>3. ASSUME NEW S \in SUBSET Job, Lose(S)
      PROVE  ServiceTypeOK'
  BY <1>3 DEF Lose
<1>4. CASE UNCHANGED serviceVars
  BY <1>4 DEF serviceVars
<1>. QED
  BY <1>1, <1>2, <1>3, <1>4 DEF ServiceNext

(* Only the moves that change the status change what a client may conclude
   from it. *)
LEMMA StatusStep ==
  ASSUME ServiceTypeOK, StatusMatchesStage, [ServiceNext]_serviceVars
  PROVE  StatusMatchesStage'
<1>. USE DEF ServiceTypeOK, StatusMatchesStage, Status, Outcome, Stage, Move
<1>1. ASSUME NEW j \in Job, Store(j)
      PROVE  StatusMatchesStage'
  BY <1>1 DEF Store
<1>2. ASSUME NEW j \in Job, Accept(j) \/ Reject(j)
      PROVE  StatusMatchesStage'
  BY <1>2 DEF Accept, Reject, Handed
<1>3. ASSUME NEW j \in Job, Claim(j)
      PROVE  StatusMatchesStage'
  BY <1>3 DEF Claim
<1>4. ASSUME NEW j \in Job, Begin(j)
      PROVE  StatusMatchesStage'
  BY <1>4 DEF Begin
<1>5. ASSUME NEW j \in Job, NEW outcome \in Outcome, Finish(j, outcome)
      PROVE  StatusMatchesStage'
  BY <1>5 DEF Finish
<1>6. ASSUME NEW j \in Job, Close(j)
      PROVE  StatusMatchesStage'
  BY <1>6 DEF Close
<1>7. ASSUME NEW S \in SUBSET Job, Lose(S)
      PROVE  StatusMatchesStage'
  BY <1>7 DEF Lose, At
<1>8. CASE UNCHANGED serviceVars
  BY <1>8 DEF serviceVars
<1>. QED
  BY <1>1, <1>2, <1>3, <1>4, <1>5, <1>6, <1>7, <1>8 DEF ServiceNext

LEMMA ServiceBegins ==
  ASSUME ServiceInit
  PROVE  ServiceTypeOK /\ StatusMatchesStage
BY DEF ServiceInit, ServiceTypeOK, StatusMatchesStage, Status, Outcome, Stage

(* An outcome is final for whoever is built on the service. *)
LEMMA OutcomeStays ==
  ASSUME ServiceTypeOK, StatusMatchesStage, [ServiceNext]_serviceVars,
         NEW j \in Job \ Orphans, store[j] \in Outcome
  PROVE  store'[j] = store[j]
<1>. USE DEF ServiceTypeOK, StatusMatchesStage, Status, Outcome, Stage, Move
<1>1. stage[j] \in {"rejected", "notifying", "closed"}
  OBVIOUS
<1>2. ASSUME NEW k \in Job, \/ Store(k) \/ Accept(k) \/ Reject(k) \/ Claim(k) \/ Begin(k)
                            \/ Close(k) \/ \E outcome \in Outcome : Finish(k, outcome)
      PROVE  store'[j] = store[j]
  BY <1>1, <1>2 DEF Store, Accept, Reject, Handed, Claim, Begin, Close, Finish
<1>3. ASSUME NEW S \in SUBSET Job, Lose(S)
      PROVE  store'[j] = store[j]
  BY <1>3 DEF Lose
<1>. QED
  BY <1>2, <1>3 DEF ServiceNext, serviceVars

(* What the status of a job says to a client is true, in every system built
   on the service: an outcome is seen exactly from the end of the handler or
   the refusal on. *)
THEOREM StatusIsTrue == ServiceSpec => []StatusMatchesStage
<1>1. ServiceTypeOK /\ StatusMatchesStage /\ [ServiceNext]_serviceVars
        => ServiceTypeOK' /\ StatusMatchesStage'
  BY ServiceTypeStep, StatusStep
<1>2. ServiceInit => ServiceTypeOK /\ StatusMatchesStage
  BY ServiceBegins
<1>. QED
  BY <1>1, <1>2, PTL DEF ServiceSpec
=============================================================================
