--------------------------- MODULE RestServerProofs ---------------------------
(***************************************************************************)
(* What holds of RestServer for any number of jobs and connections: the    *)
(* types, that the status of a job is true, that a connected client misses *)
(* nothing, and that it hears of a job before it hears the outcome.        *)
(***************************************************************************)
EXTENDS RestServer, JobServiceProofs, SequenceTheorems

Items(s) == {s[i] : i \in DOMAIN s}
Injective(s) == \A i, k \in DOMAIN s : s[i] = s[k] => i = k

-----------------------------------------------------------------------------
(* The inductive invariant *)

\* Who holds or wants the lock: every broadcast under way, and every
\* connection that is being added or removed, once.
LineIsExact ==
  /\ Injective(line)
  /\ \A j \in Job : j \in Items(line) <=> news[j] # "none"
  /\ \A c \in Client : c \in Items(line) <=> conn[c] \in {"joining", "leaving"}

\* The list changes under the lock only when no broadcast is half done.
HalfDoneHolds == sent # 0 \/ dead # {} => line # <<>> /\ Head(line) \in Job

ListMatchesConnections ==
  /\ Injective(active)
  /\ \A c \in Registered : conn[c] \in {"open", "leaving"}
  /\ \A c \in Client : Present(c) => c \in Registered
  /\ dead \subseteq gone

\* A broadcast carries the status in the store, and there is none of a job
\* that is with the queue or with its handler.
NewsIsTrue ==
  \A j \in Job : /\ news[j] \in {"none", store[j]}
                 /\ stage[j] \in {"new", "waiting", "claimed", "running", "closed"} => news[j] = "none"

\* What a client knows is at most one step behind, unless it was not told of
\* a job that was too old.
ViewLags ==
  \A c \in Client, j \in Job : Present(c) =>
    /\ store[j] = "pending" => view[c][j] \in {"absent", "pending"}
    /\ store[j] \in Outcome =>
         \/ view[c][j] \in {"pending", store[j]}
         \/ view[c][j] = "absent" /\ leftOut[c][j] # "absent" /\ TooOld(j)

\* Every job in the store has its place in the order of insertion.
EntriesHold == \A j \in Job : store[j] # "absent" => j \in Items(entries)

RestInv ==
  /\ TypeOK /\ StatusMatchesStage /\ LineIsExact /\ HalfDoneHolds /\ ListMatchesConnections
  /\ NewsIsTrue /\ ViewLags /\ NothingIsMissed /\ EntriesHold

-----------------------------------------------------------------------------
(* Lists *)

\* What Without keeps: the elements outside S, each as often as before.
LEMMA WithoutFacts ==
  ASSUME NEW C, NEW s \in Seq(C), NEW S
  PROVE  /\ Without(s, S) \in Seq(C)
         /\ Items(Without(s, S)) = Items(s) \ S
         /\ Injective(s) => Injective(Without(s, S))
<1>. DEFINE kept == {i \in DOMAIN s : s[i] \notin S}
            below(i) == {k \in kept : k < i}
            rank(i) == Cardinality(below(i))
            N == Cardinality(kept)
            nth(n) == CHOOSE i \in kept : rank(i) = n - 1
            r == Without(s, S)
<1>1. DOMAIN s = 1..Len(s) /\ Len(s) \in Nat /\ kept \subseteq 1..Len(s)
  OBVIOUS
<1>2. IsFiniteSet(1..Len(s)) /\ IsFiniteSet(kept)
  <2>1. IsFiniteSet(1..Len(s))
    BY <1>1, FS_Interval
  <2>. HIDE DEF kept
  <2>. QED
    BY <1>1, <2>1, FS_Subset
<1>3. \A i \in kept : i \in Nat
  BY <1>1
<1>4. \A i \in kept : IsFiniteSet(below(i)) /\ i \notin below(i) /\ below(i) \subseteq kept
  BY <1>2, <1>3, FS_Subset
<1>5. ASSUME NEW i \in kept, NEW T \in SUBSET kept, below(i) \cup {i} \subseteq T
      PROVE  rank(i) \in Nat /\ Cardinality(T) \in Nat /\ rank(i) < Cardinality(T)
  <2>1. IsFiniteSet(T)
    BY <1>2, FS_Subset
  <2>2. Cardinality(below(i) \cup {i}) = rank(i) + 1
    BY <1>4, FS_AddElement
  <2>3. Cardinality(below(i) \cup {i}) <= Cardinality(T)
    BY <1>5, <2>1, FS_Subset
  <2>4. rank(i) \in Nat /\ Cardinality(T) \in Nat
    BY <1>4, <2>1, FS_CardinalityType
  <2>. QED
    BY <2>2, <2>3, <2>4
<1>6. \A i \in kept : rank(i) \in 0..(N - 1)
  <2>1. ASSUME NEW i \in kept
        PROVE  rank(i) \in 0..(N - 1)
    <3>1. rank(i) \in Nat /\ N \in Nat /\ rank(i) < N
      BY <1>4, <1>5
    <3>. HIDE DEF rank, N
    <3>. QED
      BY <3>1
  <2>. QED
    BY <2>1
<1>7. \A i, k \in kept : i < k => rank(i) < rank(k)
  <2>1. ASSUME NEW i \in kept, NEW k \in kept, i < k
        PROVE  rank(i) < rank(k)
    <3>1. below(i) \cup {i} \subseteq below(k) /\ below(k) \in SUBSET kept
      BY <2>1, <1>3
    <3>. QED
      BY <3>1, <1>5
  <2>. QED
    BY <2>1
<1>8. N \in Nat
  BY <1>2, FS_CardinalityType
<1>. HIDE DEF rank, N
\* The ranks are those of 1..N, so that every place of the result is taken.
<1>9. \A n \in 1..N : nth(n) \in kept /\ rank(nth(n)) = n - 1
  <2>. DEFINE f == [i \in kept |-> rank(i)]
  <2>1. f \in Injection(kept, 0..(N - 1))
    <3>1. f \in [kept -> 0..(N - 1)]
      BY <1>6
    <3>2. ASSUME NEW i \in kept, NEW k \in kept, rank(i) = rank(k)
          PROVE  i = k
      <4>1. ~(i < k) /\ ~(k < i)
        BY <3>2, <1>6, <1>7, <1>8
      <4>. QED
        BY <4>1, <1>3
    <3>. QED
      BY <3>1, <3>2 DEF Injection, IsInjective
  <2>2. IsFiniteSet(0..(N - 1)) /\ Cardinality(0..(N - 1)) = Cardinality(kept)
    <3>1. Cardinality(0..(N - 1)) = N
      BY <1>8, FS_Interval
    <3>. QED
      BY <1>8, <3>1, FS_Interval DEF N
  <2>. HIDE DEF kept
  <2>3. f \in Surjection(kept, 0..(N - 1))
    BY <2>1, <2>2, FS_Injection
  <2>4. \A m \in 0..(N - 1) : \E i \in kept : rank(i) = m
    BY <2>3 DEF Surjection
  <2>5. ASSUME NEW n \in 1..N
        PROVE  \E i \in kept : rank(i) = n - 1
    <3>1. n - 1 \in 0..(N - 1)
      BY <1>8
    <3>. QED
      BY <2>4, <3>1
  <2>. QED
    BY <2>5
<1>10. r = [n \in 1..N |-> s[nth(n)]]
  BY DEF Without, N, rank
<1>. HIDE DEF r
<1>11. \A i \in kept : rank(i) + 1 \in 1..N /\ nth(rank(i) + 1) = i
  <2>1. ASSUME NEW i \in kept
        PROVE  rank(i) + 1 \in 1..N /\ nth(rank(i) + 1) = i
    <3>1. rank(i) + 1 \in 1..N /\ rank(i) \in Nat
      BY <1>6, <1>8
    <3>. DEFINE k == nth(rank(i) + 1)
    <3>2. k \in kept /\ rank(k) = (rank(i) + 1) - 1
      BY <1>9, <3>1
    <3>. HIDE DEF k
    <3>3. ~(i < k) /\ ~(k < i)
      BY <3>1, <3>2, <1>6, <1>7
    <3>4. i = k
      BY <3>2, <3>3, <1>3
    <3>. QED
      BY <3>1, <3>4 DEF k
  <2>. QED
    BY <2>1
<1>. HIDE DEF nth
<1>12. r \in Seq(C) /\ DOMAIN r = 1..N
  <2>1. \A n \in 1..N : s[nth(n)] \in C
    BY <1>9
  <2>2. r \in [1..N -> C]
    BY <1>10, <2>1
  <2>. QED
    BY <1>8, <2>2, <1>10
<1>13. Items(r) = Items(s) \ S
  <2>1. \A n \in 1..N : r[n] \in Items(s) \ S
    BY <1>9, <1>10 DEF Items
  <2>2. ASSUME NEW x \in Items(s) \ S
        PROVE  x \in Items(r)
    <3>1. PICK i \in kept : s[i] = x
      BY DEF Items
    <3>2. rank(i) + 1 \in 1..N /\ r[rank(i) + 1] = x
      BY <3>1, <1>10, <1>11
    <3>. QED
      BY <3>2, <1>12 DEF Items
  <2>. QED
    BY <2>1, <2>2, <1>12 DEF Items
<1>14. Injective(s) => Injective(r)
  <2>. SUFFICES ASSUME Injective(s), NEW n \in 1..N, NEW m \in 1..N, r[n] = r[m]
                PROVE  n = m
    BY <1>12 DEF Injective
  <2>1. nth(n) = nth(m)
    BY <1>9, <1>10 DEF Injective
  <2>2. n - 1 = m - 1
    BY <2>1, <1>9
  <2>. QED
    BY <2>2, <1>8
<1>. QED
  BY <1>12, <1>13, <1>14 DEF r

LEMMA AppendFacts ==
  ASSUME NEW C, NEW s \in Seq(C), NEW e \in C
  PROVE  /\ Append(s, e) \in Seq(C) /\ Items(Append(s, e)) = Items(s) \cup {e}
         /\ Injective(s) /\ e \notin Items(s) => Injective(Append(s, e))
         /\ Len(s) \in Nat /\ DOMAIN s = 1..Len(s) /\ Len(Append(s, e)) = Len(s) + 1
         /\ DOMAIN Append(s, e) = 1..(Len(s) + 1)
         /\ \A i \in 1..Len(s) : Append(s, e)[i] = s[i]
         /\ Append(s, e)[Len(s) + 1] = e
<1>1. /\ Append(s, e) \in Seq(C)
      /\ Len(s) \in Nat /\ DOMAIN s = 1..Len(s) /\ Len(Append(s, e)) = Len(s) + 1
      /\ DOMAIN Append(s, e) = 1..(Len(s) + 1)
      /\ \A i \in 1..Len(s) : Append(s, e)[i] = s[i]
      /\ Append(s, e)[Len(s) + 1] = e
  OBVIOUS
<1>2. Items(Append(s, e)) = Items(s) \cup {e}
  <2>1. DOMAIN Append(s, e) = DOMAIN s \cup {Len(s) + 1}
    BY <1>1
  <2>. QED
    BY <1>1, <2>1 DEF Items
<1>3. ASSUME Injective(s), e \notin Items(s)
      PROVE  Injective(Append(s, e))
  <2>1. \A i \in 1..Len(s) : s[i] # e
    BY <1>1, <1>3 DEF Items
  <2>. QED
    BY <1>1, <1>3, <2>1 DEF Injective
<1>. QED
  BY <1>1, <1>2, <1>3

LEMMA TailFacts ==
  ASSUME NEW C, NEW s \in Seq(C), s # <<>>, Injective(s)
  PROVE  /\ Tail(s) \in Seq(C) /\ Items(Tail(s)) = Items(s) \ {Head(s)} /\ Injective(Tail(s))
         /\ Len(s) \in Nat /\ Len(s) > 0 /\ DOMAIN s = 1..Len(s) /\ Head(s) = s[1]
         /\ Head(s) \in Items(s) /\ Len(Tail(s)) = Len(s) - 1
         /\ DOMAIN Tail(s) = 1..(Len(s) - 1)
         /\ \A i \in 1..(Len(s) - 1) : Tail(s)[i] = s[i + 1]
<1>1. /\ Tail(s) \in Seq(C)
      /\ Len(s) \in Nat /\ Len(s) > 0 /\ DOMAIN s = 1..Len(s) /\ Head(s) = s[1]
      /\ Len(Tail(s)) = Len(s) - 1
      /\ DOMAIN Tail(s) = 1..(Len(s) - 1)
      /\ \A i \in 1..(Len(s) - 1) : Tail(s)[i] = s[i + 1]
  OBVIOUS
<1>2. ASSUME NEW i \in DOMAIN Tail(s)
      PROVE  i + 1 \in DOMAIN s /\ Tail(s)[i] = s[i + 1] /\ s[i + 1] # s[1]
  <2>1. i + 1 \in DOMAIN s /\ 1 \in DOMAIN s /\ i + 1 # 1
    BY <1>1
  <2>. QED
    BY <1>1, <2>1 DEF Injective
<1>3. ASSUME NEW i \in DOMAIN s, i # 1
      PROVE  i - 1 \in DOMAIN Tail(s) /\ Tail(s)[i - 1] = s[i]
  <2>1. i - 1 \in 1..(Len(s) - 1)
    BY <1>1, <1>3
  <2>. QED
    BY <1>1, <2>1
<1>4. Items(Tail(s)) = Items(s) \ {Head(s)}
  <2>1. ASSUME NEW x \in Items(Tail(s))
        PROVE  x \in Items(s) \ {Head(s)}
    <3>1. PICK i \in DOMAIN Tail(s) : Tail(s)[i] = x
      BY <2>1 DEF Items
    <3>2. i + 1 \in DOMAIN s /\ s[i + 1] = x /\ x # Head(s)
      BY <3>1, <1>2, <1>1
    <3>. QED
      BY <3>2 DEF Items
  <2>2. ASSUME NEW x \in Items(s), x # Head(s)
        PROVE  x \in Items(Tail(s))
    <3>1. PICK i \in DOMAIN s : s[i] = x
      BY DEF Items
    <3>2. i - 1 \in DOMAIN Tail(s) /\ Tail(s)[i - 1] = x
      BY <3>1, <2>2, <1>1, <1>3
    <3>. QED
      BY <3>2 DEF Items
  <2>. QED
    BY <2>1, <2>2
<1>5. Injective(Tail(s))
  <2>. SUFFICES ASSUME NEW i \in DOMAIN Tail(s), NEW k \in DOMAIN Tail(s), Tail(s)[i] = Tail(s)[k]
                PROVE  i = k
    BY DEF Injective
  <2>1. i + 1 = k + 1
    BY <1>2 DEF Injective
  <2>. QED
    BY <2>1, <1>1
<1>6. Head(s) \in Items(s)
  BY <1>1 DEF Items
<1>. QED
  BY <1>1, <1>4, <1>5, <1>6

\* A list without repetitions has as many elements as places.
LEMMA ListCount ==
  ASSUME NEW C, NEW s \in Seq(C), Injective(s)
  PROVE  Cardinality(Items(s)) = Len(s)
<1>1. Len(s) \in Nat /\ DOMAIN s = 1..Len(s)
  OBVIOUS
<1>. DEFINE f == [i \in 1..Len(s) |-> s[i]]
<1>2. f \in Bijection(1..Len(s), Items(s))
  BY <1>1 DEF Bijection, Injection, IsInjective, Surjection, Items, Injective
<1>. HIDE DEF f
<1>. QED
  BY <1>1, <1>2, FS_CountingElements DEF ExistsBijection

-----------------------------------------------------------------------------
(* What the parts of the invariant say, in the words the steps need *)

LEMMA Types ==
  ASSUME TypeOK
  PROVE  /\ ServiceTypeOK /\ store \in [Job -> Status] /\ stage \in [Job -> Stage]
         /\ answer \in [Job -> {"none", "202", "503"}]
         /\ news \in [Job -> Status \cup {"none"}]
         /\ line \in Seq(Job \cup Client) /\ Len(line) \in Nat /\ DOMAIN line = 1..Len(line)
         /\ active \in Seq(Client) /\ Len(active) \in Nat /\ DOMAIN active = 1..Len(active)
         /\ sent \in Nat /\ sent <= Len(active)
         /\ dead \subseteq Registered /\ Registered = Items(active) /\ Registered \subseteq Client
         /\ conn \in [Client -> {"new", "joining", "open", "leaving", "closed"}]
         /\ gone \subseteq Client
         /\ view \in [Client -> [Job -> Status]] /\ leftOut \in [Client -> [Job -> Status]]
         /\ entries \in Seq(Job) /\ Len(entries) \in Nat /\ DOMAIN entries = 1..Len(entries)
<1>1. line \in Seq(Job \cup Client) /\ active \in Seq(Client)
  BY DEF TypeOK
<1>2. /\ Len(line) \in Nat /\ DOMAIN line = 1..Len(line)
      /\ Len(active) \in Nat /\ DOMAIN active = 1..Len(active)
      /\ \A i \in DOMAIN active : active[i] \in Client
  BY <1>1
<1>3. ServiceTypeOK /\ store \in [Job -> Status] /\ stage \in [Job -> Stage]
  BY DEF TypeOK, ServiceTypeOK
<1>4. sent \in Nat /\ sent <= Len(active)
  BY <1>2 DEF TypeOK
<1>5. Registered = Items(active) /\ Registered \subseteq Client
  BY <1>2 DEF Registered, Items
<1>6. entries \in Seq(Job) /\ Len(entries) \in Nat /\ DOMAIN entries = 1..Len(entries)
  <2>1. entries \in Seq(Job)
    BY DEF TypeOK
  <2>. QED
    BY <2>1
<1>. QED
  BY <1>1, <1>2, <1>3, <1>4, <1>5, <1>6 DEF TypeOK

LEMMA StatusOf ==
  ASSUME ServiceTypeOK, StatusMatchesStage, NEW j \in Job
  PROVE  /\ stage[j] = "new" <=> store[j] = "absent"
         /\ stage[j] \in {"stored", "running"} => store[j] = "pending"
         /\ store[j] \in Outcome => stage[j] \in {"rejected", "notifying", "closed"}
BY RestAssumption DEF ServiceTypeOK, StatusMatchesStage, Status, Outcome

\* Jobs and connections that are not yet, or no longer, in the line.
LEMMA NotInLine ==
  ASSUME LineIsExact
  PROVE  /\ \A j \in Job : news[j] = "none" => j \notin Items(line)
         /\ \A c \in Client : conn[c] \notin {"joining", "leaving"} => c \notin Items(line)
BY DEF LineIsExact

\* A broadcast that is held up is still on its way after one more has joined
\* the line.
LEMMA JoinKeepsNews ==
  ASSUME TypeOK, NEW e \in Job \cup Client, line' = Append(line, e),
         sent' = sent, active' = active,
         NEW j \in Job, NEW c \in Client, OnItsWay(j, c)
  PROVE  OnItsWay(j, c)'
<1>1. /\ Len(line) \in Nat /\ Len(line') = Len(line) + 1
      /\ \A i \in 1..Len(line) : line'[i] = line[i]
      /\ line # <<>> => line' # <<>> /\ Head(line') = Head(line)
  <2>1. line \in Seq(Job \cup Client)
    BY Types
  <2>. QED
    BY <2>1
<1>2. CASE \E i \in 2..Len(line) : line[i] = j
  <2>1. PICK i \in 2..Len(line) : line[i] = j
    BY <1>2
  <2>2. i \in 2..Len(line') /\ line'[i] = j
    BY <1>1, <2>1
  <2>. QED
    BY <2>2 DEF OnItsWay
<1>3. CASE Holds(j) /\ \E i \in (sent + 1)..Len(active) : active[i] = c
  BY <1>1, <1>3 DEF OnItsWay, Holds
<1>. QED
  BY <1>2, <1>3 DEF OnItsWay

\* The next in line starts with the first connection, so that it reaches all.
LEMMA TurnKeepsNews ==
  ASSUME TypeOK, LineIsExact, line # <<>>, line' = Tail(line), sent' = 0,
         NEW j \in Job, NEW c \in Client, j # Head(line), OnItsWay(j, c),
         active' \in Seq(Client), c \in Items(active')
  PROVE  OnItsWay(j, c)'
<1>1. line \in Seq(Job \cup Client) /\ Injective(line)
  BY Types DEF LineIsExact
<1>2. /\ Len(line) \in Nat /\ Len(line') = Len(line) - 1
      /\ \A i \in 1..(Len(line) - 1) : line'[i] = line[i + 1]
      /\ line' \in Seq(Job \cup Client)
  BY <1>1, TailFacts
<1>3. PICK i \in 2..Len(line) : line[i] = j
  BY DEF OnItsWay, Holds
<1>4. i - 1 \in 1..Len(line') /\ line'[i - 1] = j
  BY <1>2, <1>3
<1>5. CASE i = 2
  <2>1. line' # <<>> /\ Head(line') = j
    <3>1. line'[1] = j /\ Len(line') > 0
      BY <1>2, <1>4, <1>5
    <3>2. \A s \in Seq(Job \cup Client) : Len(s) > 0 => s # <<>> /\ Head(s) = s[1]
      OBVIOUS
    <3>. QED
      BY <1>2, <3>1, <3>2
  <2>2. PICK k \in DOMAIN active' : active'[k] = c
    BY DEF Items
  <2>3. k \in (sent' + 1)..Len(active')
    BY <2>2
  <2>. QED
    BY <2>1, <2>2, <2>3 DEF OnItsWay, Holds
<1>6. CASE i > 2
  <2>1. i - 1 \in 2..Len(line')
    BY <1>3, <1>4, <1>6
  <2>. QED
    BY <1>4, <2>1 DEF OnItsWay
<1>. QED
  BY <1>3, <1>5, <1>6

\* A job that is too old stays so when others are stored after it.
LEMMA StaysOld ==
  ASSUME TypeOK, NEW j \in Job, TooOld(j), NEW k \in Job,
         entries' = entries \/ entries' = Append(entries, k)
  PROVE  TooOld(j)'
<1>1. /\ Len(entries) \in Nat /\ DOMAIN entries = 1..Len(entries) /\ entries \in Seq(Job)
      /\ InitLimit \in Nat
  BY Types, RestAssumption
<1>2. PICK i \in DOMAIN entries : entries[i] = j /\ i + InitLimit <= Len(entries)
  BY DEF TooOld
<1>3. CASE entries' = entries
  BY <1>2, <1>3 DEF TooOld
<1>4. CASE entries' = Append(entries, k)
  <2>1. /\ DOMAIN entries' = 1..(Len(entries) + 1) /\ Len(entries') = Len(entries) + 1
        /\ entries'[i] = entries[i]
    BY <1>1, <1>2, <1>4, AppendFacts
  <2>2. i \in 1..(Len(entries) + 1) /\ i + InitLimit <= Len(entries) + 1
    BY <1>1, <1>2
  <2>. QED
    BY <1>2, <2>1, <2>2 DEF TooOld
<1>. QED
  BY <1>3, <1>4

\* What the last InitLimit jobs of the store are not: a job in the store that
\* an init message leaves out is too old for it.
LEMMA LeftOutIsOld ==
  ASSUME TypeOK, EntriesHold, NEW j \in Job, store[j] # "absent", j \notin Recent
  PROVE  TooOld(j)
<1>1. /\ Len(entries) \in Nat /\ DOMAIN entries = 1..Len(entries) /\ InitLimit \in Nat
  BY Types, RestAssumption
<1>2. PICK i \in DOMAIN entries : entries[i] = j
  BY DEF EntriesHold, Items
<1>3. ~(i > Len(entries) - InitLimit)
  BY <1>2 DEF Recent
<1>4. i + InitLimit <= Len(entries)
  BY <1>1, <1>2, <1>3
<1>. QED
  BY <1>2, <1>4 DEF TooOld

-----------------------------------------------------------------------------
(* The steps *)

\* A step of the queue that announces nothing.
LEMMA SilentStep ==
  ASSUME RestInv, ServiceTypeOK', StatusMatchesStage', store' = store,
         UNCHANGED <<entries, news, lockVars, socketVars>>,
         answer' \in [Job -> {"none", "202", "503"}],
         \A j \in Job : stage'[j] # stage[j] => news[j] = "none"
  PROVE  RestInv'
<1>1. /\ news' = news /\ line' = line /\ sent' = sent /\ dead' = dead
      /\ active' = active /\ conn' = conn /\ gone' = gone /\ view' = view
      /\ leftOut' = leftOut /\ entries' = entries
  BY DEF lockVars, socketVars
<1>2. TypeOK'
  BY <1>1 DEF RestInv, TypeOK, Registered
<1>3. LineIsExact' /\ HalfDoneHolds' /\ ListMatchesConnections'
  BY <1>1 DEF RestInv, LineIsExact, HalfDoneHolds, ListMatchesConnections, Present, Registered
<1>4. NewsIsTrue'
  BY <1>1 DEF RestInv, NewsIsTrue
<1>5. ViewLags' /\ NothingIsMissed'
  BY <1>1 DEF RestInv, ViewLags, NothingIsMissed, Present, OnItsWay, Holds, TooOld
<1>6. EntriesHold'
  BY <1>1 DEF RestInv, EntriesHold
<1>. QED
  BY <1>2, <1>3, <1>4, <1>5, <1>6 DEF RestInv

\* A status is stored and its broadcast starts: the client knows the status
\* before, because no broadcast of the job was under way.
LEMMA AnnounceStep ==
  ASSUME RestInv, ServiceTypeOK', StatusMatchesStage',
         NEW j \in Job, NEW status \in Status, news[j] = "none",
         store' = [store EXCEPT ![j] = status],
         stage'[j] \in {"stored", "rejected", "notifying"},
         \A k \in Job \ {j} : stage'[k] = stage[k],
         \/ store[j] = "absent" /\ status = "pending" /\ entries' = Append(entries, j)
         \/ store[j] = "pending" /\ status \in Outcome /\ entries' = entries,
         Broadcast(j, status), UNCHANGED <<answer, sent, dead, socketVars>>
  PROVE  RestInv'
<1>1. /\ TypeOK /\ StatusMatchesStage /\ LineIsExact /\ HalfDoneHolds
      /\ ListMatchesConnections /\ NewsIsTrue /\ ViewLags /\ NothingIsMissed /\ EntriesHold
  BY DEF RestInv
<1>2. /\ answer' = answer /\ sent' = sent /\ dead' = dead
      /\ active' = active /\ conn' = conn /\ gone' = gone /\ view' = view
      /\ leftOut' = leftOut
  BY DEF socketVars
<1>3. \/ active = <<>> /\ news' = news /\ line' = line
      \/ news' = [news EXCEPT ![j] = status] /\ line' = Append(line, j)
  BY DEF Broadcast
<1>4. /\ line \in Seq(Job \cup Client) /\ news \in [Job -> Status \cup {"none"}]
      /\ store \in [Job -> Status] /\ Client \cap Job = {}
  BY <1>1, Types, RestAssumption
<1>5. j \notin Items(line) /\ Injective(line)
  BY <1>1, NotInLine DEF LineIsExact
<1>6. HalfDoneHolds' /\ ListMatchesConnections'
  <2>1. line # <<>> => line' # <<>> /\ Head(line') = Head(line)
    BY <1>3, <1>4
  <2>. QED
    BY <1>1, <1>2, <2>1 DEF HalfDoneHolds, ListMatchesConnections, Present, Registered
<1>9. entries' \in Seq(Job) /\ EntriesHold'
  <2>1. entries \in Seq(Job)
    BY <1>1, Types
  <2>2. /\ entries' \in Seq(Job) /\ Items(entries) \subseteq Items(entries')
        /\ store[j] = "absent" => j \in Items(entries')
    <3>1. CASE entries' = entries
      BY <2>1, <3>1
    <3>2. CASE entries' = Append(entries, j)
      BY <2>1, <3>2, AppendFacts
    <3>. QED
      BY <3>1, <3>2
  <2>. QED
    BY <1>1, <1>4, <2>2 DEF EntriesHold
<1>10. \A k \in Job : TooOld(k) => TooOld(k)'
  BY <1>1, StaysOld
<1>7. CASE active = <<>> /\ news' = news /\ line' = line
  <2>1. \A c \in Client : ~Present(c) /\ ~Present(c)'
    <3>1. Registered = {}
      BY <1>7 DEF Registered
    <3>. QED
      BY <1>1, <1>2, <3>1 DEF ListMatchesConnections, Present
  <2>2. TypeOK'
    BY <1>1, <1>2, <1>7, <1>9 DEF TypeOK, Registered
  <2>3. LineIsExact'
    BY <1>1, <1>2, <1>7 DEF LineIsExact
  <2>4. NewsIsTrue'
    BY <1>1, <1>4, <1>7 DEF NewsIsTrue
  <2>5. ViewLags' /\ NothingIsMissed'
    BY <2>1 DEF ViewLags, NothingIsMissed
  <2>. QED
    BY <1>6, <1>9, <2>2, <2>3, <2>4, <2>5 DEF RestInv
<1>8. CASE news' = [news EXCEPT ![j] = status] /\ line' = Append(line, j)
  <2>1. /\ line' \in Seq(Job \cup Client) /\ Items(line') = Items(line) \cup {j}
        /\ Injective(line')
        /\ Len(line) \in Nat /\ Len(line') = Len(line) + 1 /\ line'[Len(line) + 1] = j
        /\ line = <<>> => line' # <<>> /\ Head(line') = j
    BY <1>4, <1>5, <1>8, AppendFacts
  <2>2. TypeOK'
    <3>1. news' \in [Job -> Status \cup {"none"}]
      BY <1>4, <1>8
    <3>. QED
      BY <1>1, <1>2, <1>9, <2>1, <3>1 DEF TypeOK, Registered
  <2>3. LineIsExact'
    BY <1>1, <1>2, <1>4, <1>8, <2>1 DEF LineIsExact, Status
  <2>4. NewsIsTrue'
    BY <1>1, <1>4, <1>8 DEF NewsIsTrue
  <2>5. ViewLags'
    <3>. SUFFICES ASSUME NEW c \in Client, NEW k \in Job, Present(c)'
                  PROVE  /\ store'[k] = "pending" => view'[c][k] \in {"absent", "pending"}
                         /\ store'[k] \in Outcome =>
                              \/ view'[c][k] \in {"pending", store'[k]}
                              \/ view'[c][k] = "absent" /\ leftOut'[c][k] # "absent" /\ TooOld(k)'
      BY DEF ViewLags
    <3>1. Present(c)
      BY <1>2 DEF Present
    <3>2. CASE k = j
      <4>1. \/ view[c][j] = store[j]
            \/ view[c][j] = "absent" /\ store[j] = leftOut[c][j] /\ TooOld(j)
        BY <1>1, <3>1 DEF NothingIsMissed, Status, Outcome
      <4>2. store'[j] = status
        BY <1>4
      <4>. QED
        BY <1>2, <1>10, <3>2, <4>1, <4>2 DEF Outcome
    <3>3. CASE k # j
      BY <1>1, <1>2, <1>4, <1>10, <3>1, <3>3 DEF ViewLags
    <3>. QED
      BY <3>2, <3>3
  <2>6. NothingIsMissed'
    <3>. SUFFICES ASSUME NEW c \in Client, NEW k \in Job, Present(c)'
                  PROVE  \/ view'[c][k] = store'[k]
                         \/ news'[k] = store'[k] /\ OnItsWay(k, c)'
                         \/ view'[c][k] = "absent" /\ store'[k] = leftOut'[c][k] /\ TooOld(k)'
      BY DEF NothingIsMissed
    <3>1. Present(c)
      BY <1>2 DEF Present
    <3>2. CASE k = j
      <4>1. news'[j] = store'[j]
        BY <1>4, <1>8
      <4>2. CASE line = <<>>
        <5>1. sent' = 0 /\ Holds(j)'
          BY <1>1, <1>2, <2>1, <4>2 DEF HalfDoneHolds, Holds
        <5>2. PICK i \in DOMAIN active : active[i] = c
          BY <1>1, <3>1 DEF ListMatchesConnections, Registered
        <5>3. i \in 1..Len(active)
          BY <1>1, Types
        <5>. QED
          BY <1>2, <3>2, <4>1, <5>1, <5>2, <5>3 DEF OnItsWay
      <4>3. CASE line # <<>>
        <5>1. Len(line) + 1 \in 2..Len(line')
          BY <1>4, <2>1, <4>3
        <5>. QED
          BY <2>1, <3>2, <4>1, <5>1 DEF OnItsWay
      <4>. QED
        BY <4>2, <4>3
    <3>3. CASE k # j
      <4>1. news'[k] = news[k] /\ store'[k] = store[k] /\ view' = view
        BY <1>2, <1>4, <1>8, <3>3
      <4>2. OnItsWay(k, c) => OnItsWay(k, c)'
        BY <1>1, <1>2, <1>8, JoinKeepsNews
      <4>. QED
        BY <1>1, <1>2, <1>10, <3>1, <4>1, <4>2 DEF NothingIsMissed
    <3>. QED
      BY <3>2, <3>3
  <2>. QED
    BY <1>6, <1>9, <2>2, <2>3, <2>4, <2>5, <2>6 DEF RestInv
<1>. QED
  BY <1>3, <1>7, <1>8

\* A connection asks for the lock, to be added or to be removed.
LEMMA AskStep ==
  ASSUME RestInv, NEW c \in Client,
         \/ conn[c] = "new" /\ conn' = [conn EXCEPT ![c] = "joining"]
         \/ conn[c] = "open" /\ c \in gone /\ conn' = [conn EXCEPT ![c] = "leaving"],
         line' = Append(line, c),
         UNCHANGED <<serviceVars, entries, answer, news, sent, dead, active, gone, view, leftOut>>
  PROVE  RestInv'
<1>1. /\ TypeOK /\ StatusMatchesStage /\ LineIsExact /\ HalfDoneHolds
      /\ ListMatchesConnections /\ NewsIsTrue /\ ViewLags /\ NothingIsMissed /\ EntriesHold
  BY DEF RestInv
<1>2. /\ store' = store /\ stage' = stage /\ ticket' = ticket /\ clock' = clock
      /\ answer' = answer /\ news' = news /\ sent' = sent /\ dead' = dead
      /\ active' = active /\ gone' = gone /\ view' = view /\ leftOut' = leftOut
      /\ entries' = entries
  BY DEF serviceVars
<1>3. /\ line \in Seq(Job \cup Client) /\ Client \cap Job = {}
      /\ conn \in [Client -> {"new", "joining", "open", "leaving", "closed"}]
  BY <1>1, Types, RestAssumption
<1>4. c \notin Items(line) /\ Injective(line)
  BY <1>1, NotInLine DEF LineIsExact
<1>5. /\ line' \in Seq(Job \cup Client) /\ Items(line') = Items(line) \cup {c} /\ Injective(line')
      /\ line # <<>> => line' # <<>> /\ Head(line') = Head(line)
  BY <1>3, <1>4, AppendFacts
<1>6. \A d \in Client : Present(d)' => Present(d)
  BY <1>2, <1>3 DEF Present
<1>7. TypeOK' /\ StatusMatchesStage'
  <2>1. ServiceTypeOK' /\ StatusMatchesStage'
    BY <1>1, <1>2 DEF TypeOK, ServiceTypeOK, StatusMatchesStage
  <2>2. conn' \in [Client -> {"new", "joining", "open", "leaving", "closed"}]
    BY <1>3
  <2>. QED
    BY <1>1, <1>2, <1>5, <2>1, <2>2 DEF TypeOK, Registered
<1>8. LineIsExact'
  BY <1>1, <1>2, <1>3, <1>5 DEF LineIsExact
<1>9. HalfDoneHolds'
  BY <1>1, <1>2, <1>5 DEF HalfDoneHolds
<1>10. ListMatchesConnections'
  <2>1. \A d \in Registered' : conn'[d] \in {"open", "leaving"}
    <3>1. Registered' = Registered /\ Registered \subseteq Client
      BY <1>1, <1>2, Types DEF Registered
    <3>2. \A d \in Registered : conn[d] \in {"open", "leaving"}
      BY <1>1 DEF ListMatchesConnections
    <3>. QED
      BY <1>3, <3>1, <3>2
  <2>. QED
    BY <1>1, <1>2, <1>6, <2>1 DEF ListMatchesConnections, Registered
<1>11. NewsIsTrue'
  BY <1>1, <1>2 DEF NewsIsTrue
<1>12. ViewLags' /\ EntriesHold'
  BY <1>1, <1>2, <1>6 DEF ViewLags, EntriesHold, TooOld
<1>13. NothingIsMissed'
  <2>1. \A j \in Job : TooOld(j) => TooOld(j)'
    BY <1>2 DEF TooOld
  <2>. QED
    BY <1>1, <1>2, <1>6, <2>1, JoinKeepsNews DEF NothingIsMissed
<1>. QED
  BY <1>7, <1>8, <1>9, <1>10, <1>11, <1>12, <1>13 DEF RestInv

\* c has been given its init message: the recent jobs as the store has them.
InitSent(c) ==
  \A j \in Job : \/ view'[c][j] = store[j]
                  \/ /\ view'[c][j] = "absent" /\ leftOut'[c][j] = store[j]
                     /\ TooOld(j) /\ store[j] # "absent"

\* c was there before and has what the broadcast that ends here said.
Served(c) ==
  /\ Present(c) /\ view'[c] = view[c] /\ leftOut'[c] = leftOut[c]
  /\ Head(line) \in Job =>
       \/ view[c][Head(line)] = store[Head(line)]
       \/ /\ view[c][Head(line)] = "absent" /\ store[Head(line)] = leftOut[c][Head(line)]
          /\ TooOld(Head(line))

\* Who holds the lock releases it, after it has replaced the list of the
\* connections: a client that is there stays registered and has what the
\* broadcast said, or the recent part of the store, so that nobody is passed
\* over.
LEMMA ReleaseStep ==
  ASSUME RestInv, line # <<>>, line' = Tail(line), sent' = 0,
         UNCHANGED <<serviceVars, entries, answer, gone>>,
         news' \in [Job -> Status \cup {"none"}],
         \A j \in Job : news'[j] = IF j = Head(line) THEN "none" ELSE news[j],
         conn' \in [Client -> {"new", "joining", "open", "leaving", "closed"}],
         \A c \in Client : conn'[c] \in {"joining", "leaving"}
                             <=> conn[c] \in {"joining", "leaving"} /\ c # Head(line),
         active' \in Seq(Client), Injective(active'), dead' = {},
         \A c \in Items(active') : conn'[c] \in {"open", "leaving"},
         \A c \in Client : Present(c)' => c \in Items(active'),
         view' \in [Client -> [Job -> Status]], leftOut' \in [Client -> [Job -> Status]],
         \A c \in Client : Present(c)' => InitSent(c) \/ Served(c)
  PROVE  RestInv'
<1>1. /\ TypeOK /\ StatusMatchesStage /\ LineIsExact /\ HalfDoneHolds
      /\ ListMatchesConnections /\ NewsIsTrue /\ ViewLags /\ NothingIsMissed /\ EntriesHold
  BY DEF RestInv
<1>2. /\ store' = store /\ stage' = stage /\ ticket' = ticket /\ clock' = clock
      /\ answer' = answer /\ gone' = gone /\ entries' = entries
      /\ \A j \in Job : TooOld(j)' = TooOld(j)
  BY DEF serviceVars, TooOld
<1>3. line \in Seq(Job \cup Client) /\ Client \cap Job = {} /\ Injective(line)
  BY <1>1, Types, RestAssumption DEF LineIsExact
<1>4. /\ line' \in Seq(Job \cup Client) /\ Items(line') = Items(line) \ {Head(line)}
      /\ Injective(line')
  BY <1>3, TailFacts
<1>5. TypeOK' /\ StatusMatchesStage'
  <2>1. Cardinality(Items(active')) = Len(active') /\ Len(active') \in Nat
    BY ListCount
  <2>2. Registered' = Items(active')
    BY DEF Registered, Items
  <2>3. sent' \in 0..Len(active') /\ dead' \subseteq Registered'
    BY <2>1
  <2>4. ServiceTypeOK' /\ StatusMatchesStage' /\ answer' \in [Job -> {"none", "202", "503"}]
        /\ gone' \subseteq Client
    BY <1>1, <1>2 DEF TypeOK, ServiceTypeOK, StatusMatchesStage
  <2>5. entries' \in Seq(Job)
    BY <1>1, <1>2, Types
  <2>. QED
    BY <1>4, <2>1, <2>2, <2>3, <2>4, <2>5 DEF TypeOK
<1>6. LineIsExact'
  <2>1. \A j \in Job : j \in Items(line') <=> news'[j] # "none"
    BY <1>1, <1>4 DEF LineIsExact
  <2>2. \A c \in Client : c \in Items(line') <=> conn'[c] \in {"joining", "leaving"}
    BY <1>1, <1>4 DEF LineIsExact
  <2>. QED
    BY <1>4, <2>1, <2>2 DEF LineIsExact
<1>7. HalfDoneHolds'
  BY DEF HalfDoneHolds
<1>8. ListMatchesConnections'
  BY DEF ListMatchesConnections, Registered, Items
<1>9. NewsIsTrue'
  BY <1>1, <1>2 DEF NewsIsTrue
<1>10. ViewLags' /\ EntriesHold'
  <2>1. ViewLags'
    <3>. SUFFICES ASSUME NEW c \in Client, NEW j \in Job, Present(c)'
                  PROVE  /\ store'[j] = "pending" => view'[c][j] \in {"absent", "pending"}
                         /\ store'[j] \in Outcome =>
                              \/ view'[c][j] \in {"pending", store'[j]}
                              \/ view'[c][j] = "absent" /\ leftOut'[c][j] # "absent" /\ TooOld(j)'
      BY DEF ViewLags
    <3>1. CASE InitSent(c)
      BY <1>2, <3>1 DEF InitSent
    <3>2. CASE Served(c)
      BY <1>1, <1>2, <3>2 DEF ViewLags, Served
    <3>. QED
      BY <3>1, <3>2
  <2>. QED
    BY <1>1, <1>2, <2>1 DEF EntriesHold
<1>11. NothingIsMissed'
  <2>. SUFFICES ASSUME NEW c \in Client, NEW j \in Job, Present(c)', view'[c][j] # store'[j],
                       ~(view'[c][j] = "absent" /\ store'[j] = leftOut'[c][j] /\ TooOld(j)')
                PROVE  news'[j] = store'[j] /\ OnItsWay(j, c)'
    BY DEF NothingIsMissed
  <2>0. Served(c)
    BY <1>2 DEF InitSent
  <2>1. /\ Present(c) /\ view[c][j] # store[j] /\ j # Head(line)
        /\ ~(view[c][j] = "absent" /\ store[j] = leftOut[c][j] /\ TooOld(j))
    BY <1>2, <2>0 DEF Served
  <2>2. news[j] = store[j] /\ OnItsWay(j, c) /\ news'[j] = news[j]
    BY <1>1, <2>1 DEF NothingIsMissed
  <2>3. OnItsWay(j, c)'
    BY <1>1, <2>1, <2>2, TurnKeepsNews
  <2>. QED
    BY <1>2, <2>2, <2>3
<1>. QED
  BY <1>5, <1>6, <1>7, <1>8, <1>9, <1>10, <1>11 DEF RestInv

\* Who holds the lock.
LEMMA HolderFacts ==
  ASSUME RestInv, NEW x, Holds(x)
  PROVE  /\ line # <<>> /\ Head(line) = x
         /\ x \in Job => news[x] = store[x] /\ news[x] # "none"
         /\ x \in Client => sent = 0 /\ dead = {}
<1>1. line # <<>> /\ Head(line) = x
  BY DEF Holds
<1>2. line \in Seq(Job \cup Client) /\ Injective(line)
  BY Types DEF RestInv, LineIsExact
<1>3. x \in Items(line)
  BY <1>1, <1>2, TailFacts
<1>. QED
  BY <1>1, <1>3, RestAssumption DEF RestInv, LineIsExact, NewsIsTrue, HalfDoneHolds

LEMMA EndBroadcastStep ==
  ASSUME RestInv, NEW j \in Job, EndBroadcast(j)
  PROVE  RestInv'
<1>1. /\ TypeOK /\ LineIsExact /\ ListMatchesConnections /\ NothingIsMissed
      /\ active \in Seq(Client) /\ news \in [Job -> Status \cup {"none"}]
      /\ line \in Seq(Job \cup Client) /\ DOMAIN line = 1..Len(line) /\ Len(line) \in Nat
      /\ conn \in [Client -> {"new", "joining", "open", "leaving", "closed"}]
      /\ view \in [Client -> [Job -> Status]] /\ leftOut \in [Client -> [Job -> Status]]
  BY Types DEF RestInv
<1>2. /\ line # <<>> /\ Head(line) = j /\ sent = Len(active) /\ line' = Tail(line) /\ sent' = 0
      /\ active' = Without(active, dead) /\ dead' = {} /\ news' = [news EXCEPT ![j] = "none"]
      /\ conn' = conn /\ gone' = gone /\ view' = view
      /\ leftOut' = leftOut
      /\ UNCHANGED <<serviceVars, entries, answer, gone>>
  BY DEF EndBroadcast, Holds
<1>3. active' \in Seq(Client) /\ Items(active') = Items(active) \ dead /\ Injective(active')
  BY <1>1, <1>2, WithoutFacts DEF ListMatchesConnections
<1>4. Registered = Items(active)
  BY DEF Registered, Items
<1>5. \A c \in Items(active') : conn'[c] \in {"open", "leaving"}
  BY <1>1, <1>2, <1>3, <1>4 DEF ListMatchesConnections
<1>6. \A c \in Client : Present(c)' => Present(c) /\ c \in Items(active')
  BY <1>1, <1>2, <1>3, <1>4 DEF ListMatchesConnections, Present
<1>7. \A c \in Client : Present(c) =>
        \/ view[c][j] = store[j]
        \/ view[c][j] = "absent" /\ store[j] = leftOut[c][j] /\ TooOld(j)
  <2>1. ASSUME NEW c \in Client
        PROVE  ~OnItsWay(j, c)
    <3>1. \A i \in 2..Len(line) : line[i] # j
      <4>1. Head(line) = line[1] /\ Injective(line)
        BY <1>1, <1>2 DEF LineIsExact
      <4>2. \A i \in 2..Len(line) : i \in DOMAIN line /\ 1 \in DOMAIN line /\ i # 1
        BY <1>1
      <4>. QED
        BY <1>2, <4>1, <4>2 DEF Injective
    <3>2. Len(active) \in Nat /\ (sent + 1)..Len(active) = {}
      BY <1>1, <1>2
    <3>. QED
      BY <3>1, <3>2 DEF OnItsWay
  <2>. QED
    BY <1>1, <2>1 DEF NothingIsMissed
<1>8. \A c \in Client : conn'[c] \in {"joining", "leaving"}
                          <=> conn[c] \in {"joining", "leaving"} /\ c # Head(line)
  BY <1>2, RestAssumption
<1>9. /\ news' \in [Job -> Status \cup {"none"}]
      /\ \A k \in Job : news'[k] = IF k = Head(line) THEN "none" ELSE news[k]
  BY <1>1, <1>2
<1>10. \A c \in Client : Present(c)' => InitSent(c) \/ Served(c)
  BY <1>2, <1>6, <1>7 DEF Served
<1>. QED
  BY <1>1, <1>2, <1>3, <1>5, <1>6, <1>8, <1>9, <1>10, ReleaseStep

LEMMA RegisterStep ==
  ASSUME RestInv, NEW c \in Client, Register(c)
  PROVE  RestInv'
<1>1. /\ TypeOK /\ ListMatchesConnections /\ EntriesHold
      /\ active \in Seq(Client) /\ news \in [Job -> Status \cup {"none"}]
      /\ store \in [Job -> Status]
      /\ conn \in [Client -> {"new", "joining", "open", "leaving", "closed"}]
      /\ view \in [Client -> [Job -> Status]] /\ leftOut \in [Client -> [Job -> Status]]
      /\ Registered = Items(active)
      /\ Registered \subseteq Client
  BY Types DEF RestInv
<1>2. /\ line # <<>> /\ Head(line) = c /\ line' = Tail(line)
      /\ sent' = 0 /\ dead' = {}
      /\ UNCHANGED <<serviceVars, entries, answer, gone>>
  BY HolderFacts DEF Register
<1>3. /\ conn[c] = "joining" /\ conn' = [conn EXCEPT ![c] = "open"] /\ news' = news /\ gone' = gone
      /\ active' = Append(active, c)
      /\ view' = IF c \in gone THEN view
                 ELSE [view EXCEPT ![c] = [j \in Job |-> IF j \in Recent THEN store[j] ELSE "absent"]]
      /\ leftOut' = [leftOut EXCEPT ![c] = [j \in Job |-> IF j \in Recent THEN "absent" ELSE store[j]]]
  BY DEF Register
<1>4. c \notin Items(active) /\ Injective(active)
  BY <1>1, <1>3 DEF ListMatchesConnections
<1>5. active' \in Seq(Client) /\ Items(active') = Items(active) \cup {c} /\ Injective(active')
  BY <1>1, <1>3, <1>4, AppendFacts
<1>6. \A d \in Items(active') : conn'[d] \in {"open", "leaving"}
  BY <1>1, <1>3, <1>5 DEF ListMatchesConnections
<1>7. \A d \in Client : Present(d)' => d = c \/ Present(d)
  BY <1>1, <1>3 DEF Present
<1>8. \A d \in Client : Present(d)' => d \in Items(active')
  BY <1>1, <1>5, <1>7 DEF ListMatchesConnections
<1>9. /\ conn' \in [Client -> {"new", "joining", "open", "leaving", "closed"}]
      /\ \A d \in Client : conn'[d] \in {"joining", "leaving"}
                             <=> conn[d] \in {"joining", "leaving"} /\ d # Head(line)
  BY <1>1, <1>2, <1>3
<1>10. /\ news' \in [Job -> Status \cup {"none"}]
       /\ \A k \in Job : news'[k] = IF k = Head(line) THEN "none" ELSE news[k]
  BY <1>1, <1>2, <1>3, RestAssumption
<1>11. view' \in [Client -> [Job -> Status]] /\ leftOut' \in [Client -> [Job -> Status]]
  BY <1>1, <1>3 DEF Status
<1>12. \A d \in Client : Present(d)' => InitSent(d) \/ Served(d)
  <2>1. Present(c)' => InitSent(c)
    <3>. SUFFICES ASSUME Present(c)', NEW j \in Job
                  PROVE  \/ view'[c][j] = store[j]
                         \/ /\ view'[c][j] = "absent" /\ leftOut'[c][j] = store[j]
                            /\ TooOld(j) /\ store[j] # "absent"
      BY DEF InitSent
    <3>1. /\ view'[c][j] = IF j \in Recent THEN store[j] ELSE "absent"
          /\ leftOut'[c][j] = IF j \in Recent THEN "absent" ELSE store[j]
      BY <1>1, <1>3 DEF Present
    <3>. QED
      BY <1>1, <3>1, LeftOutIsOld
  <2>2. \A d \in Client \ {c} : view'[d] = view[d] /\ leftOut'[d] = leftOut[d]
    BY <1>1, <1>3
  <2>. QED
    BY <1>2, <1>7, <2>1, <2>2, RestAssumption DEF Served
<1>. QED
  BY <1>2, <1>5, <1>6, <1>8, <1>9, <1>10, <1>11, <1>12, ReleaseStep

LEMMA UnregisterStep ==
  ASSUME RestInv, NEW c \in Client, Unregister(c)
  PROVE  RestInv'
<1>1. /\ TypeOK /\ ListMatchesConnections
      /\ active \in Seq(Client) /\ news \in [Job -> Status \cup {"none"}]
      /\ conn \in [Client -> {"new", "joining", "open", "leaving", "closed"}]
      /\ view \in [Client -> [Job -> Status]] /\ Registered = Items(active)
      /\ Registered \subseteq Client
  BY Types DEF RestInv
<1>2. /\ line # <<>> /\ Head(line) = c /\ line' = Tail(line)
      /\ sent' = 0 /\ dead' = {}
      /\ UNCHANGED <<serviceVars, entries, answer, gone>>
  BY HolderFacts DEF Unregister
<1>3. /\ conn[c] = "leaving" /\ conn' = [conn EXCEPT ![c] = "closed"] /\ news' = news /\ gone' = gone
      /\ active' = Without(active, {c}) /\ view' = view /\ leftOut' = leftOut
  BY DEF Unregister
<1>4. active' \in Seq(Client) /\ Items(active') = Items(active) \ {c} /\ Injective(active')
  BY <1>1, <1>3, WithoutFacts DEF ListMatchesConnections
<1>5. \A d \in Items(active') : conn'[d] \in {"open", "leaving"}
  BY <1>1, <1>3, <1>4 DEF ListMatchesConnections
<1>6. \A d \in Client : Present(d)' => d # c /\ Present(d)
  BY <1>1, <1>3 DEF Present
<1>7. \A d \in Client : Present(d)' => d \in Items(active')
  BY <1>1, <1>4, <1>6 DEF ListMatchesConnections
<1>8. /\ conn' \in [Client -> {"new", "joining", "open", "leaving", "closed"}]
      /\ \A d \in Client : conn'[d] \in {"joining", "leaving"}
                             <=> conn[d] \in {"joining", "leaving"} /\ d # Head(line)
  BY <1>1, <1>2, <1>3
<1>9. /\ news' \in [Job -> Status \cup {"none"}]
      /\ \A k \in Job : news'[k] = IF k = Head(line) THEN "none" ELSE news[k]
  BY <1>1, <1>2, <1>3, RestAssumption
<1>10. view' \in [Client -> [Job -> Status]] /\ leftOut' \in [Client -> [Job -> Status]]
  BY <1>1, <1>3, Types
<1>11. \A d \in Client : Present(d)' => InitSent(d) \/ Served(d)
  BY <1>2, <1>3, <1>6, RestAssumption DEF Served
<1>. QED
  BY <1>2, <1>4, <1>5, <1>7, <1>8, <1>9, <1>10, <1>11, ReleaseStep

\* A connection that is served now has the status of the store; the others
\* are still in front of the broadcast.
LEMMA SendStep ==
  ASSUME RestInv, NEW j \in Job, Send(j)
  PROVE  RestInv'
<1>1. /\ TypeOK /\ StatusMatchesStage /\ LineIsExact /\ HalfDoneHolds
      /\ ListMatchesConnections /\ NewsIsTrue /\ ViewLags /\ NothingIsMissed /\ EntriesHold
  BY DEF RestInv
<1>2. /\ store' = store /\ stage' = stage /\ ticket' = ticket /\ clock' = clock
      /\ answer' = answer /\ news' = news /\ line' = line
      /\ active' = active /\ conn' = conn /\ gone' = gone
      /\ leftOut' = leftOut /\ entries' = entries
      /\ \A k \in Job : TooOld(k)' = TooOld(k)
      /\ Holds(j) /\ sent < Len(active) /\ sent' = sent + 1
  BY DEF Send, serviceVars, TooOld
<1>3. /\ Len(active) \in Nat /\ DOMAIN active = 1..Len(active) /\ active \in Seq(Client)
      /\ sent \in Nat /\ sent <= Len(active) /\ view \in [Client -> [Job -> Status]]
      /\ store \in [Job -> Status]
  BY <1>1, Types
<1>. DEFINE c == active[sent + 1]
<1>4. sent + 1 \in DOMAIN active /\ c \in Client /\ c \in Registered
  BY <1>2, <1>3 DEF Registered
<1>5. news[j] = store[j] /\ line # <<>> /\ Head(line) = j
  BY <1>2, HolderFacts
<1>6. \/ c \notin gone /\ view' = [view EXCEPT ![c][j] = store[j]] /\ dead' = dead
      \/ c \in gone /\ dead' \in {dead, dead \cup {c}} /\ view' = view
  BY <1>5 DEF Send
<1>. HIDE DEF c
<1>7. \A d \in Client, k \in Job :
        \/ view'[d][k] = view[d][k]
        \/ d = c /\ k = j /\ c \notin gone /\ view'[d][k] = store[k]
  <2>1. CASE view' = view
    BY <2>1
  <2>2. CASE c \notin gone /\ view' = [view EXCEPT ![c][j] = store[j]]
    <3>1. ASSUME NEW d \in Client, NEW k \in Job, d # c \/ k # j
          PROVE  view'[d][k] = view[d][k]
      BY <1>3, <1>4, <2>2, <3>1
    <3>2. view'[c][j] = store[j]
      BY <1>3, <1>4, <2>2
    <3>. QED
      BY <2>2, <3>1, <3>2
  <2>. QED
    BY <1>6, <2>1, <2>2
<1>8. view' \in [Client -> [Job -> Status]]
  <2>1. store[j] \in Status
    BY <1>3
  <2>2. [view EXCEPT ![c][j] = store[j]] \in [Client -> [Job -> Status]]
    BY <1>3, <1>4, <2>1
  <2>. QED
    BY <1>3, <1>6, <2>2
<1>9. TypeOK' /\ StatusMatchesStage'
  <2>1. ServiceTypeOK' /\ StatusMatchesStage'
    BY <1>1, <1>2 DEF TypeOK, ServiceTypeOK, StatusMatchesStage
  <2>2. Registered' = Registered /\ dead' \subseteq Registered
    BY <1>1, <1>2, <1>4, <1>6, Types DEF Registered
  <2>3. sent' \in 0..Len(active')
    BY <1>2, <1>3
  <2>. QED
    BY <1>1, <1>2, <1>8, <2>1, <2>2, <2>3 DEF TypeOK
<1>10. LineIsExact' /\ HalfDoneHolds'
  BY <1>1, <1>2, <1>5 DEF LineIsExact, HalfDoneHolds
<1>11. ListMatchesConnections'
  BY <1>1, <1>2, <1>6 DEF ListMatchesConnections, Present, Registered
<1>12. NewsIsTrue'
  BY <1>1, <1>2 DEF NewsIsTrue
<1>13. \A d \in Client : Present(d)' => Present(d)
  BY <1>2 DEF Present
<1>14. ViewLags' /\ EntriesHold'
  <2>1. ViewLags'
    <3>. SUFFICES ASSUME NEW d \in Client, NEW k \in Job, Present(d)'
                  PROVE  /\ store'[k] = "pending" => view'[d][k] \in {"absent", "pending"}
                         /\ store'[k] \in Outcome =>
                              \/ view'[d][k] \in {"pending", store'[k]}
                              \/ view'[d][k] = "absent" /\ leftOut'[d][k] # "absent" /\ TooOld(k)'
      BY DEF ViewLags
    <3>. QED
      BY <1>1, <1>2, <1>7, <1>13 DEF ViewLags
  <2>. QED
    BY <1>1, <1>2, <2>1 DEF EntriesHold
<1>15. NothingIsMissed'
  <2>. SUFFICES ASSUME NEW d \in Client, NEW k \in Job, Present(d)', view'[d][k] # store'[k],
                       ~(view'[d][k] = "absent" /\ store'[k] = leftOut'[d][k] /\ TooOld(k)')
                PROVE  news'[k] = store'[k] /\ OnItsWay(k, d)'
    BY DEF NothingIsMissed
  <2>1. view[d][k] = view'[d][k] /\ Present(d)
    BY <1>2, <1>7, <1>13
  <2>2. news[k] = store[k] /\ OnItsWay(k, d)
    BY <1>1, <1>2, <2>1 DEF NothingIsMissed
  <2>3. CASE \E i \in 2..Len(line) : line[i] = k
    BY <1>2, <2>2, <2>3 DEF OnItsWay
  <2>4. CASE Holds(k) /\ \E i \in (sent + 1)..Len(active) : active[i] = d
    <3>1. k = j /\ Holds(k)'
      BY <1>2, <2>4 DEF Holds
    <3>2. d # c
      <4>1. ASSUME d = c
            PROVE  FALSE
        <5>1. d \notin gone
          BY <2>1 DEF Present
        <5>2. view'[d][k] = store[k]
          BY <1>3, <1>4, <1>6, <3>1, <4>1, <5>1
        <5>. QED
          BY <1>2, <5>2
      <4>. QED
        BY <4>1
    <3>3. PICK i \in (sent + 1)..Len(active) : active[i] = d
      BY <2>4
    <3>4. i # sent + 1
      BY <3>2, <3>3 DEF c
    <3>5. i \in (sent' + 1)..Len(active')
      BY <1>2, <1>3, <3>4
    <3>. QED
      BY <1>2, <2>2, <3>1, <3>3, <3>5 DEF OnItsWay
  <2>. QED
    BY <2>2, <2>3, <2>4 DEF OnItsWay
<1>. QED
  BY <1>9, <1>10, <1>11, <1>12, <1>14, <1>15 DEF RestInv

LEMMA ClientLeavesStep ==
  ASSUME RestInv, NEW c \in Client, ClientLeaves(c)
  PROVE  RestInv'
<1>1. /\ TypeOK /\ StatusMatchesStage /\ LineIsExact /\ HalfDoneHolds
      /\ ListMatchesConnections /\ NewsIsTrue /\ ViewLags /\ NothingIsMissed /\ EntriesHold
  BY DEF RestInv
<1>2. /\ store' = store /\ stage' = stage /\ ticket' = ticket /\ clock' = clock
      /\ answer' = answer /\ news' = news /\ line' = line /\ sent' = sent /\ dead' = dead
      /\ active' = active /\ conn' = conn /\ gone' = gone \cup {c} /\ view' = view
      /\ leftOut' = leftOut /\ entries' = entries
  BY DEF ClientLeaves, serviceVars, lockVars
<1>3. \A d \in Client : Present(d)' => Present(d)
  BY <1>2 DEF Present
<1>4. TypeOK' /\ StatusMatchesStage'
  BY <1>1, <1>2 DEF TypeOK, ServiceTypeOK, StatusMatchesStage, Registered
<1>5. LineIsExact' /\ HalfDoneHolds' /\ NewsIsTrue'
  BY <1>1, <1>2 DEF LineIsExact, HalfDoneHolds, NewsIsTrue
<1>6. ListMatchesConnections'
  BY <1>1, <1>2, <1>3 DEF ListMatchesConnections, Registered
<1>7. ViewLags' /\ NothingIsMissed' /\ EntriesHold'
  BY <1>1, <1>2, <1>3 DEF ViewLags, NothingIsMissed, OnItsWay, Holds, EntriesHold, TooOld
<1>. QED
  BY <1>4, <1>5, <1>6, <1>7 DEF RestInv

\* The handlers of POST and the workers.
LEMMA JobStep ==
  ASSUME RestInv, NEW j \in Job, Post(j) \/ Handlers(j) \/ Workers(j)
  PROVE  RestInv'
<1>1. /\ TypeOK /\ StatusMatchesStage /\ NewsIsTrue /\ ServiceTypeOK
      /\ store \in [Job -> Status] /\ stage \in [Job -> Stage]
      /\ answer \in [Job -> {"none", "202", "503"}]
  BY Types DEF RestInv
<1>2. \A k \in Job : stage[k] \in {"new", "waiting", "claimed", "running", "closed"} => news[k] = "none"
  BY <1>1 DEF NewsIsTrue
<1>3. j \notin Orphans
  BY RestAssumption
<1>4. ASSUME Post(j)
      PROVE  RestInv'
  <2>1. ServiceNext /\ stage[j] = "new" /\ news[j] = "none" /\ store[j] = "absent"
    BY <1>1, <1>2, <1>4, StatusOf DEF Post, Store, ServiceNext
  <2>2. ServiceTypeOK' /\ StatusMatchesStage'
    BY <1>1, <2>1, ServiceTypeStep, StatusStep
  <2>3. /\ store' = [store EXCEPT ![j] = "pending"] /\ stage' = [stage EXCEPT ![j] = "stored"]
        /\ entries' = Append(entries, j)
        /\ Broadcast(j, "pending") /\ UNCHANGED <<answer, sent, dead, socketVars>>
    BY <1>4 DEF Post, Store, Move
  <2>. QED
    BY <1>1, <2>1, <2>2, <2>3, AnnounceStep DEF Status
<1>5. ASSUME QueueFull(j)
      PROVE  RestInv'
  <2>1. ServiceNext /\ stage[j] = "stored" /\ news[j] = "none" /\ store[j] = "pending"
    BY <1>1, <1>3, <1>5, StatusOf DEF QueueFull, Reject, Handed, Quiet, ServiceNext
  <2>2. ServiceTypeOK' /\ StatusMatchesStage'
    BY <1>1, <2>1, ServiceTypeStep, StatusStep
  <2>3. /\ store' = [store EXCEPT ![j] = "failed"] /\ stage' = [stage EXCEPT ![j] = "rejected"]
        /\ entries' = entries /\ Broadcast(j, "failed") /\ UNCHANGED <<answer, sent, dead, socketVars>>
    BY <1>3, <1>5 DEF QueueFull, Reject, Move
  <2>. QED
    BY <1>1, <2>1, <2>2, <2>3, AnnounceStep DEF Status, Outcome
<1>6. ASSUME NEW outcome \in Outcome, WorkerFinishes(j, outcome)
      PROVE  RestInv'
  <2>1. ServiceNext /\ stage[j] = "running" /\ news[j] = "none" /\ store[j] = "pending"
    BY <1>1, <1>2, <1>6, StatusOf DEF WorkerFinishes, Finish, ServiceNext
  <2>2. ServiceTypeOK' /\ StatusMatchesStage'
    BY <1>1, <2>1, ServiceTypeStep, StatusStep
  <2>3. /\ store' = [store EXCEPT ![j] = outcome] /\ stage' = [stage EXCEPT ![j] = "notifying"]
        /\ entries' = entries /\ Broadcast(j, outcome) /\ UNCHANGED <<answer, sent, dead, socketVars>>
    BY <1>6 DEF WorkerFinishes, Finish, Move
  <2>. QED
    BY <1>1, <2>1, <2>2, <2>3, AnnounceStep DEF Status, Outcome
<1>7. ASSUME \/ SubmitJob(j) \/ WorkerClaims(j) \/ WorkerBegins(j) \/ CallbackReturns(j)
      PROVE  RestInv'
  <2>1. ServiceNext
    BY <1>7 DEF SubmitJob, WorkerClaims, WorkerBegins, CallbackReturns, ServiceNext
  <2>2. ServiceTypeOK' /\ StatusMatchesStage'
    BY <1>1, <2>1, ServiceTypeStep, StatusStep
  <2>3. news[j] = "none"
    BY <1>2, <1>7 DEF SubmitJob, WorkerClaims, WorkerBegins, CallbackReturns, Quiet, Claim, Begin
  <2>4. store' = store /\ \A k \in Job \ {j} : stage'[k] = stage[k]
    BY <1>1, <1>7 DEF SubmitJob, WorkerClaims, WorkerBegins, CallbackReturns,
                      Accept, Claim, Begin, Close, Move
  <2>5. /\ answer' \in [Job -> {"none", "202", "503"}]
        /\ UNCHANGED <<entries, news, lockVars, socketVars>>
    BY <1>1, <1>7 DEF SubmitJob, WorkerClaims, WorkerBegins, CallbackReturns
  <2>. QED
    BY <2>2, <2>3, <2>4, <2>5, SilentStep
<1>8. ASSUME Refuse(j)
      PROVE  RestInv'
  <2>1. /\ answer' \in [Job -> {"none", "202", "503"}] /\ UNCHANGED <<entries, news, lockVars, socketVars>>
        /\ store' = store /\ stage' = stage /\ ticket' = ticket /\ clock' = clock
    BY <1>1, <1>8 DEF Refuse, serviceVars
  <2>2. ServiceTypeOK' /\ StatusMatchesStage'
    BY <1>1, <2>1 DEF ServiceTypeOK, StatusMatchesStage
  <2>. QED
    BY <2>1, <2>2, SilentStep
<1>. QED
  BY <1>4, <1>5, <1>6, <1>7, <1>8 DEF Handlers, Workers

LEMMA RestInvariant == Spec => []RestInv
<1>1. Init => RestInv
  <2>. SUFFICES ASSUME Init
                PROVE  RestInv
    OBVIOUS
  <2>1. ServiceTypeOK /\ StatusMatchesStage
    BY ServiceBegins DEF Init
  <2>2. Registered = {} /\ Cardinality(Registered) = 0
    <3>1. Registered = {}
      BY DEF Init, Registered
    <3>. QED
      BY <3>1, FS_EmptySet
  <2>3. TypeOK
    BY <2>1, <2>2 DEF Init, TypeOK, Status
  <2>4. LineIsExact /\ HalfDoneHolds /\ ListMatchesConnections
    BY <2>2 DEF Init, LineIsExact, HalfDoneHolds, ListMatchesConnections, Injective, Items, Present
  <2>5. NewsIsTrue /\ ViewLags /\ NothingIsMissed /\ EntriesHold
    BY DEF Init, NewsIsTrue, ViewLags, NothingIsMissed, Present, EntriesHold, ServiceInit
  <2>. QED
    BY <2>1, <2>3, <2>4, <2>5 DEF RestInv
<1>2. RestInv /\ [Next]_vars => RestInv'
  <2>. SUFFICES ASSUME RestInv, [Next]_vars
                PROVE  RestInv'
    OBVIOUS
  <2>1. ASSUME NEW j \in Job, Post(j) \/ Handlers(j) \/ Workers(j) \/ Send(j) \/ EndBroadcast(j)
        PROVE  RestInv'
    BY <2>1, JobStep, SendStep, EndBroadcastStep
  <2>2. ASSUME NEW c \in Client, Dial(c) \/ HangUp(c)
        PROVE  RestInv'
    BY <2>2, AskStep DEF Dial, HangUp
  <2>3. ASSUME NEW c \in Client, ClientLeaves(c) \/ Register(c) \/ Unregister(c)
        PROVE  RestInv'
    BY <2>3, ClientLeavesStep, RegisterStep, UnregisterStep
  <2>4. CASE UNCHANGED vars
    <3>1. /\ store' = store /\ stage' = stage /\ ticket' = ticket /\ clock' = clock
          /\ answer' = answer /\ UNCHANGED <<entries, news, lockVars, socketVars>>
      BY <2>4 DEF vars, serviceVars
    <3>2. ServiceTypeOK' /\ StatusMatchesStage' /\ answer' \in [Job -> {"none", "202", "503"}]
      BY <3>1 DEF RestInv, TypeOK, ServiceTypeOK, StatusMatchesStage
    <3>. QED
      BY <3>1, <3>2, SilentStep
  <2>. QED
    BY <2>1, <2>2, <2>3, <2>4 DEF Next, Sockets
<1>. QED
  BY <1>1, <1>2, PTL DEF Spec

-----------------------------------------------------------------------------
(* The theorems *)

(* The types; in particular no connection is ever listed twice and the
   position of a broadcast stays within the list, whatever connects and
   disconnects meanwhile. *)
THEOREM RestTypeCorrect == Spec => []TypeOK
<1>1. RestInv => TypeOK
  BY DEF RestInv
<1>. QED
  BY <1>1, RestInvariant, PTL

(* What GET /jobs/{id} answers is true at every moment, also between the
   stored outcome and its broadcast. *)
THEOREM StatusIsTrueOverRest == Spec => []StatusMatchesStage
<1>1. RestInv => StatusMatchesStage
  BY DEF RestInv
<1>. QED
  BY <1>1, RestInvariant, PTL

(* A connected client knows the status in the store, or a broadcast of just
   that status is on its way to it, or it was not told of a job that was too
   old and whose status is still what it was then. *)
THEOREM ClientsMissNothing == Spec => []NothingIsMissed
<1>1. RestInv => NothingIsMissed
  BY DEF RestInv
<1>. QED
  BY <1>1, RestInvariant, PTL

(* What a connected client knows changes only by a broadcast, which carries
   the status of the store; ViewLags says which one the client had. *)
THEOREM ClientsHearInOrder == Spec => CreatedBeforeOutcome
<1>. DEFINE InOrder(c, j) ==
              \/ view[c][j] = IF view'[c][j] = "pending" THEN "absent" ELSE "pending"
              \/ /\ leftOut[c][j] # "absent" /\ TooOld(j)
                 /\ view[c][j] = "absent" /\ view'[c][j] \in Outcome
            HeardInOrder ==
              \A c \in Client, j \in Job :
                Present(c) /\ view'[c][j] # view[c][j] => InOrder(c, j)
<1>1. RestInv /\ [Next]_vars => [HeardInOrder]_vars
  <2>. SUFFICES ASSUME RestInv, [Next]_vars, NEW c \in Client, NEW j \in Job,
                       Present(c), view'[c][j] # view[c][j]
                PROVE  InOrder(c, j)
    OBVIOUS
  <2>1. /\ view \in [Client -> [Job -> Status]] /\ conn[c] = "open"
        /\ store \in [Job -> Status] /\ TypeOK /\ ServiceTypeOK /\ StatusMatchesStage
    BY Types DEF RestInv, Present
  <2>2. PICK k \in Job : Send(k)
    <3>1. view' # view
      BY <2>1
    <3>2. ASSUME NEW d \in Client, Register(d)
          PROVE  FALSE
      <4>1. d # c
        BY <2>1, <3>2 DEF Register
      <4>. QED
        BY <2>1, <3>2, <4>1 DEF Register
    <3>. QED
      BY <3>1, <3>2 DEF Next, vars, serviceVars, lockVars, socketVars, Post, Handlers, SubmitJob,
           QueueFull, Refuse, Workers, WorkerClaims, WorkerBegins, CallbackReturns,
           WorkerFinishes, EndBroadcast, Dial, ClientLeaves, Sockets, HangUp, Unregister
  <2>3. news[k] = store[k] /\ news[k] # "none"
    BY <2>2, HolderFacts DEF Send
  <2>4. k = j /\ view'[c][j] = store[j]
    BY <2>1, <2>2, <2>3 DEF Send
  <2>5. store[j] # "absent"
    <3>1. stage[j] # "new"
      BY <2>3, <2>4 DEF RestInv, NewsIsTrue
    <3>. QED
      BY <2>1, <3>1, StatusOf
  <2>. QED
    BY <2>1, <2>4, <2>5 DEF RestInv, ViewLags, Status, Outcome
<1>. QED
  BY <1>1, RestInvariant, PTL DEF Spec, CreatedBeforeOutcome
=============================================================================
