--------------------------- MODULE LlmQuotaProofs ---------------------------
(***************************************************************************)
(* Proofs about LlmQuota, for any number of users, texts and jobs, any      *)
(* limit and any length of a day.                                           *)
(***************************************************************************)
EXTENDS LlmQuota, FiniteSetTheorems, TLAPS

-----------------------------------------------------------------------------
(* The calendar of the counters: a date d lasts from Start(d) to before     *)
(* Start(d + 1).                                                            *)
Start(d) == d * DayLength
LastDay == MaxTime \div DayLength

LEMMA StartIsMonotonic ==
  ASSUME NEW d \in Nat
  PROVE  /\ Start(d) \in Nat /\ Start(d + 1) \in Nat
         /\ Start(d + 1) = Start(d) + DayLength
BY QuotaAssumption DEF Start

LEMMA DivisionRoundsDown ==
  ASSUME NEW n \in Nat
  PROVE  /\ n \div DayLength \in Nat
         /\ Start(n \div DayLength) <= n
         /\ n < Start((n \div DayLength) + 1)
BY QuotaAssumption, SMTT(60) DEF Start

LEMMA ProductIsMonotonic ==
  ASSUME NEW a \in Nat, NEW b \in Nat, a <= b
  PROVE  Start(a) <= Start(b)
BY QuotaAssumption, SMTT(60) DEF Start

(* The date of a moment before MaxTime has a key.                           *)
LEMMA DatesAreBounded ==
  ASSUME NEW n \in 0..MaxTime
  PROVE  n \div DayLength \in 0..LastDay
<1> DEFINE d == n \div DayLength
<1>1. n \in Nat /\ MaxTime \in Nat /\ DayLength \in Nat
  BY QuotaAssumption
<1>2. d \in Nat /\ Start(d) <= n
  BY <1>1, DivisionRoundsDown
<1>3. LastDay \in Nat /\ MaxTime < Start(LastDay + 1)
  BY <1>1, DivisionRoundsDown DEF LastDay
<1>4. SUFFICES ASSUME LastDay < d PROVE FALSE
  BY <1>2, <1>3
<1> HIDE DEF d
<1>5. Start(LastDay + 1) <= Start(d)
  BY <1>2, <1>3, <1>4, ProductIsMonotonic
<1>6. Start(d) \in Nat /\ Start(LastDay + 1) \in Nat
  BY <1>2, <1>3, StartIsMonotonic
<1> QED
  BY <1>1, <1>2, <1>3, <1>5, <1>6

(* A counter that never expires lives longer than any date.                 *)
LEMMA NeverIsLate ==
  ASSUME NEW d \in 0..LastDay
  PROVE  Start(d + 1) < Never
<1>1. MaxTime \in Nat /\ DayLength \in Nat \ {0} /\ d \in Nat /\ LastDay \in Nat
  BY QuotaAssumption, DivisionRoundsDown DEF LastDay
<1>2. Start(LastDay) <= MaxTime
  BY <1>1, DivisionRoundsDown DEF LastDay
<1>3. Start(d) <= Start(LastDay)
  <2>1. d <= LastDay
    BY <1>1
  <2> QED
    BY <1>1, <2>1, ProductIsMonotonic
<1>4. Start(d) \in Nat /\ Start(LastDay) \in Nat /\ Start(d + 1) = Start(d) + DayLength
  BY <1>1, StartIsMonotonic
<1> QED
  BY <1>1, <1>2, <1>3, <1>4 DEF Never
-----------------------------------------------------------------------------
(* The inductive invariant.  Three parts relate the dates of the jobs, the  *)
(* life of the counters and the number of calls.                            *)
Dates == {"incr", "expire", "call", "answer"}
JobType ==
  [pc : {"idle"}] \cup [pc : {"get"}, user : Users, text : Texts]
  \cup [pc : Dates, user : Users, text : Texts, day : 0..LastDay, at : 0..MaxTime]

TypeInv ==
  /\ now \in 0..MaxTime /\ cache \subseteq Texts
  /\ DOMAIN counter \subseteq Keys
  /\ counter \in [DOMAIN counter -> [calls : 1..MaxCount, until : (now + 1)..Never]]
  /\ job \in [Jobs -> JobType]
  /\ called \in [Keys -> Nat] /\ wasted \in [Keys -> Nat] /\ refused \subseteq Keys

(* A job counts on the date it read, at most one step later.                *)
JobDated(j) ==
  job[j].pc \in Dates =>
    /\ Start(job[j].day) <= job[j].at /\ job[j].at < Start(job[j].day + 1)
    /\ job[j].at <= now
    /\ job[j].pc = "incr" => now <= job[j].at + 1

(* What was spent: requests sent, and those of jobs that have been counted. *)
Used(k) == called[k] + Cardinality(Counted(k))

(* A counter lives until after its date, and a key without a counter is one *)
(* on which nothing was spent or one of a past date.                        *)
CounterLives(k) ==
  IF k \in DOMAIN counter THEN counter[k].until > Start(k[2] + 1)
  ELSE Used(k) = 0 \/ now > Start(k[2] + 1)

(* No more is spent than counted, no more than the limit, and no less.      *)
CountsAll(k) ==
  /\ k \in DOMAIN counter =>
       /\ Used(k) <= counter[k].calls
       /\ Used(k) + wasted[k] >= counter[k].calls \/ Used(k) + wasted[k] >= Limit
  /\ Used(k) <= Limit \/ Limit = 0
  /\ Limit = 0 => called[k] = 0
  /\ k \in refused => Used(k) + wasted[k] >= Limit

NoCallAtZero == Limit = 0 => \A j \in Jobs : job[j].pc # "call"

IInv ==
  /\ TypeInv /\ NoCallAtZero
  /\ \A j \in Jobs : JobDated(j)
  /\ \A k \in Keys : CounterLives(k) /\ CountsAll(k)

-----------------------------------------------------------------------------
LEMMA KeysAreDated ==
  ASSUME NEW k \in Keys
  PROVE  k[2] \in 0..LastDay
BY DEF Keys, LastDay

LEMMA CountedIsFinite ==
  ASSUME NEW k
  PROVE  IsFiniteSet(Counted(k)) /\ Cardinality(Counted(k)) \in Nat
<1>1. Counted(k) \subseteq Jobs
  BY DEF Counted
<1> QED
  BY <1>1, FS_Subset, FS_CardinalityType, QuotaAssumption

(* The key of a dated job.                                                  *)
LEMMA DatedJobsHaveKeys ==
  ASSUME TypeInv, NEW j \in Jobs, job[j].pc \in Dates
  PROVE  /\ KeyOf(j) \in Keys /\ KeyOf(j)[2] = job[j].day
         /\ job[j].day \in 0..LastDay /\ job[j].at \in 0..MaxTime
<1>1. job[j] \in [pc : Dates, user : Users, text : Texts,
                   day : 0..LastDay, at : 0..MaxTime]
  BY DEF TypeInv, JobType, Dates
<1> QED
  BY <1>1 DEF KeyOf, Keys, LastDay

-----------------------------------------------------------------------------
(* Type correctness, action by action.                                      *)
LEMMA TypeInvInit == Init => TypeInv
BY QuotaAssumption DEF Init, TypeInv, JobType, Idle, Keys

LEMMA TypeInvStep == TypeInv /\ [Next]_vars => TypeInv'
<1> SUFFICES ASSUME TypeInv, [Next]_vars PROVE TypeInv'
  OBVIOUS
<1> USE QuotaAssumption
<1>0. MaxTime \in Nat /\ DayLength \in Nat \ {0} /\ now \in Nat /\ Never \in Nat
      /\ Never = MaxTime + 2 * DayLength
  BY DEF TypeInv, Never
<1>1. CASE Tick
  <2>1. now' \in 0..MaxTime
    BY <1>1, <1>0 DEF Tick, TypeInv
  <2>2. /\ counter' \in [DOMAIN counter' ->
                          [calls : 1..MaxCount, until : (now + 2)..Never]]
        /\ DOMAIN counter' \subseteq Keys
    BY <1>1, <1>0 DEF Tick, TypeInv
  <2> QED
    BY <1>0, <1>1, <2>1, <2>2 DEF Tick, TypeInv, JobType, Keys, ghosts
<1>2. CASE \E t \in Texts : CacheExpires(t)
  BY <1>2 DEF CacheExpires, TypeInv, JobType, Keys, ghosts
<1>3. ASSUME NEW j \in Jobs, ParseMessage(j) PROVE TypeInv'
  <2>1. job' \in [Jobs -> JobType]
    BY <1>3 DEF ParseMessage, TypeInv, JobType
  <2> QED
    BY <1>3, <2>1 DEF ParseMessage, TypeInv, JobType, Keys, ghosts, redis
<1>4. ASSUME NEW j \in Jobs, GetCached(j) PROVE TypeInv'
  <2>1. Today \in 0..LastDay
    BY DatesAreBounded DEF TypeInv, Today
  <2>2. job[j] \in [pc : {"get"}, user : Users, text : Texts]
    BY <1>4 DEF GetCached, Is, TypeInv, JobType, Dates
  <2>3. job' \in [Jobs -> JobType]
    BY <1>4, <2>1, <2>2 DEF GetCached, Ends, Idle, TypeInv, JobType, Dates
  <2> QED
    BY <1>4, <2>3 DEF GetCached, TypeInv, JobType, Keys, ghosts, redis
<1>5. ASSUME NEW j \in Jobs, Incr(j) PROVE TypeInv'
  <2>1. KeyOf(j) \in Keys
    BY <1>5, DatedJobsHaveKeys DEF Incr, Is, Dates
  <2>2. job' \in [Jobs -> JobType] /\ refused' \subseteq Keys
    <3>1. job[j] \in [pc : Dates, user : Users, text : Texts,
                       day : 0..LastDay, at : 0..MaxTime]
      BY <1>5 DEF Incr, Is, TypeInv, JobType, Dates
    <3>2. \/ (Goes(j, "expire") \/ Goes(j, "call")) /\ UNCHANGED refused
          \/ Ends(j) /\ refused' = refused \cup {KeyOf(j)}
      BY <1>5 DEF Incr, Decide
    <3> QED
      BY <2>1, <3>1, <3>2 DEF Goes, Ends, Idle, TypeInv, JobType, Dates
  <2>3. /\ DOMAIN counter' \subseteq Keys
        /\ counter' \in [DOMAIN counter' ->
                          [calls : 1..MaxCount, until : (now + 1)..Never]]
    BY <1>0, <1>5, <2>1 DEF Incr, TypeInv
  <2> QED
    BY <1>5, <2>2, <2>3 DEF Incr, TypeInv, Keys
<1>6. ASSUME NEW j \in Jobs, Expire(j) PROVE TypeInv'
  <2>1. KeyOf(j) \in Keys
    BY <1>6, DatedJobsHaveKeys DEF Expire, Is, Dates
  <2>2. job' \in [Jobs -> JobType] /\ refused' \subseteq Keys
    <3>1. job[j] \in [pc : Dates, user : Users, text : Texts,
                       day : 0..LastDay, at : 0..MaxTime]
      BY <1>6 DEF Expire, Is, TypeInv, JobType, Dates
    <3>2. \/ Goes(j, "call") /\ UNCHANGED refused
          \/ Ends(j) /\ refused' = refused \cup {KeyOf(j)}
      BY <1>6 DEF Expire, Decide
    <3> QED
      BY <2>1, <3>1, <3>2 DEF Goes, Ends, Idle, TypeInv, JobType, Dates
  <2>3. now + Ttl \in (now + 1)..Never
    BY <1>0 DEF Ttl, TypeInv
  <2>4. /\ DOMAIN counter' \subseteq Keys
        /\ counter' \in [DOMAIN counter' ->
                          [calls : 1..MaxCount, until : (now + 1)..Never]]
    BY <1>6, <2>1, <2>3 DEF Expire, TypeInv
  <2> QED
    BY <1>6, <2>2, <2>4 DEF Expire, TypeInv, Keys
<1>7. ASSUME NEW j \in Jobs, Call(j) PROVE TypeInv'
  <2>1. job[j] \in [pc : Dates, user : Users, text : Texts,
                     day : 0..LastDay, at : 0..MaxTime]
    BY <1>7 DEF Call, Is, TypeInv, JobType, Dates
  <2>2. job' \in [Jobs -> JobType]
    BY <1>7, <2>1 DEF Call, Goes, TypeInv, JobType, Dates
  <2>3. called' \in [Keys -> Nat]
    <3>1. KeyOf(j) \in Keys
      BY <1>7, DatedJobsHaveKeys DEF Call, Is, Dates
    <3> QED
      BY <1>7, <3>1 DEF Call, TypeInv
  <2> QED
    BY <1>7, <2>2, <2>3 DEF Call, TypeInv, Keys, redis
<1>8. ASSUME NEW j \in Jobs, CallFails(j) \/ SetCached(j) PROVE TypeInv'
  <2>1. job' \in [Jobs -> JobType]
    BY <1>8 DEF CallFails, SetCached, Ends, Idle, TypeInv, JobType
  <2>2. cache' \subseteq Texts
    <3>1. job[j] \in [pc : Dates, user : Users, text : Texts,
                       day : 0..LastDay, at : 0..MaxTime]
      BY <1>8 DEF CallFails, SetCached, Is, TypeInv, JobType, Dates
    <3> QED
      BY <1>8, <3>1 DEF CallFails, SetCached, TypeInv, redis
  <2> QED
    BY <1>8, <2>1, <2>2 DEF CallFails, SetCached, TypeInv, Keys, ghosts, redis
<1>9. ASSUME NEW j \in Jobs, Dies(j) PROVE TypeInv'
  <2>1. job' \in [Jobs -> JobType]
    BY <1>9 DEF Dies, Ends, Idle, TypeInv, JobType
  <2>2. wasted' \in [Keys -> Nat]
    <3>1. job[j].pc \in {"expire", "call"} => KeyOf(j) \in Keys
      BY DatedJobsHaveKeys DEF Dates
    <3> QED
      BY <1>9, <3>1 DEF Dies, TypeInv
  <2> QED
    BY <1>9, <2>1, <2>2 DEF Dies, TypeInv, Keys, redis
<1>10. CASE UNCHANGED vars
  BY <1>10 DEF vars, redis, ghosts, TypeInv, JobType, Keys
<1> QED
  BY <1>1, <1>2, <1>3, <1>4, <1>5, <1>6, <1>7, <1>8, <1>9, <1>10 DEF Next

-----------------------------------------------------------------------------
(* The dates of the jobs.                                                   *)
LEMMA JobDatedStep ==
  ASSUME TypeInv, TypeInv', [Next]_vars, \A j \in Jobs : JobDated(j)
  PROVE  \A i \in Jobs : JobDated(i)'
<1>0. now \in Nat /\ MaxTime \in Nat /\ now <= MaxTime
  BY QuotaAssumption DEF TypeInv
<1>d. \A i \in Jobs : job[i].pc \in Dates =>
        /\ job[i].at \in Nat
        /\ Start(job[i].day) \in Nat /\ Start(job[i].day + 1) \in Nat
  BY DatedJobsHaveKeys, StartIsMonotonic
<1>1. CASE Tick
  BY <1>0, <1>1, <1>d DEF Tick, JobDated, Is, ghosts
<1>2. CASE job' = job /\ now' = now
  BY <1>2 DEF JobDated
<1>3. ASSUME NEW j \in Jobs, job' = [job EXCEPT ![j] = Idle], now' = now
      PROVE  \A i \in Jobs : JobDated(i)'
  BY <1>3 DEF JobDated, Idle, Dates, TypeInv
<1>4. ASSUME NEW j \in Jobs, NEW pc \in Dates \ {"incr"}, job[j].pc \in Dates,
             job' = [job EXCEPT ![j].pc = pc], now' = now
      PROVE  \A i \in Jobs : JobDated(i)'
  <2>1. job[j] \in [pc : Dates, user : Users, text : Texts,
                     day : 0..LastDay, at : 0..MaxTime]
    BY <1>4 DEF TypeInv, JobType, Dates
  <2>2. job'[j].day = job[j].day /\ job'[j].at = job[j].at /\ job'[j].pc = pc
    BY <1>4, <2>1 DEF TypeInv
  <2>3. \A i \in Jobs : i # j => job'[i] = job[i]
    BY <1>4 DEF TypeInv
  <2> QED
    BY <1>4, <2>2, <2>3 DEF JobDated
<1>5. ASSUME NEW j \in Jobs, ParseMessage(j) PROVE \A i \in Jobs : JobDated(i)'
  <2>1. job'[j].pc = "get" /\ now' = now /\ \A i \in Jobs : i # j => job'[i] = job[i]
    BY <1>5 DEF ParseMessage, TypeInv
  <2> QED
    BY <2>1 DEF JobDated, Dates
<1>6. ASSUME NEW j \in Jobs, GetCached(j) PROVE \A i \in Jobs : JobDated(i)'
  <2>1. CASE job[j].text \in cache
    BY <1>3, <1>6, <2>1 DEF GetCached, Ends
  <2>2. CASE job[j].text \notin cache
    <3>1. /\ job'[j].day = Today /\ job'[j].at = now /\ now' = now
          /\ \A i \in Jobs : i # j => job'[i] = job[i]
      BY <1>6, <2>2 DEF GetCached, TypeInv
    <3>2. Start(Today) <= now /\ now < Start(Today + 1)
      BY <1>0, DivisionRoundsDown DEF Today
    <3> QED
      BY <1>0, <3>1, <3>2 DEF JobDated
  <2> QED
    BY <2>1, <2>2
<1>7. ASSUME NEW j \in Jobs, Incr(j) PROVE \A i \in Jobs : JobDated(i)'
  <2>1. \/ \E pc \in {"expire", "call"} : job' = [job EXCEPT ![j].pc = pc]
        \/ job' = [job EXCEPT ![j] = Idle]
    BY <1>7 DEF Incr, Decide, Goes, Ends
  <2> QED
    BY <1>3, <1>4, <1>7, <2>1 DEF Incr, Is, Dates
<1>8. ASSUME NEW j \in Jobs, Expire(j) PROVE \A i \in Jobs : JobDated(i)'
  <2>1. \/ job' = [job EXCEPT ![j].pc = "call"]
        \/ job' = [job EXCEPT ![j] = Idle]
    BY <1>8 DEF Expire, Decide, Goes, Ends
  <2> QED
    BY <1>3, <1>4, <1>8, <2>1 DEF Expire, Is, Dates
<1>9. ASSUME NEW j \in Jobs, Call(j) PROVE \A i \in Jobs : JobDated(i)'
  BY <1>4, <1>9 DEF Call, Goes, Is, Dates
<1> QED
  BY <1>1, <1>2, <1>3, <1>5, <1>6, <1>7, <1>8, <1>9
  DEF Next, vars, CacheExpires, CallFails, SetCached, Dies, Ends

-----------------------------------------------------------------------------
(* The number of jobs that have been counted on a key, when one job moves.  *)
In(j, k) == job[j].pc \in {"expire", "call"} /\ KeyOf(j) = k

LEMMA CountedStep ==
  ASSUME NEW j \in Jobs, NEW k, \A i \in Jobs \ {j} : job'[i] = job[i]
  PROVE  /\ In(j, k) => Cardinality(Counted(k)) \in Nat \ {0}
         /\ In(j, k)' /\ ~In(j, k) =>
              Cardinality(Counted(k))' = Cardinality(Counted(k)) + 1
         /\ ~In(j, k)' /\ In(j, k) =>
              Cardinality(Counted(k))' = Cardinality(Counted(k)) - 1
         /\ (In(j, k)' <=> In(j, k)) =>
              Cardinality(Counted(k))' = Cardinality(Counted(k))
<1>0. IsFiniteSet(Counted(k)) /\ Cardinality(Counted(k)) \in Nat
  BY CountedIsFinite
<1>1. In(j, k) <=> j \in Counted(k)
  BY DEF In, Counted
<1>2. In(j, k)' => Counted(k)' = Counted(k) \cup {j}
  BY DEF In, Counted, KeyOf
<1>3. ~In(j, k)' => Counted(k)' = Counted(k) \ {j}
  BY DEF In, Counted, KeyOf
<1>4. In(j, k) => Cardinality(Counted(k)) # 0
  BY <1>0, <1>1, FS_EmptySet
<1>5. /\ j \notin Counted(k) => Cardinality(Counted(k) \cup {j}) = Cardinality(Counted(k)) + 1
      /\ j \in Counted(k) => Cardinality(Counted(k) \ {j}) = Cardinality(Counted(k)) - 1
  BY <1>0, FS_AddElement, FS_RemoveElement
<1>6. /\ j \in Counted(k) => Counted(k) \cup {j} = Counted(k)
      /\ j \notin Counted(k) => Counted(k) \ {j} = Counted(k)
  OBVIOUS
<1> QED
  BY <1>0, <1>1, <1>2, <1>3, <1>4, <1>5, <1>6

(* What a job's move leaves of it and of the others.                        *)
LEMMA GoesMoves ==
  ASSUME TypeInv, NEW j \in Jobs, NEW pc, job[j].pc \in Dates, Goes(j, pc)
  PROVE  /\ job'[j].pc = pc /\ KeyOf(j)' = KeyOf(j)
         /\ \A i \in Jobs \ {j} : job'[i] = job[i]
<1>1. job[j] \in [pc : Dates, user : Users, text : Texts,
                  day : 0..LastDay, at : 0..MaxTime]
  BY DEF TypeInv, JobType, Dates
<1> QED
  BY <1>1 DEF Goes, KeyOf, TypeInv

LEMMA EndsMoves ==
  ASSUME TypeInv, NEW j \in Jobs, Ends(j)
  PROVE  /\ job'[j].pc = "idle"
         /\ \A i \in Jobs \ {j} : job'[i] = job[i]
BY DEF Ends, Idle, TypeInv

-----------------------------------------------------------------------------
(* The quota, action by action.                                             *)
Quota(k) == CounterLives(k) /\ CountsAll(k)

LEMMA QuotaNumbers ==
  ASSUME TypeInv, NEW k \in Keys
  PROVE  /\ called[k] \in Nat /\ wasted[k] \in Nat /\ Limit \in Nat
         /\ Cardinality(Counted(k)) \in Nat /\ Used(k) \in Nat
         /\ now \in Nat /\ Start(k[2] + 1) \in Nat
         /\ k \in DOMAIN counter =>
              counter[k].calls \in Nat \ {0} /\ counter[k].until \in Nat
<1>1. Start(k[2] + 1) \in Nat
  BY KeysAreDated, StartIsMonotonic
<1>2. Cardinality(Counted(k)) \in Nat
  BY CountedIsFinite
<1>3. k \in DOMAIN counter =>
        counter[k].calls \in Nat \ {0} /\ counter[k].until \in Nat
  <2>1. now \in Nat /\ MaxCount \in Nat /\ Never \in Nat
    BY QuotaAssumption DEF TypeInv, Never
  <2> QED
    BY <2>1 DEF TypeInv
<1> QED
  BY <1>1, <1>2, <1>3, QuotaAssumption DEF TypeInv, Used

(* Where counters, calls and counted jobs stay, so does the quota.          *)
LEMMA QuotaUntouched ==
  ASSUME NEW k \in Keys, Quota(k),
         counter' = counter, called' = called, wasted' = wasted, now' = now,
         refused' = refused, Cardinality(Counted(k))' = Cardinality(Counted(k))
  PROVE  Quota(k)'
BY DEF Quota, CounterLives, CountsAll, Used

LEMMA QuotaTick ==
  ASSUME TypeInv, Tick, NEW k \in Keys, Quota(k)
  PROVE  Quota(k)'
<1>1. Used(k)' = Used(k) /\ called' = called /\ wasted' = wasted /\ refused' = refused
  BY DEF Tick, Used, Counted, KeyOf, ghosts
<1>2. now' = now + 1
  BY DEF Tick
<1>3. k \in DOMAIN counter' => k \in DOMAIN counter /\ counter'[k] = counter[k]
  BY DEF Tick
<1>4. k \in DOMAIN counter /\ k \notin DOMAIN counter' => ~(counter[k].until > now + 1)
  BY DEF Tick
<1>5. CounterLives(k)'
  BY <1>1, <1>2, <1>3, <1>4, QuotaNumbers DEF Quota, CounterLives
<1> QED
  BY <1>1, <1>3, <1>5 DEF Quota, CountsAll

LEMMA QuotaIncr ==
  ASSUME TypeInv, TypeInv', NEW j \in Jobs, JobDated(j), Incr(j),
         NEW k \in Keys, Quota(k)
  PROVE  Quota(k)'
<1> DEFINE n == IF k \in DOMAIN counter THEN counter[k].calls ELSE 0
           old == Cardinality(Counted(k))
<1>0. /\ job[j].pc = "incr" /\ ~In(j, k) /\ KeyOf(j) \in Keys
      /\ KeyOf(j)[2] = job[j].day /\ job[j].day \in 0..LastDay
  BY DatedJobsHaveKeys DEF Incr, Is, In, Dates
<1>1. now' = now /\ called' = called /\ wasted' = wasted
  BY DEF Incr
<1>2. /\ called[k] \in Nat /\ wasted[k] \in Nat /\ Limit \in Nat /\ old \in Nat
      /\ now \in Nat /\ Start(k[2] + 1) \in Nat /\ n \in Nat
  BY QuotaNumbers
<1>3. \A i \in Jobs \ {j} : job'[i] = job[i]
  BY <1>0, GoesMoves, EndsMoves DEF Incr, Decide, Dates
<1>4. CASE KeyOf(j) # k
  <2>1. ~In(j, k)'
    BY <1>0, <1>4, GoesMoves, EndsMoves DEF Incr, Decide, Dates, In
  <2>2. Cardinality(Counted(k))' = old
    BY <1>0, <1>3, <2>1, CountedStep
  <2>3. /\ (k \in DOMAIN counter' <=> k \in DOMAIN counter)
        /\ k \in DOMAIN counter => counter'[k] = counter[k]
    <3>1. DOMAIN counter' = DOMAIN counter \cup {KeyOf(j)}
      BY DEF Incr
    <3>2. \A x \in DOMAIN counter : x # KeyOf(j) => counter'[x] = counter[x]
      BY DEF Incr
    <3> QED
      BY <1>4, <3>1, <3>2
  <2>4. k \in refused' <=> k \in refused
    BY <1>4 DEF Incr, Decide
  <2> QED
    BY <1>1, <2>2, <2>3, <2>4 DEF Quota, CounterLives, CountsAll, Used
<1>5. CASE KeyOf(j) = k
  <2>1. /\ k \in DOMAIN counter' /\ counter'[k].calls = n + 1
        /\ n = 0 => counter'[k].until = Never
        /\ n # 0 => counter'[k].until = counter[k].until
    <3>1. k \in DOMAIN counter =>
            counter[k] \in [calls : 1..MaxCount, until : (now + 1)..Never]
      BY DEF TypeInv
    <3> QED
      BY <1>2, <1>5, <3>1 DEF Incr
  <2>2. CounterLives(k)'
    <3>1. Start(k[2] + 1) < Never
      BY KeysAreDated, NeverIsLate
    <3>2. k \in DOMAIN counter => counter[k].calls # 0
      BY QuotaNumbers
    <3>3. counter'[k].until > Start(k[2] + 1)
      BY <1>2, <2>1, <3>1, <3>2 DEF Quota, CounterLives, Never
    <3> QED
      BY <2>1, <3>3 DEF CounterLives
  <2>3. n = 0 => called[k] + old = 0
    <3>1. job[j].at < Start(k[2] + 1) /\ now <= job[j].at + 1 /\ job[j].at \in Nat
      BY <1>0, <1>5, DatedJobsHaveKeys DEF JobDated, Dates
    <3>2. n = 0 => k \notin DOMAIN counter
      BY QuotaNumbers
    <3> QED
      BY <1>2, <3>1, <3>2 DEF Quota, CounterLives, Used
  <2>4. /\ n # 0 => called[k] + old <= n
        /\ n # 0 => called[k] + old + wasted[k] >= n \/ called[k] + old + wasted[k] >= Limit
        /\ called[k] + old <= Limit \/ Limit = 0
        /\ Limit = 0 => called[k] = 0
        /\ k \in refused => called[k] + old + wasted[k] >= Limit
    BY DEF Quota, CountsAll, Used
  <2>5. CASE n = 0 \/ n + 1 <= Limit
    <3>1. In(j, k)' /\ refused' = refused
      <4>1. (Goes(j, "expire") \/ Goes(j, "call")) /\ refused' = refused
        BY <1>2, <1>5, <2>5 DEF Incr, Decide
      <4> QED
        BY <1>0, <1>5, <4>1, GoesMoves DEF In, Dates
    <3>2. Cardinality(Counted(k))' = old + 1
      BY <1>0, <1>3, <3>1, CountedStep
    <3> HIDE DEF n, old
    <3>3. CountsAll(k)'
      BY <1>1, <1>2, <2>1, <2>3, <2>4, <2>5, <3>1, <3>2 DEF CountsAll, Used
    <3> QED
      BY <2>2, <3>3 DEF Quota
  <2>6. CASE n # 0 /\ ~(n + 1 <= Limit)
    <3>1. Ends(j) /\ refused' = refused \cup {k}
      BY <1>2, <1>5, <2>6 DEF Incr, Decide
    <3>2. Cardinality(Counted(k))' = old
      BY <1>0, <1>3, <3>1, CountedStep, EndsMoves DEF In
    <3> HIDE DEF n, old
    <3>3. CountsAll(k)'
      BY <1>1, <1>2, <2>1, <2>4, <2>6, <3>1, <3>2 DEF CountsAll, Used
    <3> QED
      BY <2>2, <3>3 DEF Quota
  <2> QED
    BY <2>5, <2>6
<1> QED
  BY <1>4, <1>5

LEMMA QuotaExpire ==
  ASSUME TypeInv, NEW j \in Jobs, JobDated(j), Expire(j),
         NEW k \in Keys, Quota(k)
  PROVE  Quota(k)'
<1> DEFINE old == Cardinality(Counted(k))
<1>0. /\ job[j].pc = "expire" /\ KeyOf(j) \in Keys
      /\ KeyOf(j)[2] = job[j].day /\ job[j].day \in 0..LastDay
      /\ In(j, k) <=> KeyOf(j) = k
  BY DatedJobsHaveKeys DEF Expire, Is, In, Dates
<1>1. now' = now /\ called' = called /\ wasted' = wasted
  BY DEF Expire
<1>2. /\ called[k] \in Nat /\ wasted[k] \in Nat /\ Limit \in Nat /\ old \in Nat
      /\ now \in Nat /\ Start(k[2] + 1) \in Nat
      /\ k \in DOMAIN counter => counter[k].calls \in Nat
  BY QuotaNumbers
<1>3. \/ Goes(j, "call") /\ refused' = refused
      \/ Ends(j) /\ refused' = refused \cup {KeyOf(j)} /\ Limit = 0
  BY QuotaAssumption DEF Expire, Decide
<1>4. \A i \in Jobs \ {j} : job'[i] = job[i]
  BY <1>0, <1>3, GoesMoves, EndsMoves DEF Dates
<1>5. /\ k \in DOMAIN counter' <=> k \in DOMAIN counter
      /\ k \in DOMAIN counter =>
           /\ counter'[k].calls = counter[k].calls
           /\ counter'[k].until = IF k = KeyOf(j) THEN now + Ttl ELSE counter[k].until
  <2>1. k \in DOMAIN counter =>
          counter[k] \in [calls : 1..MaxCount, until : (now + 1)..Never]
    BY DEF TypeInv
  <2> QED
    BY <2>1 DEF Expire
<1>6. k = KeyOf(j) => now + Ttl > Start(k[2] + 1)
  <2>1. Start(job[j].day) <= now /\ now \in Nat
    <3>1. Start(job[j].day) <= job[j].at /\ job[j].at <= now /\ job[j].at \in Nat
      BY <1>0, DatedJobsHaveKeys DEF JobDated, Dates
    <3>2. Start(job[j].day) \in Nat
      BY <1>0, StartIsMonotonic
    <3> QED
      BY <1>2, <3>1, <3>2
  <2>2. Start(job[j].day) \in Nat /\ Start(job[j].day + 1) = Start(job[j].day) + DayLength
    BY <1>0, StartIsMonotonic
  <2> QED
    BY <1>0, <2>1, <2>2, QuotaAssumption DEF Ttl
<1>7. \/ Cardinality(Counted(k))' = old
      \/ Limit = 0 /\ Cardinality(Counted(k))' \in Nat
  <2>1. CASE Goes(j, "call")
    <3>1. In(j, k)' <=> In(j, k)
      BY <1>0, <2>1, GoesMoves DEF In, Dates
    <3> QED
      BY <1>4, <3>1, CountedStep
  <2>2. CASE Limit = 0
    <3>1. \/ Cardinality(Counted(k))' = old
          \/ Cardinality(Counted(k))' = old - 1 /\ old # 0
          \/ Cardinality(Counted(k))' = old + 1
      BY <1>4, CountedStep
    <3> QED
      BY <1>2, <2>2, <3>1
  <2> QED
    BY <1>3, <2>1, <2>2
<1>8. Cardinality(Counted(k))' <= old
  <2>1. In(j, k)' => In(j, k)
    BY <1>0, <1>3, GoesMoves, EndsMoves DEF In, Dates
  <2> QED
    BY <1>2, <1>4, <2>1, CountedStep
<1> HIDE DEF old
<1>9. CounterLives(k)'
  BY <1>1, <1>2, <1>5, <1>6, <1>7, <1>8 DEF Quota, CounterLives, Used, old
<1>10. CountsAll(k)'
  BY <1>1, <1>2, <1>3, <1>5, <1>7, <1>8 DEF Quota, CountsAll, Used, old
<1> QED
  BY <1>9, <1>10 DEF Quota

LEMMA QuotaCall ==
  ASSUME TypeInv, NoCallAtZero, NEW j \in Jobs, Call(j), NEW k \in Keys, Quota(k)
  PROVE  Quota(k)'
<1> DEFINE old == Cardinality(Counted(k))
<1>0. /\ job[j].pc = "call" /\ KeyOf(j) \in Keys /\ Limit # 0
      /\ In(j, k) <=> KeyOf(j) = k
  BY DatedJobsHaveKeys DEF Call, Is, In, Dates, NoCallAtZero
<1>1. /\ now' = now /\ wasted' = wasted /\ refused' = refused /\ counter' = counter
      /\ called'[k] = IF KeyOf(j) = k THEN called[k] + 1 ELSE called[k]
  BY <1>0 DEF Call, redis, TypeInv
<1>2. called[k] \in Nat /\ old \in Nat
  BY QuotaNumbers
<1>3. ~In(j, k)' /\ \A i \in Jobs \ {j} : job'[i] = job[i]
  BY <1>0, GoesMoves DEF Call, Dates, In
<1>4. Cardinality(Counted(k))' = IF KeyOf(j) = k THEN old - 1 ELSE old
  BY <1>0, <1>3, CountedStep
<1>5. Used(k)' = Used(k)
  BY <1>1, <1>2, <1>4 DEF Used
<1> QED
  BY <1>0, <1>1, <1>5 DEF Quota, CounterLives, CountsAll

LEMMA QuotaDies ==
  ASSUME TypeInv, NEW j \in Jobs, Dies(j), NEW k \in Keys, Quota(k)
  PROVE  Quota(k)'
<1> DEFINE old == Cardinality(Counted(k))
<1>1. now' = now /\ called' = called /\ refused' = refused /\ counter' = counter
  BY DEF Dies, redis
<1>2. /\ called[k] \in Nat /\ wasted[k] \in Nat /\ old \in Nat /\ Limit \in Nat
      /\ now \in Nat /\ Start(k[2] + 1) \in Nat
      /\ k \in DOMAIN counter => counter[k].calls \in Nat
  BY QuotaNumbers
<1>3. ~In(j, k)' /\ \A i \in Jobs \ {j} : job'[i] = job[i]
  BY EndsMoves DEF Dies, In
<1>4. CASE In(j, k)
  <2>1. wasted'[k] = wasted[k] + 1
    BY <1>4 DEF Dies, In, TypeInv
  <2>2. Cardinality(Counted(k))' = old - 1 /\ old # 0
    BY <1>3, <1>4, CountedStep
  <2> HIDE DEF old
  <2> QED
    BY <1>1, <1>2, <2>1, <2>2 DEF Quota, CounterLives, CountsAll, Used, old
<1>5. CASE ~In(j, k)
  <2>1. wasted'[k] = wasted[k]
    BY <1>5 DEF Dies, In, TypeInv
  <2>2. Cardinality(Counted(k))' = old
    BY <1>3, <1>5, CountedStep
  <2> QED
    BY <1>1, <2>1, <2>2 DEF Quota, CounterLives, CountsAll, Used
<1> QED
  BY <1>4, <1>5

(* Before it is counted and after its call, a job counts for nothing.       *)
LEMMA QuotaQuiet ==
  ASSUME TypeInv, NEW j \in Jobs,
         ParseMessage(j) \/ GetCached(j) \/ CallFails(j) \/ SetCached(j),
         NEW k \in Keys, Quota(k)
  PROVE  Quota(k)'
<1>1. /\ now' = now /\ called' = called /\ wasted' = wasted /\ refused' = refused
      /\ counter' = counter
  BY DEF ParseMessage, GetCached, CallFails, SetCached, redis, ghosts
<1>2. job[j].pc \in {"idle", "get", "answer"}
  BY DEF ParseMessage, GetCached, CallFails, SetCached, Is
<1>3. /\ job'[j].pc \in {"idle", "get", "incr"}
      /\ \A i \in Jobs \ {j} : job'[i] = job[i]
  BY DEF ParseMessage, GetCached, CallFails, SetCached, Ends, Idle, TypeInv
<1>4. ~In(j, k) /\ ~In(j, k)'
  BY <1>2, <1>3 DEF In
<1>5. Cardinality(Counted(k))' = Cardinality(Counted(k))
  BY <1>3, <1>4, CountedStep
<1> QED
  BY <1>1, <1>5, QuotaUntouched

LEMMA NoCallAtZeroStep ==
  ASSUME TypeInv, NoCallAtZero, [Next]_vars
  PROVE  NoCallAtZero'
<1>1. SUFFICES ASSUME Limit = 0, NEW i \in Jobs, job'[i].pc = "call" PROVE FALSE
  BY DEF NoCallAtZero
<1>2. job[i].pc # "call"
  BY <1>1 DEF NoCallAtZero
<1>3. ASSUME NEW j \in Jobs, Incr(j) \/ Expire(j) PROVE FALSE
  <2>1. \/ Ends(j)
        \/ Goes(j, "expire")
        \/ \E n \in Nat : n + 1 <= Limit
    <3>1. \A k \in DOMAIN counter : counter[k].calls \in Nat
      BY QuotaAssumption DEF TypeInv
    <3>2. CASE Incr(j)
      BY <3>1, <3>2 DEF Incr, Decide
    <3>3. CASE Expire(j)
      <4>1. 0 \in Nat /\ 0 + 1 = 1
        OBVIOUS
      <4> QED
        BY <1>1, <3>3, <4>1 DEF Expire, Decide
    <3> QED
      BY <1>3, <3>2, <3>3
  <2>2. job[j].pc \in Dates
    BY <1>3 DEF Incr, Expire, Is, Dates
  <2> QED
    BY <1>1, <1>2, <2>1, <2>2, GoesMoves, EndsMoves
<1>4. ASSUME NEW j \in Jobs, Call(j) PROVE FALSE
  BY <1>1, <1>2, <1>4, GoesMoves DEF Call, Is, Dates
<1>5. ASSUME NEW j \in Jobs,
             ParseMessage(j) \/ GetCached(j) \/ CallFails(j) \/ SetCached(j) \/ Dies(j)
      PROVE FALSE
  BY <1>1, <1>2, <1>5
  DEF ParseMessage, GetCached, CallFails, SetCached, Dies, Ends, Idle, TypeInv
<1>6. CASE UNCHANGED vars \/ Tick \/ \E t \in Texts : CacheExpires(t)
  BY <1>1, <1>2, <1>6 DEF vars, Tick, CacheExpires
<1> QED
  BY <1>3, <1>4, <1>5, <1>6 DEF Next

-----------------------------------------------------------------------------
LEMMA IInvInit == Init => IInv
<1> SUFFICES ASSUME Init PROVE IInv
  OBVIOUS
<1>1. \A j \in Jobs : job[j].pc = "idle"
  BY DEF Init, Idle
<1>2. \A k \in Keys : Counted(k) = {} /\ called[k] = 0 /\ wasted[k] = 0
  BY <1>1 DEF Counted, Init
<1>3. \A k \in Keys : Used(k) = 0
  BY <1>2, FS_EmptySet DEF Used
<1>4. \A k \in Keys : k \notin DOMAIN counter /\ k \notin refused
  BY DEF Init
<1>5. \A k \in Keys : CounterLives(k) /\ CountsAll(k)
  BY <1>2, <1>3, <1>4, QuotaAssumption DEF CounterLives, CountsAll
<1> QED
  BY <1>1, <1>5, TypeInvInit DEF IInv, NoCallAtZero, JobDated, Dates

LEMMA IInvStep == IInv /\ [Next]_vars => IInv'
<1> SUFFICES ASSUME IInv, [Next]_vars PROVE IInv'
  OBVIOUS
<1>1. TypeInv /\ TypeInv' /\ NoCallAtZero /\ NoCallAtZero'
  BY TypeInvStep, NoCallAtZeroStep DEF IInv
<1>2. (\A j \in Jobs : JobDated(j)) /\ \A j \in Jobs : JobDated(j)'
  BY <1>1, JobDatedStep DEF IInv
<1>3. ASSUME NEW k \in Keys PROVE Quota(k)'
  <2>0. Quota(k)
    BY DEF IInv, Quota
  <2>1. CASE Tick
    BY <1>1, <2>0, <2>1, QuotaTick
  <2>2. CASE UNCHANGED vars \/ \E t \in Texts : CacheExpires(t)
    <3>1. Cardinality(Counted(k))' = Cardinality(Counted(k))
      BY <2>2 DEF vars, CacheExpires, Counted, KeyOf
    <3> QED
      BY <2>0, <2>2, <3>1, QuotaUntouched DEF vars, redis, ghosts, CacheExpires
  <2>3. ASSUME NEW j \in Jobs, Incr(j) PROVE Quota(k)'
    BY <1>1, <1>2, <2>0, <2>3, QuotaIncr
  <2>4. ASSUME NEW j \in Jobs, Expire(j) PROVE Quota(k)'
    BY <1>1, <1>2, <2>0, <2>4, QuotaExpire
  <2>5. ASSUME NEW j \in Jobs, Call(j) PROVE Quota(k)'
    BY <1>1, <2>0, <2>5, QuotaCall
  <2>6. ASSUME NEW j \in Jobs, Dies(j) PROVE Quota(k)'
    BY <1>1, <2>0, <2>6, QuotaDies
  <2>7. ASSUME NEW j \in Jobs,
               ParseMessage(j) \/ GetCached(j) \/ CallFails(j) \/ SetCached(j)
        PROVE  Quota(k)'
    BY <1>1, <2>0, <2>7, QuotaQuiet
  <2> QED
    BY <2>1, <2>2, <2>3, <2>4, <2>5, <2>6, <2>7 DEF Next
<1>4. Keys' = Keys
  BY DEF Keys
<1> QED
  BY <1>1, <1>2, <1>3, <1>4 DEF IInv, Quota

LEMMA IInvImplies == IInv => TypeOK /\ WithinLimit /\ RefusedAtTheLimit
<1> SUFFICES ASSUME IInv PROVE TypeOK /\ WithinLimit /\ RefusedAtTheLimit
  OBVIOUS
<1>0. TypeInv
  BY DEF IInv
<1>1. TypeOK
  <2>1. \A j \in Jobs : job[j].pc \in {"idle", "get", "incr", "expire", "call", "answer"}
    BY <1>0 DEF TypeInv, JobType, Dates
  <2>2. \A k \in DOMAIN counter : /\ counter[k].calls \in 1..MaxCount
                                 /\ counter[k].until \in (now + 1)..Never
    BY <1>0 DEF TypeInv
  <2> QED
    BY <1>0, <2>1, <2>2 DEF TypeInv, TypeOK
<1>2. ASSUME NEW k \in Keys PROVE called[k] <= Limit
  <2>1. called[k] \in Nat /\ Cardinality(Counted(k)) \in Nat /\ Limit \in Nat
    BY <1>0, QuotaNumbers
  <2>2. /\ called[k] + Cardinality(Counted(k)) <= Limit \/ Limit = 0
        /\ Limit = 0 => called[k] = 0
    BY DEF IInv, CountsAll, Used
  <2> QED
    BY <2>1, <2>2
<1>3. ASSUME NEW k \in refused
      PROVE  called[k] + wasted[k] + Cardinality(Counted(k)) >= Limit
  <2>1. k \in Keys
    BY <1>0 DEF TypeInv
  <2>2. called[k] + Cardinality(Counted(k)) + wasted[k] >= Limit
    BY <2>1 DEF IInv, CountsAll, Used
  <2>3. called[k] \in Nat /\ wasted[k] \in Nat /\ Cardinality(Counted(k)) \in Nat
    BY <1>0, <2>1, QuotaNumbers
  <2> QED
    BY <2>2, <2>3, QuotaAssumption
<1> QED
  BY <1>1, <1>2, <1>3 DEF WithinLimit, RefusedAtTheLimit

LEMMA IInvHolds == Spec => []IInv
BY IInvInit, IInvStep, PTL DEF Spec

(* Every variable has its type and no counter outlives its expiry, however  *)
(* many jobs interleave their Redis commands.                               *)
THEOREM TypeCorrect == Spec => []TypeOK
BY IInvHolds, IInvImplies, PTL

(* The daily limit of _reserve_call is kept for every limit, length of a    *)
(* day and number of jobs: the counter, which lives an hour longer than a   *)
(* day, is never gone while a job may still count on its date.              *)
THEOREM LimitIsKept == Spec => []WithinLimit
BY IInvHolds, IInvImplies, PTL

(* _reserve_call turns nobody down before the limit is used up, whatever    *)
(* becomes of the jobs that were counted.                                   *)
THEOREM NobodyIsRefusedEarly == Spec => []RefusedAtTheLimit
BY IInvHolds, IInvImplies, PTL
=============================================================================
