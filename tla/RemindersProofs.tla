--------------------------- MODULE RemindersProofs ---------------------------
(***************************************************************************)
(* Proofs about Reminders, for any users, subscriptions, recomputes, sends, *)
(* settings handlers and calendar.                                          *)
(***************************************************************************)
EXTENDS Reminders, FiniteSetTheorems, WellFoundedInduction, TLAPS

-----------------------------------------------------------------------------
(* The least number of a set, the calendar's digest hours, and new ids.     *)
LEMMA MinIsLeast ==
  ASSUME NEW S \in SUBSET Nat, S # {}
  PROVE  Min(S) \in S /\ \A y \in S : Min(S) <= y
<1> DEFINE R == OpToRel(<, Nat)
<1>1. \A x, y \in Nat : <<x, y>> \in R <=> x < y
  BY DEF OpToRel
<1>2. IsWellFoundedOn(R, Nat)
  BY NatLessThanWellFounded
<1> HIDE DEF R
<1>3. \E x \in S : \A y \in S : ~ (<<y, x>> \in R)
  BY <1>2, WFMin
<1>4. PICK x \in S : \A y \in S : ~ (<<y, x>> \in R)
  BY <1>3
<1>5. ASSUME NEW y \in S PROVE x <= y
  <2>1. x \in Nat /\ y \in Nat /\ ~ (<<y, x>> \in R)
    BY <1>4
  <2>2. ~ (y < x)
    BY <1>1, <2>1
  <2> QED
    BY <2>1, <2>2
<1> QED
  BY <1>5 DEF Min

LEMMA HourOfCycleComes ==
  ASSUME NEW w \in Nat \ {0}, NEW a \in Nat, NEW h \in Nat, h < w
  PROVE  \E d \in 1..w : (a + d) % w = h
<1> DEFINE q == a \div w
           r == a % w
<1>1. a = w * q + r /\ q \in Nat /\ r \in 0..(w - 1)
  OBVIOUS
<1>2. \A k \in Nat : (w * k + h) % w = h
  OBVIOUS
<1> HIDE DEF q, r
<1>3. CASE r < h
  <2>1. a + (h - r) = w * q + h /\ h - r \in 1..w
    BY <1>1, <1>3
  <2> QED
    BY <1>1, <1>2, <2>1
<1>4. CASE r >= h
  <2>1. a + (w + h - r) = w * (q + 1) + h /\ w + h - r \in 1..w
    BY <1>1, <1>4
  <2>2. q + 1 \in Nat
    BY <1>1
  <2> QED
    BY <1>2, <2>1, <2>2
<1> QED
  BY <1>1, <1>3, <1>4

LEMMA CycleOfHours == Hours \in Nat /\ Hours >= Week /\ Hours > 1
<1> DEFINE both == {n \in 1..(Week * Month) : n % Week = 0 /\ n % Month = 0}
<1>1. Week \in Nat \ {0, 1} /\ Month \in Nat \ {0}
  BY RemindersAssumption
<1>2. Week * Month \in 1..(Week * Month)
  BY <1>1
<1>3. (Week * Month) % Week = 0 /\ (Week * Month) % Month = 0
  <2>1. \A w \in Nat \ {0}, m \in Nat : (w * m) % w = 0
    OBVIOUS
  <2>2. Week * Month = Month * Week
    BY <1>1
  <2> QED
    BY <1>1, <2>1, <2>2
<1>4. both \in SUBSET Nat /\ both # {}
  BY <1>2, <1>3
<1>5. Min(both) \in both
  BY <1>4, MinIsLeast
<1>6. \A n \in 1..(Week * Month) : n % Week = 0 => n >= Week
  <2>1. \A w \in Nat \ {0}, n \in Nat : n > 0 /\ n < w => n % w = n
    OBVIOUS
  <2> QED
    BY <1>1, <2>1
<1>7. Hours = Min(both)
  BY DEF Hours
<1> HIDE DEF both
<1>8. Hours \in Nat /\ Hours >= Week
  <2>1. Hours \in 1..(Week * Month) /\ Hours % Week = 0
    BY <1>5, <1>7 DEF both
  <2> QED
    BY <1>6, <2>1
<1> QED
  BY <1>1, <1>8

LEMMA WeeklyIsAhead ==
  ASSUME NEW n \in Nat, NEW z \in Nat
  PROVE  WeeklyIn(n, z) \in 1..Week
<1> DEFINE ahead == {d \in 1..Week : (n + z + d) % Week = DigestHour}
<1>1. ahead \in SUBSET Nat
  BY RemindersAssumption
<1>2. n + z \in Nat
  OBVIOUS
<1>3. \E d \in 1..Week : ((n + z) + d) % Week = DigestHour
  <2>1. Week \in Nat \ {0} /\ DigestHour \in Nat /\ DigestHour < Week
    BY RemindersAssumption
  <2> HIDE DEF ahead
  <2> QED
    BY ONLY <1>2, <2>1, HourOfCycleComes
<1>4. ahead # {}
  BY <1>3
<1> QED
  BY <1>1, <1>4, MinIsLeast DEF WeeklyIn

LEMMA MonthlyIsAhead ==
  ASSUME NEW n \in Nat, NEW z \in Nat
  PROVE  MonthlyIn(n, z) \in Nat \ {0}
<1>1. Month \in Nat \ {0} /\ DigestHour \in Nat
  BY RemindersAssumption
<1>2. (n + z) % Month \in 0..(Month - 1)
  BY <1>1
<1> QED
  BY <1>1, <1>2 DEF MonthlyIn

-----------------------------------------------------------------------------
(* Types.  Tables are finite: that is why there is always a new id.         *)
Ids == {S \in SUBSET Nat : IsFiniteSet(S)}
Tables == UNION {[S -> Row] : S \in Ids}
Settings == UNION {[S -> Setting] : S \in SUBSET Users}
Plans == UNION {[S -> Nat] : S \in SUBSET Targets}
Session ==
  [pc : PCs, seen : Settings, was : Settings, todo : SUBSET Users, user : Users,
   plan : Plans, left : SUBSET Targets, at : Targets, hits : Ids,
   row : Nat, list : Ids, said : Ids, lag : {0, 1}]

Typed ==
  /\ hour \in 0..(Hours - 1) /\ ran \subseteq Recomputes \cup Sends
  /\ lead \in [Subs -> -1..MaxLead] /\ visible \subseteq Subs
  /\ setting \in [Users -> Setting]
  /\ reminders \in Tables /\ wrote \in [Procs -> Tables]
  /\ erased \in [Procs -> SUBSET Nat]
  /\ job \in [Procs -> Session]
  /\ told \subseteq Nat /\ touched \in [Recomputes -> SUBSET Users]
  /\ clicks \in 0..MaxClicks /\ fails \in 0..MaxFails

(* How far a session is tells what it holds.                                *)
Upserting == {"upsert", "insert", "update"}
Planned == {"purge", "purging", "stale", "staling"} \cup Upserting
PlanFits(f, policy) ==
  /\ policy = "off" => DOMAIN f = {}
  /\ policy = "days_before" => DOMAIN f \subseteq Subs
  /\ policy \in {"weekly_digest", "monthly_report"} => DOMAIN f = {NoSub}
HasUser(r) ==
  /\ r.user \in DOMAIN r.seen
  /\ PlanFits(r.plan, r.seen[r.user].policy)
Owned(p, r) ==
  p \in Handlers => UserOf[p] \in DOMAIN r.seen /\ UserOf[p] \in DOMAIN r.was
InTime(r) == r.lag = 0 => \A t \in DOMAIN r.plan : r.plan[t] > 0
Stage(p, r) ==
  /\ p \in Sends => r.pc \in {"idle", "tell", "mark"}
  /\ p \notin Sends => r.pc \notin {"tell", "mark"} /\ r.list = {} /\ r.said = {}
  /\ p \in Recomputes => r.pc # "save"
  /\ r.todo \subseteq DOMAIN r.seen
  /\ r.pc # "idle" => Owned(p, r)
  /\ r.pc \in Planned => HasUser(r)
  /\ r.left \subseteq DOMAIN r.plan
  /\ r.pc \in Upserting <=> r.left # {}
  /\ r.pc \in {"insert", "update"} => r.at \in r.left
  /\ r.pc \in {"purging", "staling"} => r.hits # {}
  /\ r.pc \in {"stale", "staling"} => r.seen[r.user].policy = "days_before"
  /\ r.pc = "idle" => r = Fresh
  /\ InTime(r)
Stages == \A p \in Procs : Stage(p, job[p])
TypeInv == Typed /\ Stages

LEMMA ConstantTypes ==
  /\ Subs \subseteq Nat /\ NoSub \in Nat /\ NoSub \notin Subs
  /\ Targets \subseteq Nat /\ NoSub \in Targets
  /\ Recomputes \subseteq Procs /\ Sends \subseteq Procs /\ Handlers \subseteq Procs
  /\ \A c \in Recomputes : c \notin Sends /\ c \notin Handlers
  /\ \A p \in Sends : p \notin Recomputes /\ p \notin Handlers
BY RemindersAssumption DEF NoSub, Targets, Procs

LEMMA TableFacts ==
  ASSUME NEW f \in Tables
  PROVE  /\ DOMAIN f \in SUBSET Nat /\ IsFiniteSet(DOMAIN f)
         /\ f \in [DOMAIN f -> Row] /\ \A i \in DOMAIN f : f[i] \in Row
BY DEF Tables, Ids

LEMMA TableIntro ==
  ASSUME NEW S \in SUBSET Nat, IsFiniteSet(S), NEW f \in [S -> Row]
  PROVE  f \in Tables
BY DEF Tables, Ids

LEMMA SettingsFacts ==
  ASSUME NEW f \in Settings
  PROVE  DOMAIN f \subseteq Users /\ \A u \in DOMAIN f : f[u] \in Setting
BY DEF Settings

LEMMA SettingsIntro ==
  ASSUME NEW S \in SUBSET Users, NEW f \in [S -> Setting]
  PROVE  f \in Settings
BY DEF Settings

LEMMA PlanFacts ==
  ASSUME NEW f \in Plans
  PROVE  DOMAIN f \subseteq Targets /\ \A t \in DOMAIN f : f[t] \in Nat
BY DEF Plans

LEMMA PlansIntro ==
  ASSUME NEW S \in SUBSET Targets, NEW f \in [S -> Nat]
  PROVE  f \in Plans
BY DEF Plans

LEMMA EmptyIsTyped ==
  /\ DOMAIN Empty = {} /\ Empty \in Tables
  /\ Empty \in Settings /\ Empty \in Plans
<1>1. DOMAIN Empty = {}
  BY DEF Empty
<1>2. Empty \in [{} -> Row] /\ Empty \in [{} -> Setting]
        /\ Empty \in [{} -> Nat]
  BY DEF Empty
<1> QED
  BY <1>1, <1>2, FS_EmptySet, TableIntro, SettingsIntro, PlansIntro

LEMMA PutFacts ==
  ASSUME NEW f \in Tables, NEW i \in Nat, NEW v \in Row
  PROVE  /\ Put(f, i, v) \in Tables /\ DOMAIN Put(f, i, v) = DOMAIN f \cup {i}
         /\ Put(f, i, v)[i] = v
         /\ \A x \in DOMAIN f \ {i} : Put(f, i, v)[x] = f[x]
<1>1. IsFiniteSet(DOMAIN f \cup {i})
  BY TableFacts, FS_AddElement
<1>2. Put(f, i, v) \in [DOMAIN f \cup {i} -> Row]
  BY TableFacts DEF Put
<1>3. DOMAIN f \cup {i} \in SUBSET Nat
  BY TableFacts
<1>4. Put(f, i, v) \in Tables
  BY <1>1, <1>2, <1>3, TableIntro
<1> QED
  BY <1>4 DEF Put

LEMMA PartOfTable ==
  ASSUME NEW f \in Tables, NEW S \in SUBSET DOMAIN f
  PROVE  [x \in S |-> f[x]] \in Tables
<1>1. IsFiniteSet(S) /\ S \in SUBSET Nat
  BY TableFacts, FS_Subset
<1>2. [x \in S |-> f[x]] \in [S -> Row]
  BY TableFacts
<1> QED
  BY <1>1, <1>2, TableIntro

LEMMA ViewFacts ==
  ASSUME NEW p \in Procs, reminders \in Tables, wrote \in [Procs -> Tables]
  PROVE  /\ View(p) \in Tables
         /\ DOMAIN View(p) = (DOMAIN reminders \cup DOMAIN wrote[p]) \ erased[p]
         /\ \A i \in DOMAIN View(p) :
              View(p)[i] = IF i \in DOMAIN wrote[p] THEN wrote[p][i] ELSE reminders[i]
<1> DEFINE S == (DOMAIN reminders \cup DOMAIN wrote[p]) \ erased[p]
<1>1. wrote[p] \in Tables
  OBVIOUS
<1>2. IsFiniteSet(DOMAIN reminders \cup DOMAIN wrote[p])
  BY <1>1, TableFacts, FS_Union
<1>3. S \in SUBSET Nat /\ IsFiniteSet(S)
  BY <1>1, <1>2, TableFacts, FS_Subset
<1>4. /\ \A i \in DOMAIN reminders : reminders[i] \in Row
      /\ \A i \in DOMAIN wrote[p] : wrote[p][i] \in Row
  BY <1>1, TableFacts
<1>5. View(p) \in [S -> Row]
  BY <1>4 DEF View
<1>6. View(p) \in Tables
  BY <1>3, <1>5, TableIntro
<1> QED
  BY <1>6 DEF View

LEMMA NewIdIsNew ==
  ASSUME Typed
  PROVE  /\ NewId \in Nat \ {0} /\ NewId \notin DOMAIN reminders
         /\ \A p \in Procs : NewId \notin Named(p)
<1> DEFINE f == [p \in Procs |-> Named(p)]
           T == {Named(p) : p \in Procs}
           n == Cardinality(UsedIds)
           ids == (1..(1 + n)) \ UsedIds
<1>1. ASSUME NEW p \in Procs PROVE Named(p) \in Ids
  <2>1. job[p] \in Session /\ wrote[p] \in Tables
    BY DEF Typed
  <2>2. /\ job[p].list \in Ids /\ job[p].said \in Ids /\ job[p].hits \in Ids
        /\ job[p].row \in Nat
    BY <2>1 DEF Session
  <2>3. DOMAIN wrote[p] \in Ids /\ {job[p].row} \in Ids
    BY <2>1, <2>2, TableFacts, FS_Singleton DEF Ids
  <2>4. \A S, R \in Ids : S \cup R \in Ids
    BY FS_Union DEF Ids
  <2> QED
    BY <2>2, <2>3, <2>4 DEF Named
<1>2. IsFiniteSet(Procs)
  BY RemindersAssumption
<1>3. IsFiniteSet(T)
  <2>1. f \in Surjection(Procs, T)
    BY DEF Surjection
  <2> QED
    BY <1>2, <2>1, FS_Surjection
<1>4. IsFiniteSet(UsedIds)
  <2>1. \A S \in T : IsFiniteSet(S)
    BY <1>1 DEF Ids
  <2>2. IsFiniteSet(UNION T) /\ IsFiniteSet(DOMAIN reminders)
    BY <1>3, <2>1, FS_UNION, TableFacts DEF Typed
  <2> QED
    BY <2>2, FS_Union DEF UsedIds
<1>5. n \in Nat
  BY <1>4, FS_CardinalityType
<1>6. ids # {}
  <2> SUFFICES ASSUME 1..(1 + n) \subseteq UsedIds PROVE FALSE
    OBVIOUS
  <2>1. Cardinality(1..(1 + n)) <= n
    BY <1>4, FS_Subset
  <2> HIDE DEF n
  <2>2. Cardinality(1..(1 + n)) = 1 + n
    BY <1>5, FS_Interval
  <2> QED
    BY <1>5, <2>1, <2>2
<1>7. ids \in SUBSET Nat
  BY <1>5
<1>8. NewId = Min(ids)
  BY DEF NewId
<1> HIDE DEF n
<1>9. NewId \in ids
  BY <1>6, <1>7, <1>8, MinIsLeast
<1> QED
  BY <1>5, <1>9 DEF UsedIds

LEMMA PlanIsTyped ==
  ASSUME Typed, NEW u \in Users, NEW policy \in Policies, NEW z \in Zones,
         NEW lag \in {0, 1}
  PROVE  LET plan == Plan(u, policy, z, lag) IN
         /\ plan \in Plans /\ PlanFits(plan, policy)
         /\ lag = 0 => \A t \in DOMAIN plan : plan[t] > 0
<1> DEFINE ahead == {s \in visible : OwnerOf[s] = u /\ DaysBeforeIn(s, z) > -lag}
           now == hour + Hours - lag
           weekly == WeeklyIn(now, z) - lag
           monthly == MonthlyIn(now, z) - lag
<1>1. now \in Nat /\ z \in Nat
  BY CycleOfHours, RemindersAssumption DEF Typed
<1>2. \A s \in ahead : /\ s \in Subs /\ DaysBeforeIn(s, z) \in Nat
                       /\ lag = 0 => DaysBeforeIn(s, z) > 0
  BY <1>1, RemindersAssumption DEF Typed, DaysBeforeIn
<1>3. weekly \in Nat /\ (lag = 0 => weekly > 0)
  <2> HIDE DEF now
  <2>1. WeeklyIn(now, z) \in 1..Week
    BY <1>1, WeeklyIsAhead
  <2> QED
    BY <2>1, RemindersAssumption
<1>4. monthly \in Nat /\ (lag = 0 => monthly > 0)
  <2> HIDE DEF now
  <2>1. MonthlyIn(now, z) \in Nat \ {0}
    BY <1>1, MonthlyIsAhead
  <2> QED
    BY <2>1
<1>5. CASE policy = "days_before"
  <2>1. Plan(u, policy, z, lag) = [s \in ahead |-> DaysBeforeIn(s, z)]
    BY <1>5 DEF Plan
  <2> HIDE DEF ahead
  <2>2. [s \in ahead |-> DaysBeforeIn(s, z)] \in [ahead -> Nat]
    BY <1>2
  <2>3. ahead \subseteq Targets
    BY <1>2 DEF Targets
  <2> QED
    BY <1>2, <1>5, <2>1, <2>2, <2>3, PlansIntro DEF PlanFits
<1>6. CASE policy = "weekly_digest"
  <2>1. Plan(u, policy, z, lag) = [t \in {NoSub} |-> weekly]
    BY <1>6 DEF Plan
  <2> HIDE DEF weekly
  <2>2. [t \in {NoSub} |-> weekly] \in [{NoSub} -> Nat]
    BY <1>3
  <2> QED
    BY <1>3, <1>6, <2>1, <2>2, PlansIntro, ConstantTypes DEF PlanFits
<1>7. CASE policy = "monthly_report"
  <2>1. Plan(u, policy, z, lag) = [t \in {NoSub} |-> monthly]
    BY <1>7 DEF Plan
  <2> HIDE DEF monthly
  <2>2. [t \in {NoSub} |-> monthly] \in [{NoSub} -> Nat]
    BY <1>4
  <2> QED
    BY <1>4, <1>7, <2>1, <2>2, PlansIntro, ConstantTypes DEF PlanFits
<1>8. CASE policy = "off"
  <2>1. Plan(u, policy, z, lag) = Empty
    BY <1>8 DEF Plan
  <2> QED
    BY <1>8, <2>1, EmptyIsTyped DEF PlanFits
<1> QED
  BY <1>5, <1>6, <1>7, <1>8 DEF Policies, Kinds

(* A session that is done with a user.                                      *)
LEMMA EndedSession ==
  ASSUME NEW r \in Session
  PROVE  LET s == [r EXCEPT !.pc = "next", !.plan = Empty] IN
         /\ s \in Session /\ s.pc = "next" /\ s.plan = Empty /\ s.left = r.left
         /\ s.seen = r.seen /\ s.was = r.was /\ s.todo = r.todo
         /\ s.user = r.user /\ s.at = r.at /\ s.hits = r.hits
         /\ s.row = r.row /\ s.list = r.list /\ s.said = r.said /\ s.lag = r.lag
BY EmptyIsTyped DEF Session, PCs

(* What Settle makes of a session whose statement is over or not.           *)
Unsettled(r) ==
  /\ r \in Session /\ r.pc \in {"purging", "upsert", "staling"}
  /\ r.left \subseteq DOMAIN r.plan /\ (r.pc # "upsert" => r.left = {})

LEMMA SettleFacts ==
  ASSUME NEW r, Unsettled(r)
  PROVE  LET s == Settle(r)
             db == r.seen[r.user].policy = "days_before"
         IN /\ s \in Session
            /\ s.seen = r.seen /\ s.was = r.was /\ s.todo = r.todo
            /\ s.user = r.user /\ s.at = r.at /\ s.hits = r.hits
            /\ s.row = r.row /\ s.list = r.list /\ s.said = r.said /\ s.lag = r.lag
            /\ s.pc \in {"purging", "upsert", "stale", "staling", "next"}
            /\ s.pc \in {"purging", "staling"} =>
                 s.pc = r.pc /\ r.hits # {} /\ s.left = {} /\ s.plan = r.plan
            /\ s.pc = "upsert" =>
                 /\ s.left # {} /\ s.plan = r.plan
                 /\ \/ r.pc = "purging" /\ r.hits = {} /\ s.left = DOMAIN r.plan
                    \/ r.pc = "upsert" /\ s.left = r.left
            /\ s.pc = "stale" =>
                 /\ db /\ s.left = {} /\ s.plan = r.plan
                 /\ \/ r.pc = "purging" /\ r.hits = {} /\ DOMAIN r.plan = {}
                    \/ r.pc = "upsert" /\ r.left = {}
            /\ s.pc = "next" =>
                 /\ s.left = {} /\ s.plan = Empty
                 /\ \/ r.pc = "staling" /\ r.hits = {}
                    \/ ~db /\ r.pc = "purging" /\ r.hits = {} /\ DOMAIN r.plan = {}
                    \/ ~db /\ r.pc = "upsert" /\ r.left = {}
<1> DEFINE db == r.seen[r.user].policy = "days_before"
           up == [r EXCEPT !.pc = "upsert", !.left = DOMAIN r.plan]
<1>1. r \in Session /\ r.plan \in Plans /\ DOMAIN r.plan \subseteq Targets
  BY PlanFacts DEF Unsettled, Session
<1>2. Empty \in Plans
  BY EmptyIsTyped
<1>3. {"purging", "upsert", "stale", "staling", "next"} \subseteq PCs
  BY DEF PCs
<1>4. CASE r.pc = "purging" /\ r.hits # {}
  <2>1. Settle(r) = r
    BY <1>4 DEF Settle
  <2> QED
    BY <1>1, <1>4, <2>1 DEF Unsettled, Session
<1>5. CASE r.pc = "purging" /\ r.hits = {}
  <2> HIDE DEF db
  <2>1. /\ up \in Session /\ up.pc = "upsert" /\ up.left = DOMAIN r.plan
        /\ up.plan = r.plan /\ up.seen = r.seen /\ up.was = r.was
        /\ up.todo = r.todo /\ up.user = r.user /\ up.at = r.at
        /\ up.hits = r.hits /\ up.row = r.row /\ up.list = r.list
        /\ up.said = r.said /\ up.lag = r.lag
    BY <1>1, <1>3 DEF Session
  <2> HIDE DEF up
  <2>2. Settle(r) = CASE up.left = {} /\ ~db -> [up EXCEPT !.pc = "next", !.plan = Empty]
                      [] up.left = {} /\ db -> [up EXCEPT !.pc = "stale"]
                      [] OTHER -> up
    BY <1>5, <2>1 DEF Settle, up, db
  <2>3. CASE up.left # {}
    <3>1. Settle(r) = up
      BY <2>2, <2>3
    <3> QED
      BY <1>5, <2>1, <2>3, <3>1
  <2>4. CASE up.left = {} /\ db
    <3>1. Settle(r) = [up EXCEPT !.pc = "stale"]
      BY <2>2, <2>4
    <3> QED
      BY <1>3, <1>5, <2>1, <2>4, <3>1 DEF Session, db
  <2>5. CASE up.left = {} /\ ~db
    <3> DEFINE done == [up EXCEPT !.pc = "next", !.plan = Empty]
    <3>1. /\ done \in Session /\ done.pc = "next" /\ done.plan = Empty
          /\ done.left = up.left /\ done.seen = up.seen /\ done.was = up.was
          /\ done.todo = up.todo /\ done.user = up.user /\ done.at = up.at
          /\ done.hits = up.hits /\ done.row = up.row /\ done.list = up.list
          /\ done.said = up.said /\ done.lag = up.lag
      BY <2>1, EndedSession
    <3>2. Settle(r) = done
      BY <2>2, <2>5
    <3> HIDE DEF done
    <3> QED
      BY <1>5, <2>1, <2>5, <3>1, <3>2 DEF db
  <2> QED
    BY <2>3, <2>4, <2>5
<1>6. CASE r.pc = "upsert" /\ r.left # {}
  <2>1. Settle(r) = r
    BY <1>6 DEF Settle
  <2> QED
    BY <1>1, <1>6, <2>1 DEF Unsettled, Session
<1>7. CASE r.pc = "upsert" /\ r.left = {} /\ db
  <2>1. Settle(r) = [r EXCEPT !.pc = "stale"]
    BY <1>7 DEF Settle
  <2> QED
    BY <1>1, <1>3, <1>7, <2>1 DEF Session
<1>8. CASE r.pc = "upsert" /\ r.left = {} /\ ~db
  <2>1. Settle(r) = [r EXCEPT !.pc = "next", !.plan = Empty]
    BY <1>8 DEF Settle
  <2> QED
    BY <1>1, <1>2, <1>3, <1>8, <2>1 DEF Session
<1>9. CASE r.pc = "staling" /\ r.hits # {}
  <2>1. Settle(r) = r
    BY <1>9 DEF Settle
  <2> QED
    BY <1>1, <1>9, <2>1 DEF Unsettled, Session
<1>10. CASE r.pc = "staling" /\ r.hits = {}
  <2>1. Settle(r) = [r EXCEPT !.pc = "next", !.plan = Empty]
    BY <1>10 DEF Settle
  <2> QED
    BY <1>1, <1>2, <1>3, <1>10, <2>1 DEF Unsettled, Session
<1> QED
  BY <1>4, <1>5, <1>6, <1>7, <1>8, <1>9, <1>10 DEF Unsettled

(* A session that is settled is at a stage.                                 *)
LEMMA SettleStage ==
  ASSUME NEW p \in Procs \ Sends, NEW r, Unsettled(r), r.list = {}, r.said = {}, InTime(r),
         r.todo \subseteq DOMAIN r.seen, Owned(p, r), HasUser(r),
         r.pc = "staling" => r.seen[r.user].policy = "days_before"
  PROVE  Settle(r) \in Session /\ Stage(p, Settle(r))
<1> DEFINE s == Settle(r)
<1>1. /\ s \in Session /\ s.seen = r.seen /\ s.was = r.was /\ s.todo = r.todo
      /\ s.user = r.user /\ s.list = r.list /\ s.said = r.said /\ s.lag = r.lag
      /\ s.pc \in {"purging", "upsert", "stale", "staling", "next"}
  BY SettleFacts
<1>2. s.pc \in {"purging", "staling"} =>
        s.pc = r.pc /\ s.hits # {} /\ s.left = {} /\ s.plan = r.plan
  BY SettleFacts
<1>3. /\ s.pc = "upsert" => s.left # {} /\ s.plan = r.plan /\ s.left \subseteq DOMAIN r.plan
      /\ s.pc = "stale" => s.left = {} /\ s.plan = r.plan
                             /\ s.seen[s.user].policy = "days_before"
      /\ s.pc = "next" => s.left = {} /\ s.plan = Empty
  BY SettleFacts DEF Unsettled
<1> HIDE DEF s
<1>4. Owned(p, s)
  BY <1>1 DEF Owned
<1>5. s.pc \in Planned => HasUser(s)
  BY <1>1, <1>2, <1>3 DEF HasUser, Planned, Upserting
<1>6. s.left \subseteq DOMAIN s.plan /\ (s.pc \in Upserting <=> s.left # {})
  BY <1>1, <1>2, <1>3 DEF Upserting
<1>7. InTime(s)
  <2>1. s.plan = r.plan \/ s.plan = Empty
    BY <1>1, <1>2, <1>3
  <2> QED
    BY <1>1, <2>1, EmptyIsTyped DEF InTime
<1>8. Stage(p, s)
  BY <1>1, <1>2, <1>3, <1>4, <1>5, <1>6, <1>7 DEF Stage
<1> QED
  BY <1>1, <1>8 DEF s

LEMMA FreshIsTyped ==
  /\ Fresh \in Session /\ \A p \in Procs : Stage(p, Fresh)
  /\ Fresh.pc = "idle" /\ Fresh.list = {} /\ Fresh.said = {} /\ Fresh.lag = 0
  /\ Fresh.plan = Empty
<1>1. (CHOOSE u \in Users : TRUE) \in Users
  BY RemindersAssumption
<1>2. Fresh \in Session
  <2>1. {} \in Ids
    BY FS_EmptySet DEF Ids
  <2> QED
    BY <1>1, <2>1, EmptyIsTyped, ConstantTypes DEF Fresh, Session, PCs
<1>3. ASSUME NEW p \in Procs PROVE Stage(p, Fresh)
  <2>1. /\ Fresh.pc = "idle" /\ Fresh.todo = {} /\ Fresh.left = {} /\ Fresh.list = {}
        /\ Fresh.said = {} /\ Fresh.plan = Empty
    BY DEF Fresh
  <2> QED
    BY <2>1, EmptyIsTyped DEF Stage, Planned, Upserting, InTime
<1> QED
  BY <1>2, <1>3 DEF Fresh

LEMMA JobStep ==
  ASSUME TypeInv, NEW p \in Procs, NEW r \in Session, Stage(p, r),
         job' = [job EXCEPT ![p] = r]
  PROVE  job' \in [Procs -> Session] /\ Stages'
<1>1. job' \in [Procs -> Session]
  BY DEF TypeInv, Typed
<1>2. \A q \in Procs : job'[q] = IF q = p THEN r ELSE job[q]
  BY DEF TypeInv, Typed
<1>3. \A q \in Procs : Stage(q, job'[q])
  BY <1>2 DEF TypeInv, Stages
<1> QED
  BY <1>1, <1>3 DEF Stages

LEMMA CloseStep ==
  ASSUME TypeInv, NEW p \in Procs, Close(p)
  PROVE  /\ job' \in [Procs -> Session] /\ Stages' /\ touched' \in [Recomputes -> SUBSET Users]
         /\ wrote' \in [Procs -> Tables] /\ erased' \in [Procs -> SUBSET Nat]
<1>1. job' = [job EXCEPT ![p] = Fresh]
  BY DEF Close
<1>2. job' \in [Procs -> Session] /\ Stages'
  BY <1>1, FreshIsTyped, JobStep
<1>3. touched' \in [Recomputes -> SUBSET Users]
  BY DEF Close, TypeInv, Typed
<1>4. wrote' \in [Procs -> Tables] /\ erased' \in [Procs -> SUBSET Nat]
  BY EmptyIsTyped DEF Close, TypeInv, Typed
<1> QED
  BY <1>2, <1>3, <1>4

LEMMA RollbackStep ==
  ASSUME TypeInv, NEW p \in Procs, Rollback(p), UNCHANGED <<hour, charges, clicks>>,
         ran' \subseteq Recomputes \cup Sends, fails' \in 0..MaxFails
  PROVE  TypeInv'
<1>1. Close(p) /\ told' \subseteq Nat
  BY DEF Rollback, TypeInv, Typed
<1>2. /\ job' \in [Procs -> Session] /\ Stages' /\ touched' \in [Recomputes -> SUBSET Users]
      /\ wrote' \in [Procs -> Tables] /\ erased' \in [Procs -> SUBSET Nat]
  BY <1>1, CloseStep
<1>3. UNCHANGED <<reminders, setting, hour, lead, visible, clicks>>
  BY DEF Rollback, charges
<1>4. Typed'
  BY <1>1, <1>2, <1>3 DEF TypeInv, Typed
<1> QED
  BY <1>2, <1>4 DEF TypeInv

LEMMA SettingFacts ==
  ASSUME NEW s \in Setting
  PROVE  s.policy \in Policies /\ s.zone \in Zones
BY DEF Setting

LEMMA TypeStartRecompute ==
  ASSUME TypeInv, NEW c \in Recomputes, StartRecompute(c)
  PROVE  TypeInv'
<1> DEFINE on == {u \in Users : setting[u].policy # "off"}
           r == [Fresh EXCEPT !.pc = "next", !.seen = setting, !.was = setting, !.todo = on]
<1>1. setting \in Settings /\ DOMAIN setting = Users
  BY SettingsIntro DEF TypeInv, Typed
<1>2. /\ r \in Session /\ r.pc = "next" /\ r.todo \subseteq DOMAIN r.seen
      /\ r.left = {} /\ r.list = {} /\ r.said = {} /\ r.plan = Empty
  BY <1>1, FreshIsTyped DEF Session, Fresh, PCs
<1>3. Stage(c, r)
  <2> HIDE DEF r
  <2> QED
    BY <1>2, ConstantTypes, EmptyIsTyped DEF Stage, Planned, Upserting, Owned, InTime
<1>4. job' = [job EXCEPT ![c] = r]
  BY DEF StartRecompute
<1> HIDE DEF r
<1>5. job' \in [Procs -> Session] /\ Stages'
  BY <1>2, <1>3, <1>4, JobStep, ConstantTypes
<1>6. touched' \in [Recomputes -> SUBSET Users]
  <2> DEFINE others == {d \in Recomputes \ {c} : Open(d)}
             busy == {UserOf[h] : h \in {h \in Handlers : Open(h)}}
  <2>1. touched' = [d \in Recomputes |->
                     CASE d \in others -> Users
                       [] d = c /\ others # {} -> Users
                       [] d = c /\ others = {} -> busy
                       [] OTHER -> touched[d]]
    BY DEF StartRecompute
  <2>2. busy \in SUBSET Users
    BY RemindersAssumption
  <2>3. \A d \in Recomputes : touched[d] \in SUBSET Users
    BY DEF TypeInv, Typed
  <2> HIDE DEF others, busy
  <2> QED
    BY <2>1, <2>2, <2>3
<1>7. Typed'
  BY <1>5, <1>6 DEF StartRecompute, Starts, TypeInv, Typed, charges, table
<1> QED
  BY <1>5, <1>7 DEF TypeInv

LEMMA TypeClick ==
  ASSUME TypeInv, NEW h \in Handlers, Click(h)
  PROVE  TypeInv'
<1> DEFINE u == UserOf[h]
<1>1. u \in Users /\ h \in Procs /\ setting[u] \in Setting
  BY RemindersAssumption, ConstantTypes DEF TypeInv, Typed
<1>2. PICK new \in Setting :
        job' = [job EXCEPT ![h] =
          [Fresh EXCEPT !.pc = "save", !.was = [x \in {u} |-> setting[u]],
                        !.seen = [x \in {u} |-> new], !.todo = {u}]]
  BY DEF Click
<1> DEFINE was == [x \in {u} |-> setting[u]]
           seen == [x \in {u} |-> new]
           r == [Fresh EXCEPT !.pc = "save", !.was = was, !.seen = seen, !.todo = {u}]
<1>3. was \in Settings /\ seen \in Settings /\ u \in DOMAIN was /\ u \in DOMAIN seen
  <2>1. was \in [{u} -> Setting] /\ seen \in [{u} -> Setting]
    BY <1>1
  <2> QED
    BY <1>1, <2>1, SettingsIntro
<1>4. job' = [job EXCEPT ![h] = r]
  BY <1>2
<1> HIDE DEF was, seen
<1>5. /\ r \in Session /\ r.pc = "save" /\ r.todo = {u} /\ r.seen = seen /\ r.was = was
      /\ r.left = {} /\ r.list = {} /\ r.said = {} /\ r.plan = Empty
  BY <1>1, <1>3, FreshIsTyped DEF Session, Fresh, PCs
<1> HIDE DEF r
<1>6. Stage(h, r)
  BY <1>1, <1>3, <1>5, ConstantTypes, EmptyIsTyped
     DEF Stage, Planned, Upserting, Owned, InTime
<1>7. job' \in [Procs -> Session] /\ Stages'
  BY <1>1, <1>4, <1>5, <1>6, JobStep
<1>8. Typed'
  BY <1>1, <1>7, RemindersAssumption DEF Click, TypeInv, Typed, clock, charges, table
<1> QED
  BY <1>7, <1>8 DEF TypeInv

LEMMA TypeSave ==
  ASSUME TypeInv, NEW h \in Handlers, Save(h)
  PROVE  TypeInv'
<1> DEFINE r == [job[h] EXCEPT !.pc = "next"]
<1>1. h \in Procs /\ job[h] \in Session /\ job[h].pc = "save" /\ Stage(h, job[h])
  BY ConstantTypes DEF Save, TypeInv, Typed, Stages
<1>2. job' = [job EXCEPT ![h] = r]
  BY <1>1 DEF Save, Goto, TypeInv, Typed
<1>3. /\ r \in Session /\ r.pc = "next" /\ r.todo = job[h].todo /\ r.seen = job[h].seen
      /\ r.was = job[h].was /\ r.left = job[h].left /\ r.list = job[h].list
      /\ r.plan = job[h].plan /\ r.said = job[h].said /\ r.lag = job[h].lag
  BY <1>1 DEF Session, PCs
<1> HIDE DEF r
<1>4. Stage(h, r)
  BY <1>1, <1>3, ConstantTypes DEF Stage, Planned, Upserting, Owned, InTime
<1>5. job' \in [Procs -> Session] /\ Stages'
  BY <1>1, <1>2, <1>3, <1>4, JobStep
<1>6. Typed'
  BY <1>5 DEF Save, TypeInv, Typed, clock, charges, table
<1> QED
  BY <1>5, <1>6 DEF TypeInv

(* The hours by which the now of p has gone by.                             *)
Late(p) == IF p \in Recomputes THEN job[p].lag ELSE 0

LEMMA TypeNextUser ==
  ASSUME TypeInv, NEW p \in Procs, NextUser(p)
  PROVE  TypeInv'
<1>1. PICK u \in job[p].todo : LET s == job[p].seen[u] IN
        job' = [job EXCEPT ![p] =
          [job[p] EXCEPT !.pc = "purge", !.user = u, !.todo = job[p].todo \ {u},
                         !.plan = Plan(u, s.policy, s.zone, Late(p))]]
  BY DEF NextUser, TypeInv, Typed, Late
<1> DEFINE s == job[p].seen[u]
           plan == Plan(u, s.policy, s.zone, Late(p))
           r == [job[p] EXCEPT !.pc = "purge", !.user = u, !.todo = job[p].todo \ {u},
                               !.plan = plan]
<1>2. job[p] \in Session /\ job[p].pc = "next" /\ Stage(p, job[p])
  BY DEF NextUser, TypeInv, Typed, Stages
<1>3. u \in Users /\ u \in DOMAIN job[p].seen /\ s \in Setting
  BY <1>2, SettingsFacts DEF Stage, Session
<1>4. s.policy \in Policies /\ s.zone \in Zones
  BY <1>3, SettingFacts
<1>5. /\ plan \in Plans /\ PlanFits(plan, s.policy)
      /\ job[p].lag = 0 => \A t \in DOMAIN plan : plan[t] > 0
  <2>1. Late(p) \in {0, 1} /\ (job[p].lag = 0 => Late(p) = 0)
    BY <1>2 DEF Late, Session
  <2> QED
    BY <1>3, <1>4, <2>1, PlanIsTyped DEF TypeInv
<1>6. job' = [job EXCEPT ![p] = r]
  BY <1>1
<1> HIDE DEF plan
<1>7. /\ r \in Session /\ r.pc = "purge" /\ r.todo \subseteq job[p].todo
      /\ r.seen = job[p].seen /\ r.was = job[p].was /\ r.left = job[p].left
      /\ r.list = job[p].list /\ r.plan = plan /\ r.user = u
      /\ r.said = job[p].said /\ r.lag = job[p].lag
  BY <1>2, <1>3, <1>5 DEF Session, PCs
<1> HIDE DEF r
<1>8. Stage(p, r)
  <2>1. HasUser(r)
    BY <1>3, <1>5, <1>7 DEF HasUser
  <2>2. /\ p \notin Sends /\ Owned(p, job[p]) /\ job[p].left = {}
        /\ job[p].list = {} /\ job[p].said = {} /\ job[p].todo \subseteq DOMAIN job[p].seen
    BY <1>2 DEF Stage, Upserting
  <2>3. InTime(r)
    BY <1>5, <1>7 DEF InTime
  <2> QED
    BY <1>7, <2>1, <2>2, <2>3 DEF Stage, Planned, Upserting, Owned
<1>9. job' \in [Procs -> Session] /\ Stages'
  BY <1>6, <1>7, <1>8, JobStep
<1>10. Typed'
  BY <1>9 DEF NextUser, TypeInv, Typed, clock, charges, table
<1> QED
  BY <1>9, <1>10 DEF TypeInv

(* A session goes on with r, whose statement may be over.                   *)
Continues(p, r) ==
  /\ Unsettled(r) /\ p \notin Sends /\ job[p].pc \in Planned
  /\ r.seen = job[p].seen /\ r.was = job[p].was /\ r.todo = job[p].todo
  /\ r.user = job[p].user /\ r.plan = job[p].plan /\ r.list = job[p].list
  /\ r.said = job[p].said /\ r.lag = job[p].lag
  /\ r.pc = "staling" => r.seen[r.user].policy = "days_before"
  /\ job' = [job EXCEPT ![p] = Settle(r)]

(* The rows that the two DELETEs find, and the sessions before Settle.      *)
OtherKinds(p) == {i \in Pending(View(p), job[p].user) :
                    View(p)[i].kind # job[p].seen[job[p].user].policy}
Unwanted(p) == {i \in Pending(View(p), job[p].user) :
                  /\ View(p)[i].kind = "days_before"
                  /\ View(p)[i].sub \notin DOMAIN job[p].plan}
Purging(p) == [job[p] EXCEPT !.pc = "purging", !.hits = OtherKinds(p)]
Staling(p) == [job[p] EXCEPT !.pc = "staling", !.hits = Unwanted(p)]
Visited(p, i) == [job[p] EXCEPT !.hits = job[p].hits \ {i}]
Inserting(p, t) == [job[p] EXCEPT !.pc = "insert", !.at = t]
Updating(p, t, i) == [job[p] EXCEPT !.pc = "update", !.at = t, !.row = i]
Passed(p, t) == [job[p] EXCEPT !.left = job[p].left \ {t}]
Moved(p) == [job[p] EXCEPT !.pc = "upsert", !.left = job[p].left \ {job[p].at},
                           !.at = NoSub, !.row = 0]

LEMMA SettledStep ==
  ASSUME TypeInv, NEW p \in Procs, NEW r, Continues(p, r)
  PROVE  /\ job' \in [Procs -> Session] /\ Stages'
         /\ job'[p] = Settle(r) /\ job'[p].pc # "idle"
         /\ \A q \in Procs \ {p} : job'[q] = job[q]
<1>1. job[p] \in Session /\ Stage(p, job[p]) /\ p \notin Sends
  BY DEF TypeInv, Typed, Stages, Continues
<1>2. /\ Owned(p, r) /\ HasUser(r) /\ r.todo \subseteq DOMAIN r.seen
      /\ r.list = {} /\ r.said = {} /\ InTime(r)
  BY <1>1 DEF Stage, Owned, HasUser, Planned, Upserting, Continues, InTime
<1>3. Settle(r) \in Session /\ Stage(p, Settle(r))
  BY <1>1, <1>2, SettleStage DEF Continues
<1>4. job' \in [Procs -> Session] /\ Stages'
  BY <1>3, JobStep DEF Continues
<1>5. job'[p] = Settle(r) /\ \A q \in Procs \ {p} : job'[q] = job[q]
  BY DEF Continues, TypeInv, Typed
<1>6. Settle(r).pc # "idle"
  BY SettleFacts DEF Continues
<1> QED
  BY <1>4, <1>5, <1>6

LEMMA PlannedStage ==
  ASSUME TypeInv, NEW p \in Procs, job[p].pc \in Planned
  PROVE  /\ p \notin Sends /\ job[p] \in Session /\ Stage(p, job[p]) /\ HasUser(job[p])
         /\ job[p].user \in Users /\ job[p].seen[job[p].user] \in Setting
<1>1. job[p] \in Session /\ Stage(p, job[p])
  BY DEF TypeInv, Typed, Stages
<1>2. p \notin Sends /\ HasUser(job[p])
  BY <1>1 DEF Stage, Planned, Upserting
<1> QED
  BY <1>1, <1>2, SettingsFacts DEF HasUser, Session

LEMMA SeenRow ==
  ASSUME TypeInv, NEW p \in Procs, NEW i \in DOMAIN View(p)
  PROVE  i \in Nat /\ View(p)[i] \in Row
BY ViewFacts, TableFacts DEF TypeInv, Typed

LEMMA SeenIds ==
  ASSUME TypeInv, NEW p \in Procs, NEW S \in SUBSET DOMAIN View(p)
  PROVE  S \in Ids
BY ViewFacts, TableFacts, FS_Subset DEF TypeInv, Typed, Ids

LEMMA PurgeStep ==
  ASSUME TypeInv, NEW p \in Procs, Purge(p)
  PROVE  /\ job[p].pc = "purge" /\ Continues(p, Purging(p))
         /\ Purging(p).pc = "purging" /\ Purging(p).hits = OtherKinds(p)
<1> DEFINE r == Purging(p)
<1>1. job[p].pc = "purge" /\ job[p].pc \in Planned
  BY DEF Purge, Planned
<1>2. p \notin Sends /\ job[p] \in Session /\ Stage(p, job[p])
  BY <1>1, PlannedStage
<1>3. OtherKinds(p) \in Ids
  BY SeenIds DEF OtherKinds, Pending
<1>4. job' = [job EXCEPT ![p] = Settle(r)]
  BY DEF Purge, TypeInv, Typed, Purging, OtherKinds
<1>5. /\ r \in Session /\ r.pc = "purging" /\ r.seen = job[p].seen /\ r.was = job[p].was
      /\ r.todo = job[p].todo /\ r.user = job[p].user /\ r.plan = job[p].plan
      /\ r.said = job[p].said /\ r.lag = job[p].lag
      /\ r.list = job[p].list /\ r.left = job[p].left /\ r.hits = OtherKinds(p)
  BY <1>2, <1>3 DEF Purging, Session, PCs
<1> HIDE DEF r
<1>6. Unsettled(r)
  BY <1>1, <1>2, <1>5 DEF Unsettled, Stage, Upserting
<1>7. Continues(p, r)
  BY <1>1, <1>2, <1>4, <1>5, <1>6 DEF Continues
<1> QED
  BY <1>1, <1>5, <1>7 DEF r

LEMMA StaleStep ==
  ASSUME TypeInv, NEW p \in Procs, Stale(p)
  PROVE  /\ job[p].pc = "stale" /\ Continues(p, Staling(p))
         /\ Staling(p).pc = "staling" /\ Staling(p).hits = Unwanted(p)
<1> DEFINE r == Staling(p)
<1>1. job[p].pc = "stale" /\ job[p].pc \in Planned
  BY DEF Stale, Planned
<1>2. p \notin Sends /\ job[p] \in Session /\ Stage(p, job[p])
  BY <1>1, PlannedStage
<1>3. Unwanted(p) \in Ids
  BY SeenIds DEF Unwanted, Pending
<1>4. job' = [job EXCEPT ![p] = Settle(r)]
  BY DEF Stale, TypeInv, Typed, Staling, Unwanted
<1>5. /\ r \in Session /\ r.pc = "staling" /\ r.seen = job[p].seen /\ r.was = job[p].was
      /\ r.todo = job[p].todo /\ r.user = job[p].user /\ r.plan = job[p].plan
      /\ r.said = job[p].said /\ r.lag = job[p].lag
      /\ r.list = job[p].list /\ r.left = job[p].left /\ r.hits = Unwanted(p)
  BY <1>2, <1>3 DEF Staling, Session, PCs
<1> HIDE DEF r
<1>6. Unsettled(r) /\ r.seen[r.user].policy = "days_before"
  BY <1>1, <1>2, <1>5 DEF Unsettled, Stage, Upserting
<1>7. Continues(p, r)
  BY <1>1, <1>2, <1>4, <1>5, <1>6 DEF Continues
<1> QED
  BY <1>1, <1>5, <1>7 DEF r

(* One row of a DELETE.                                                     *)
DeleteRow(p, i) ==
  /\ job[p].pc \in {"purging", "staling"} /\ Free(p, i)
  /\ erased' = IF i \in Pending(View(p), job[p].user)
                 THEN [erased EXCEPT ![p] = erased[p] \cup {i}] ELSE erased
  /\ UNCHANGED <<clock, charges, setting, reminders, wrote, told, touched, clicks,
                 fails>>

LEMMA DeleteStep ==
  ASSUME TypeInv, NEW p \in Procs, Delete(p)
  PROVE  \E i \in job[p].hits :
           /\ i \in Nat /\ DeleteRow(p, i) /\ Continues(p, Visited(p, i))
           /\ Visited(p, i).pc = job[p].pc /\ Visited(p, i).hits = job[p].hits \ {i}
<1>1. PICK i \in job[p].hits :
        DeleteRow(p, i) /\ job' = [job EXCEPT ![p] = Settle(Visited(p, i))]
  BY DEF Delete, DeleteRow, Visited
<1> DEFINE r == Visited(p, i)
<1>2. job[p].pc \in {"purging", "staling"} /\ job[p].pc \in Planned
  BY <1>1 DEF DeleteRow, Planned
<1>3. p \notin Sends /\ job[p] \in Session /\ Stage(p, job[p])
  BY <1>2, PlannedStage
<1>4. /\ r \in Session /\ r.pc = job[p].pc /\ r.seen = job[p].seen /\ r.was = job[p].was
      /\ r.todo = job[p].todo /\ r.user = job[p].user /\ r.plan = job[p].plan
      /\ r.said = job[p].said /\ r.lag = job[p].lag
      /\ r.list = job[p].list /\ r.left = job[p].left /\ r.hits = job[p].hits \ {i}
  <2>1. job[p].hits \ {i} \in Ids
    BY <1>3, FS_RemoveElement DEF Session, Ids
  <2> QED
    BY <1>3, <2>1 DEF Visited, Session
<1>5. i \in Nat
  BY <1>3 DEF Session, Ids
<1>6. job' = [job EXCEPT ![p] = Settle(r)]
  BY <1>1
<1> HIDE DEF r
<1>7. Unsettled(r) /\ (r.pc = "staling" => r.seen[r.user].policy = "days_before")
  BY <1>2, <1>3, <1>4 DEF Unsettled, Stage, Upserting
<1>8. Continues(p, r)
  BY <1>2, <1>3, <1>4, <1>6, <1>7 DEF Continues
<1> QED
  BY <1>1, <1>4, <1>5, <1>8 DEF r

LEMMA UpsertStep ==
  ASSUME TypeInv, NEW p \in Procs, Upsert(p)
  PROVE  LET t == Min(job[p].left) IN
         /\ job[p].pc = "upsert" /\ t \in job[p].left /\ Found(p, t) \subseteq Nat
         /\ \/ /\ Found(p, t) = {} /\ job' = [job EXCEPT ![p] = Inserting(p, t)]
               /\ Inserting(p, t).pc = "insert"
            \/ \E i \in Found(p, t) :
                 /\ Found(p, t) = {i} /\ Updating(p, t, i).pc = "update"
                 /\ job' = [job EXCEPT ![p] = Updating(p, t, i)]
            \/ \E i \in Found(p, t) :
                 /\ Found(p, t) = {i} /\ View(p)[i].fire = job[p].plan[t]
                 /\ Continues(p, Passed(p, t)) /\ Passed(p, t).pc = "upsert"
                 /\ Passed(p, t).left = job[p].left \ {t}
<1> DEFINE t == Min(job[p].left)
           r == Passed(p, t)
<1>1. job[p].pc = "upsert" /\ job[p].pc \in Planned
  BY DEF Upsert, Planned, Upserting
<1>2. p \notin Sends /\ job[p] \in Session /\ Stage(p, job[p])
  BY <1>1, PlannedStage
<1>3. /\ job[p].left # {} /\ job[p].left \subseteq DOMAIN job[p].plan
      /\ job[p].left \subseteq Targets
  BY <1>1, <1>2 DEF Stage, Session, Upserting
<1>4. t \in job[p].left
  BY <1>3, MinIsLeast, ConstantTypes
<1> HIDE DEF t
<1>5. Found(p, t) \subseteq Nat /\ Found(p, t) \subseteq DOMAIN View(p)
  BY SeenRow DEF Found, Pending
<1>6. ASSUME NEW i \in Found(p, t), Cardinality(Found(p, t)) <= 1 PROVE Found(p, t) = {i}
  <2> DEFINE F == Found(p, t)
  <2>1. IsFiniteSet(DOMAIN View(p))
    BY ViewFacts, TableFacts DEF TypeInv, Typed
  <2>2. IsFiniteSet(F)
    BY <1>5, <2>1, FS_Subset
  <2>3. ASSUME NEW j \in F, j # i PROVE FALSE
    <3>1. {i, j} \subseteq F
      BY <1>6, <2>3
    <3>2. IsFiniteSet({i}) /\ Cardinality({i}) = 1
      BY FS_Singleton
    <3>3. Cardinality({i} \cup {j}) = Cardinality({i}) + 1
      <4>1. j \notin {i}
        BY <2>3
      <4> QED
        BY ONLY <3>2, <4>1, FS_AddElement
    <3>4. {i} \cup {j} = {i, j}
      OBVIOUS
    <3> HIDE DEF F
    <3>5. Cardinality({i, j}) <= Cardinality(F)
      BY <2>2, <3>1, FS_Subset
    <3>6. Cardinality(F) \in Nat
      BY <2>2, FS_CardinalityType
    <3> QED
      BY <1>6, <3>2, <3>3, <3>4, <3>5, <3>6 DEF F
  <2> QED
    BY <1>6, <2>3
<1>7. /\ Cardinality(Found(p, t)) <= 1
      /\ \/ Found(p, t) = {} /\ job' = [job EXCEPT ![p] = Inserting(p, t)]
         \/ \E i \in Found(p, t) : job' = [job EXCEPT ![p] = Updating(p, t, i)]
         \/ \E i \in Found(p, t) : /\ View(p)[i].fire = job[p].plan[t]
                                   /\ job' = [job EXCEPT ![p] = Settle(r)]
  BY DEF Upsert, t, Inserting, Updating, Passed
<1>8. /\ Inserting(p, t).pc = "insert"
      /\ \A i \in Found(p, t) : Updating(p, t, i).pc = "update"
  BY <1>2 DEF Inserting, Updating, Session
<1>9. /\ r \in Session /\ r.pc = "upsert" /\ r.left = job[p].left \ {t}
      /\ r.seen = job[p].seen /\ r.was = job[p].was /\ r.todo = job[p].todo
      /\ r.user = job[p].user /\ r.plan = job[p].plan /\ r.list = job[p].list
      /\ r.said = job[p].said /\ r.lag = job[p].lag
  BY <1>1, <1>2 DEF Passed, Session
<1> HIDE DEF r
<1>10. Unsettled(r)
  BY <1>3, <1>9 DEF Unsettled
<1>11. job' = [job EXCEPT ![p] = Settle(r)] => Continues(p, r)
  BY <1>1, <1>2, <1>9, <1>10 DEF Continues
<1>12. \/ /\ Found(p, t) = {} /\ job' = [job EXCEPT ![p] = Inserting(p, t)]
          /\ Inserting(p, t).pc = "insert"
       \/ \E i \in Found(p, t) :
            /\ Found(p, t) = {i} /\ Updating(p, t, i).pc = "update"
            /\ job' = [job EXCEPT ![p] = Updating(p, t, i)]
       \/ \E i \in Found(p, t) :
            /\ Found(p, t) = {i} /\ View(p)[i].fire = job[p].plan[t]
            /\ Continues(p, r) /\ r.pc = "upsert" /\ r.left = job[p].left \ {t}
  BY <1>6, <1>7, <1>8, <1>9, <1>11
<1> QED
  BY <1>1, <1>4, <1>5, <1>12 DEF r, t

LEMMA NextTargetStep ==
  ASSUME TypeInv, NEW p \in Procs, job[p].pc \in {"insert", "update"}, NextTarget(p)
  PROVE  /\ Continues(p, Moved(p)) /\ Moved(p).pc = "upsert"
         /\ Moved(p).left = job[p].left \ {job[p].at}
<1> DEFINE r == Moved(p)
<1>1. job[p].pc \in Planned
  BY DEF Planned, Upserting
<1>2. p \notin Sends /\ job[p] \in Session /\ Stage(p, job[p])
  BY <1>1, PlannedStage
<1>3. job' = [job EXCEPT ![p] = Settle(r)]
  BY DEF NextTarget, TypeInv, Typed, Moved
<1>4. /\ r \in Session /\ r.pc = "upsert" /\ r.seen = job[p].seen /\ r.was = job[p].was
      /\ r.todo = job[p].todo /\ r.user = job[p].user /\ r.plan = job[p].plan
      /\ r.said = job[p].said /\ r.lag = job[p].lag
      /\ r.list = job[p].list /\ r.left = job[p].left \ {job[p].at}
  BY <1>2, ConstantTypes DEF Moved, Session, PCs
<1> HIDE DEF r
<1>5. Unsettled(r)
  BY <1>2, <1>4 DEF Unsettled, Stage
<1>6. Continues(p, r)
  BY <1>1, <1>2, <1>3, <1>4, <1>5 DEF Continues
<1> QED
  BY <1>4, <1>6 DEF r

LEMMA TypePurge ==
  ASSUME TypeInv, NEW p \in Procs, Purge(p) \/ Stale(p)
  PROVE  TypeInv'
<1>1. job' \in [Procs -> Session] /\ Stages'
  BY PurgeStep, StaleStep, SettledStep
<1>2. Typed'
  BY <1>1 DEF Purge, Stale, TypeInv, Typed, clock, charges, table
<1> QED
  BY <1>1, <1>2 DEF TypeInv

LEMMA TypeDelete ==
  ASSUME TypeInv, NEW p \in Procs, Delete(p)
  PROVE  TypeInv'
<1>1. PICK i \in Nat : DeleteRow(p, i) /\ Continues(p, Visited(p, i))
  BY DeleteStep
<1>2. job' \in [Procs -> Session] /\ Stages'
  BY <1>1, SettledStep
<1>3. erased' \in [Procs -> SUBSET Nat]
  BY <1>1 DEF DeleteRow, TypeInv, Typed
<1>4. Typed'
  BY <1>1, <1>2, <1>3 DEF DeleteRow, TypeInv, Typed, clock, charges
<1> QED
  BY <1>2, <1>4 DEF TypeInv

LEMMA TypeUpsert ==
  ASSUME TypeInv, NEW p \in Procs, Upsert(p)
  PROVE  TypeInv'
<1> DEFINE t == Min(job[p].left)
<1>1. /\ job[p].pc = "upsert" /\ t \in job[p].left /\ Found(p, t) \subseteq Nat
      /\ \/ job' = [job EXCEPT ![p] = Inserting(p, t)]
         \/ \E i \in Found(p, t) : job' = [job EXCEPT ![p] = Updating(p, t, i)]
         \/ Continues(p, Passed(p, t))
  BY UpsertStep
<1> HIDE DEF t
<1>2. job[p].pc \in Planned
  BY <1>1 DEF Planned, Upserting
<1>3. p \notin Sends /\ job[p] \in Session /\ Stage(p, job[p]) /\ HasUser(job[p])
  BY <1>2, PlannedStage
<1>4. t \in Targets
  BY <1>1, <1>3 DEF Session
<1>5. ASSUME NEW r \in Session, r.pc \in {"insert", "update"}, r.at = t,
             r.seen = job[p].seen, r.was = job[p].was, r.todo = job[p].todo,
             r.user = job[p].user, r.plan = job[p].plan, r.left = job[p].left,
             r.list = job[p].list, r.said = job[p].said, r.lag = job[p].lag
      PROVE  Stage(p, r)
  BY <1>1, <1>3, <1>5 DEF Stage, Owned, HasUser, Planned, Upserting, InTime
<1>6. Inserting(p, t) \in Session /\ Stage(p, Inserting(p, t))
  <2> DEFINE r == Inserting(p, t)
  <2>1. /\ r \in Session /\ r.pc = "insert" /\ r.at = t
        /\ r.seen = job[p].seen /\ r.was = job[p].was /\ r.todo = job[p].todo
        /\ r.user = job[p].user /\ r.plan = job[p].plan /\ r.left = job[p].left
        /\ r.list = job[p].list /\ r.said = job[p].said /\ r.lag = job[p].lag
    BY <1>3, <1>4 DEF Inserting, Session, PCs
  <2> HIDE DEF r
  <2>2. Stage(p, r)
    BY <1>5, <2>1
  <2> QED
    BY <2>1, <2>2 DEF r
<1>7. ASSUME NEW i \in Nat
      PROVE  Updating(p, t, i) \in Session /\ Stage(p, Updating(p, t, i))
  <2> DEFINE r == Updating(p, t, i)
  <2>1. /\ r \in Session /\ r.pc = "update" /\ r.at = t
        /\ r.seen = job[p].seen /\ r.was = job[p].was /\ r.todo = job[p].todo
        /\ r.user = job[p].user /\ r.plan = job[p].plan /\ r.left = job[p].left
        /\ r.list = job[p].list /\ r.said = job[p].said /\ r.lag = job[p].lag
    BY <1>3, <1>4 DEF Updating, Session, PCs
  <2> HIDE DEF r
  <2>2. Stage(p, r)
    BY <1>5, <2>1
  <2> QED
    BY <2>1, <2>2 DEF r
<1>8. job' \in [Procs -> Session] /\ Stages'
  BY <1>1, <1>6, <1>7, JobStep, SettledStep
<1>9. Typed'
  BY <1>8 DEF Upsert, TypeInv, Typed, clock, charges, table
<1> QED
  BY <1>8, <1>9 DEF TypeInv

LEMMA WritesStep ==
  ASSUME TypeInv, NEW p \in Procs, NEW i \in Nat, NEW r \in Row, Writes(p, i, r)
  PROVE  /\ wrote' \in [Procs -> Tables]
         /\ wrote' = [wrote EXCEPT ![p] = Put(wrote[p], i, r)]
         /\ UNCHANGED <<reminders, erased>>
<1>1. Put(wrote[p], i, r) \in Tables
  BY PutFacts DEF TypeInv, Typed
<1> QED
  BY <1>1 DEF Writes, TypeInv, Typed

(* The row that upsert_pending adds.                                        *)
NewRow(p) ==
  [user |-> job[p].user, sub |-> job[p].at, sent |-> FALSE,
   kind |-> job[p].seen[job[p].user].policy, fire |-> job[p].plan[job[p].at]]

LEMMA TargetAtHand ==
  ASSUME TypeInv, NEW p \in Procs, job[p].pc \in {"insert", "update"}
  PROVE  /\ job[p].at \in DOMAIN job[p].plan /\ job[p].at \in job[p].left
         /\ job[p].plan[job[p].at] \in Nat
         /\ job[p].lag = 0 => job[p].plan[job[p].at] > 0
         /\ job[p].seen[job[p].user].policy \in Kinds
         /\ NewRow(p) \in Row
<1>1. job[p].pc \in Planned
  BY DEF Planned, Upserting
<1>2. /\ job[p] \in Session /\ Stage(p, job[p]) /\ HasUser(job[p])
      /\ job[p].user \in Users /\ job[p].seen[job[p].user] \in Setting
  BY <1>1, PlannedStage
<1>3. job[p].at \in DOMAIN job[p].plan /\ job[p].at \in job[p].left /\ job[p].at \in Targets
  BY <1>2 DEF Stage, Session
<1>4. /\ job[p].plan[job[p].at] \in Nat
      /\ job[p].lag = 0 => job[p].plan[job[p].at] > 0
  BY <1>2, <1>3, PlanFacts DEF Session, Stage, InTime
<1>5. job[p].seen[job[p].user].policy \in Kinds
  BY <1>2, <1>3, SettingFacts DEF HasUser, PlanFits, Policies
<1> QED
  BY <1>2, <1>3, <1>4, <1>5 DEF NewRow, Row

LEMMA TypeInsert ==
  ASSUME TypeInv, NEW p \in Procs, Insert(p)
  PROVE  TypeInv'
<1>1. job[p].pc = "insert" /\ NextTarget(p) /\ Writes(p, NewId, NewRow(p))
  BY DEF Insert, NewRow
<1>2. NewRow(p) \in Row
  BY <1>1, TargetAtHand
<1>3. NewId \in Nat
  BY NewIdIsNew DEF TypeInv
<1>4. wrote' \in [Procs -> Tables] /\ UNCHANGED <<reminders, erased>>
  BY <1>1, <1>2, <1>3, WritesStep
<1>5. job' \in [Procs -> Session] /\ Stages'
  BY <1>1, NextTargetStep, SettledStep
<1>6. Typed'
  BY <1>4, <1>5 DEF Insert, TypeInv, Typed, clock, charges
<1> QED
  BY <1>5, <1>6 DEF TypeInv

LEMMA TypeUpdate ==
  ASSUME TypeInv, NEW p \in Procs, Update(p)
  PROVE  TypeInv'
<1> DEFINE i == job[p].row
           r == [View(p)[i] EXCEPT !.fire = job[p].plan[job[p].at]]
<1>1. /\ job[p].pc = "update" /\ NextTarget(p) /\ i \in DOMAIN View(p)
      /\ Writes(p, i, r)
  BY DEF Update
<1>2. i \in Nat /\ View(p)[i] \in Row
  BY <1>1, SeenRow
<1>3. job[p].plan[job[p].at] \in Nat
  BY <1>1, TargetAtHand
<1>4. r \in Row
  BY <1>2, <1>3 DEF Row
<1> HIDE DEF i, r
<1>5. wrote' \in [Procs -> Tables] /\ UNCHANGED <<reminders, erased>>
  BY <1>1, <1>2, <1>4, WritesStep
<1>6. job' \in [Procs -> Session] /\ Stages'
  BY <1>1, NextTargetStep, SettledStep
<1>7. Typed'
  BY <1>5, <1>6 DEF Update, TypeInv, Typed, clock, charges
<1> QED
  BY <1>6, <1>7 DEF TypeInv

LEMMA PublishStep ==
  ASSUME TypeInv, NEW p \in Procs, job[p].pc # "idle", Publish(p)
  PROVE  reminders' \in Tables /\ setting' \in [Users -> Setting]
<1>1. reminders' \in Tables
  BY ViewFacts DEF Publish, TypeInv, Typed
<1>2. job[p] \in Session /\ Owned(p, job[p])
  BY DEF TypeInv, Typed, Stages, Stage
<1>3. ASSUME p \in Handlers
      PROVE  job[p].was[UserOf[p]] \in Setting /\ job[p].seen[UserOf[p]] \in Setting
  BY <1>2, <1>3, SettingsFacts DEF Owned, Session
<1>4. \A u \in Users : setting[u] \in Setting
  BY DEF TypeInv, Typed
<1>5. setting' \in [Users -> Setting]
  <2>1. \A x, y \in Setting : [policy |-> x.policy, zone |-> y.zone] \in Setting
    BY DEF Setting
  <2>2. ASSUME NEW u \in Users
        PROVE  (IF p \in Handlers /\ u = UserOf[p]
                 THEN LET was == job[p].was[u]  seen == job[p].seen[u] IN
                      [policy |-> IF seen.policy = was.policy THEN setting[u].policy
                                    ELSE seen.policy,
                       zone |-> IF seen.zone = was.zone THEN setting[u].zone
                                  ELSE seen.zone]
                 ELSE setting[u]) \in Setting
    <3>1. CASE p \in Handlers /\ u = UserOf[p]
      BY <1>3, <1>4, <2>1, <3>1
    <3>2. CASE ~(p \in Handlers /\ u = UserOf[p])
      BY <1>4, <3>2
    <3> QED
      BY <3>1, <3>2
  <2> QED
    BY <2>2 DEF Publish
<1> QED
  BY <1>1, <1>5

LEMMA TypeCommit ==
  ASSUME TypeInv, NEW p \in Procs, Commit(p)
  PROVE  TypeInv'
<1>1. job[p].pc # "idle" /\ Publish(p) /\ Close(p)
  BY DEF Commit
<1>2. reminders' \in Tables /\ setting' \in [Users -> Setting]
  BY <1>1, PublishStep
<1>3. /\ job' \in [Procs -> Session] /\ Stages' /\ touched' \in [Recomputes -> SUBSET Users]
      /\ wrote' \in [Procs -> Tables] /\ erased' \in [Procs -> SUBSET Nat]
  BY <1>1, CloseStep
<1>4. told' \subseteq Nat
  BY DEF Commit, TypeInv, Typed, Session, Ids
<1>5. Typed'
  BY <1>2, <1>3, <1>4 DEF Commit, TypeInv, Typed, clock, charges
<1> QED
  BY <1>3, <1>5 DEF TypeInv

(* The send jobs.                                                           *)
LEMMA SenderStep ==
  ASSUME TypeInv, NEW p \in Sends, NEW r \in Session, r.pc \in {"tell", "mark"},
         r.todo \subseteq DOMAIN r.seen, r.left = {}, InTime(r),
         job' = [job EXCEPT ![p] = r]
  PROVE  job' \in [Procs -> Session] /\ Stages'
<1>1. Stage(p, r)
  BY ConstantTypes DEF Stage, Owned, Planned, Upserting
<1> QED
  BY <1>1, JobStep, ConstantTypes

(* The rows that list_due finds, and the sessions of a send.                *)
DueRows == {i \in DOMAIN reminders : reminders[i].fire = 0 /\ ~reminders[i].sent}
Listing == [Fresh EXCEPT !.pc = "tell", !.list = DueRows]
Telling(p, i) == [job[p] EXCEPT !.pc = "mark", !.row = i, !.list = job[p].list \ {i},
                                !.said = job[p].said \cup {i}]
Skipping(p, i) == [job[p] EXCEPT !.list = job[p].list \ {i}]
Marking(p) == [job[p] EXCEPT !.pc = "tell", !.row = 0]

LEMMA SenderStage ==
  ASSUME TypeInv, NEW p \in Sends
  PROVE  /\ p \in Procs /\ job[p] \in Session /\ job[p].left = {} /\ InTime(job[p])
         /\ job[p].todo \subseteq DOMAIN job[p].seen
         /\ job[p].pc \in {"idle", "tell", "mark"}
<1>1. p \in Procs /\ job[p] \in Session /\ Stage(p, job[p])
  BY ConstantTypes DEF TypeInv, Typed, Stages
<1> QED
  BY <1>1 DEF Stage, Upserting

LEMMA ListingStep ==
  ASSUME TypeInv, NEW p \in Sends, StartSend(p)
  PROVE  /\ job' = [job EXCEPT ![p] = Listing] /\ Listing \in Session
         /\ Listing.pc = "tell" /\ Listing.list = DueRows /\ Listing.said = {}
         /\ Listing.todo = {} /\ Listing.left = {} /\ InTime(Listing)
<1>1. DueRows \in Ids
  BY TableFacts, FS_Subset DEF TypeInv, Typed, DueRows, Ids
<1>2. /\ Listing \in Session /\ Listing.pc = "tell" /\ Listing.list = DueRows
      /\ Listing.said = {} /\ Listing.todo = {} /\ Listing.left = {} /\ Listing.plan = Empty
  BY <1>1, FreshIsTyped DEF Session, Fresh, PCs, Listing
<1>3. job' = [job EXCEPT ![p] = Listing]
  BY DEF StartSend, Listing, DueRows
<1> QED
  BY <1>2, <1>3, EmptyIsTyped DEF InTime

LEMMA TellingStep ==
  ASSUME TypeInv, NEW p \in Sends, Tell(p)
  PROVE  \E i \in job[p].list : LET r == Telling(p, i) IN
           /\ job' = [job EXCEPT ![p] = r] /\ r \in Session /\ i \in Nat
           /\ r.pc = "mark" /\ r.row = i /\ r.list = job[p].list \ {i}
           /\ r.said = job[p].said \cup {i} /\ r.seen = job[p].seen /\ r.hits = job[p].hits
           /\ r.todo = job[p].todo /\ r.left = job[p].left /\ InTime(r)
<1>1. PICK i \in job[p].list : job' = [job EXCEPT ![p] = Telling(p, i)]
  BY DEF Tell, TypeInv, Typed, Telling
<1> DEFINE r == Telling(p, i)
<1>2. job[p] \in Session /\ InTime(job[p])
  BY SenderStage
<1>3. i \in Nat /\ job[p].list \ {i} \in Ids /\ job[p].said \cup {i} \in Ids
  BY <1>2, FS_RemoveElement, FS_AddElement DEF Session, Ids
<1>4. /\ r \in Session /\ r.pc = "mark" /\ r.row = i /\ r.list = job[p].list \ {i}
      /\ r.said = job[p].said \cup {i} /\ r.seen = job[p].seen /\ r.hits = job[p].hits
      /\ r.todo = job[p].todo /\ r.left = job[p].left
      /\ r.plan = job[p].plan /\ r.lag = job[p].lag
  BY <1>2, <1>3 DEF Session, PCs, Telling
<1>5. InTime(r)
  BY <1>2, <1>4 DEF InTime
<1> QED
  BY <1>1, <1>3, <1>4, <1>5

LEMMA SkippingStep ==
  ASSUME TypeInv, NEW p \in Sends, Drop(p)
  PROVE  /\ job[p].pc = "tell"
         /\ \E i \in job[p].list : LET r == Skipping(p, i) IN
              /\ job' = [job EXCEPT ![p] = r] /\ r \in Session
              /\ r.pc = "tell" /\ r.row = job[p].row /\ r.list = job[p].list \ {i}
              /\ r.said = job[p].said /\ r.seen = job[p].seen /\ r.hits = job[p].hits
              /\ r.todo = job[p].todo /\ r.left = job[p].left /\ InTime(r)
<1>1. PICK i \in job[p].list :
        job[p].pc = "tell" /\ job' = [job EXCEPT ![p].list = job[p].list \ {i}]
  BY DEF Drop, TypeInv, Typed
<1> DEFINE r == Skipping(p, i)
<1>2. job[p] \in Session /\ InTime(job[p])
  BY SenderStage
<1>3. job' = [job EXCEPT ![p] = r]
  BY <1>1 DEF Skipping
<1>4. job[p].list \ {i} \in Ids
  BY <1>2, FS_RemoveElement DEF Session, Ids
<1>5. /\ r \in Session /\ r.pc = "tell" /\ r.row = job[p].row /\ r.list = job[p].list \ {i}
      /\ r.said = job[p].said /\ r.seen = job[p].seen /\ r.hits = job[p].hits
      /\ r.todo = job[p].todo /\ r.left = job[p].left
      /\ r.plan = job[p].plan /\ r.lag = job[p].lag
  BY <1>1, <1>2, <1>4 DEF Session, Skipping
<1>6. InTime(r)
  BY <1>2, <1>5 DEF InTime
<1> QED
  BY <1>1, <1>3, <1>5, <1>6

LEMMA MarkingStep ==
  ASSUME TypeInv, NEW p \in Sends, Mark(p)
  PROVE  LET r == Marking(p)
             i == job[p].row
             row == [View(p)[i] EXCEPT !.sent = TRUE]
         IN /\ job[p].pc = "mark" /\ job' = [job EXCEPT ![p] = r] /\ r \in Session
            /\ r.pc = "tell" /\ r.row = 0 /\ r.list = job[p].list
            /\ r.said = job[p].said /\ r.seen = job[p].seen /\ r.hits = job[p].hits
            /\ r.todo = job[p].todo /\ r.left = job[p].left /\ InTime(r)
            /\ i \in Nat /\ i \in DOMAIN View(p) /\ Free(p, i) /\ View(p)[i] \in Row
            /\ row \in Row /\ row.sent /\ Writes(p, i, row)
<1> DEFINE r == Marking(p)
           i == job[p].row
           row == [View(p)[i] EXCEPT !.sent = TRUE]
<1>1. /\ job[p].pc = "mark" /\ i \in DOMAIN View(p) /\ Free(p, i)
      /\ Writes(p, i, row) /\ job' = [job EXCEPT ![p] = r]
  BY SenderStage DEF Mark, Marked, Marking, TypeInv, Typed
<1>2. p \in Procs /\ job[p] \in Session /\ InTime(job[p])
  BY SenderStage
<1>3. i \in Nat /\ View(p)[i] \in Row
  BY <1>1, <1>2, SeenRow
<1>4. row \in Row /\ row.sent
  BY <1>3 DEF Row
<1>5. /\ r \in Session /\ r.pc = "tell" /\ r.row = 0 /\ r.list = job[p].list
      /\ r.said = job[p].said /\ r.seen = job[p].seen /\ r.hits = job[p].hits
      /\ r.todo = job[p].todo /\ r.left = job[p].left
      /\ r.plan = job[p].plan /\ r.lag = job[p].lag
  BY <1>2 DEF Session, PCs, Marking
<1>6. InTime(r)
  BY <1>2, <1>5 DEF InTime
<1> QED
  BY <1>1, <1>3, <1>4, <1>5, <1>6

LEMMA TypeSend ==
  ASSUME TypeInv, NEW p \in Sends, StartSend(p) \/ Tell(p) \/ Drop(p) \/ Mark(p)
  PROVE  TypeInv'
<1>1. job[p].left = {} /\ job[p].todo \subseteq DOMAIN job[p].seen
  BY SenderStage
<1>2. PICK r \in Session :
        /\ job' = [job EXCEPT ![p] = r] /\ r.pc \in {"tell", "mark"}
        /\ r.todo \subseteq DOMAIN r.seen /\ r.left = {} /\ InTime(r)
  <2>1. CASE StartSend(p)
    <3>1. Listing.todo \subseteq DOMAIN Listing.seen
      BY <2>1, ListingStep
    <3> QED
      BY <2>1, <3>1, ListingStep
  <2>2. CASE Tell(p)
    BY <1>1, <2>2, TellingStep
  <2>3. CASE Drop(p)
    BY <1>1, <2>3, SkippingStep
  <2>4. CASE Mark(p)
    BY <1>1, <2>4, MarkingStep
  <2> QED
    BY <2>1, <2>2, <2>3, <2>4
<1>3. job' \in [Procs -> Session] /\ Stages'
  BY <1>2, SenderStep
<1>4. wrote' \in [Procs -> Tables]
  <2>1. CASE Mark(p)
    BY <2>1, MarkingStep, WritesStep, SenderStage
  <2>2. CASE ~Mark(p)
    BY <2>2 DEF StartSend, Tell, Drop, table, TypeInv, Typed
  <2> QED
    BY <2>1, <2>2
<1>5. ran' \subseteq Recomputes \cup Sends
  BY DEF StartSend, Starts, Tell, Drop, Mark, clock, TypeInv, Typed
<1>6. fails' \in 0..MaxFails
  <2>1. fails \in 0..MaxFails /\ MaxFails \in Nat
    BY RemindersAssumption DEF TypeInv, Typed
  <2>2. fails' = fails \/ (fails < MaxFails /\ fails' = fails + 1)
    BY DEF StartSend, Tell, Drop, Mark
  <2> QED
    BY <2>1, <2>2
<1>7. UNCHANGED <<hour, lead, visible, setting, reminders, erased, told, touched, clicks>>
  BY DEF StartSend, Tell, Drop, Mark, Writes, clock, charges, table
<1>8. Typed'
  BY <1>3, <1>4, <1>5, <1>6, <1>7 DEF TypeInv, Typed
<1> QED
  BY <1>3, <1>8 DEF TypeInv

(* An hour passes.                                                          *)
Closer(row) == [row EXCEPT !.fire = Less(row.fire, 1)]
Kept == {i \in DOMAIN reminders : ~reminders[i].sent \/ \E p \in Procs : i \in Named(p)}
Later(r) == [r EXCEPT !.lag = 1, !.plan = [t \in DOMAIN r.plan |-> Less(r.plan[t], 1)]]

LEMMA LessFacts == \A n \in Nat : Less(n, 1) \in Nat
BY DEF Less

LEMMA CloserFacts ==
  ASSUME NEW row \in Row
  PROVE  /\ Closer(row) \in Row /\ Closer(row).user = row.user /\ Closer(row).sub = row.sub
         /\ Closer(row).kind = row.kind /\ Closer(row).sent = row.sent
         /\ Closer(row).fire = Less(row.fire, 1)
<1>1. Less(row.fire, 1) \in Nat
  BY LessFacts DEF Row
<1> QED
  BY <1>1 DEF Closer, Row

LEMMA LaterFacts ==
  ASSUME NEW r \in Session
  PROVE  /\ Later(r) \in Session /\ Later(r).lag = 1 /\ DOMAIN Later(r).plan = DOMAIN r.plan
         /\ \A t \in DOMAIN r.plan : Later(r).plan[t] = Less(r.plan[t], 1)
         /\ Later(r).pc = r.pc /\ Later(r).seen = r.seen /\ Later(r).was = r.was
         /\ Later(r).todo = r.todo /\ Later(r).user = r.user /\ Later(r).left = r.left
         /\ Later(r).at = r.at /\ Later(r).hits = r.hits /\ Later(r).row = r.row
         /\ Later(r).list = r.list /\ Later(r).said = r.said
<1> DEFINE plan == [t \in DOMAIN r.plan |-> Less(r.plan[t], 1)]
<1>1. plan \in Plans
  <2>1. DOMAIN r.plan \subseteq Targets /\ \A t \in DOMAIN r.plan : r.plan[t] \in Nat
    BY PlanFacts DEF Session
  <2>2. plan \in [DOMAIN r.plan -> Nat]
    BY <2>1, LessFacts
  <2> QED
    BY <2>1, <2>2, PlansIntro
<1>2. DOMAIN plan = DOMAIN r.plan /\ \A t \in DOMAIN r.plan : plan[t] = Less(r.plan[t], 1)
  OBVIOUS
<1>3. Later(r) = [r EXCEPT !.lag = 1, !.plan = plan]
  BY DEF Later
<1> HIDE DEF plan
<1> QED
  BY <1>1, <1>2, <1>3 DEF Session

LEMMA TickStep ==
  ASSUME TypeInv, Tick
  PROVE  /\ reminders' \in Tables /\ DOMAIN reminders' = Kept
         /\ \A i \in Kept : reminders'[i] = Closer(reminders[i])
         /\ wrote' \in [Procs -> Tables]
         /\ \A p \in Procs : DOMAIN wrote'[p] = DOMAIN wrote[p]
         /\ \A p \in Procs : \A i \in DOMAIN wrote[p] : wrote'[p][i] = Closer(wrote[p][i])
         /\ job' \in [Procs -> Session]
         /\ \A p \in Procs : job'[p] = IF Open(p) THEN Later(job[p]) ELSE job[p]
         /\ told' = told \cap Kept
<1>1. /\ reminders' = [i \in Kept |-> Closer(reminders[i])]
      /\ wrote' = [p \in Procs |-> [i \in DOMAIN wrote[p] |-> Closer(wrote[p][i])]]
      /\ told' = told \cap Kept
  BY DEF Tick, Kept, Closer
<1>2. job' = [p \in Procs |-> IF Open(p) THEN Later(job[p]) ELSE job[p]]
  BY DEF Tick, Later
<1>3. reminders \in Tables /\ wrote \in [Procs -> Tables] /\ job \in [Procs -> Session]
  BY DEF TypeInv, Typed
<1>4. reminders' \in Tables
  <2>1. Kept \in SUBSET Nat /\ IsFiniteSet(Kept)
    BY <1>3, TableFacts, FS_Subset DEF Kept
  <2>2. \A i \in Kept : Closer(reminders[i]) \in Row
    BY <1>3, TableFacts, CloserFacts DEF Kept
  <2> QED
    BY <1>1, <2>1, <2>2, TableIntro
<1>5. \A p \in Procs : [i \in DOMAIN wrote[p] |-> Closer(wrote[p][i])] \in Tables
  <2> TAKE p \in Procs
  <2>1. wrote[p] \in Tables
    BY <1>3
  <2>2. \A i \in DOMAIN wrote[p] : Closer(wrote[p][i]) \in Row
    BY <2>1, TableFacts, CloserFacts
  <2>3. [i \in DOMAIN wrote[p] |-> Closer(wrote[p][i])] \in [DOMAIN wrote[p] -> Row]
    BY <2>2
  <2> QED
    BY <2>1, <2>3, TableFacts, TableIntro
<1>6. wrote' \in [Procs -> Tables]
  BY <1>1, <1>5
<1>7. job' \in [Procs -> Session]
  BY <1>2, <1>3, LaterFacts
<1> QED
  BY <1>1, <1>2, <1>4, <1>6, <1>7

LEMMA TypeTick == TypeInv /\ Tick => TypeInv'
<1> SUFFICES ASSUME TypeInv, Tick PROVE TypeInv'
  OBVIOUS
<1>1. lead' \in [Subs -> -1..MaxLead]
  <2>1. lead' = [s \in Subs |-> IF lead[s] = -1 THEN -1 ELSE lead[s] - 1]
    BY DEF Tick
  <2>2. \A s \in Subs : lead[s] \in -1..MaxLead /\ MaxLead \in Nat
    BY RemindersAssumption DEF TypeInv, Typed
  <2> QED
    BY <2>1, <2>2
<1>2. hour' \in 0..(Hours - 1)
  <2>1. hour' = (hour + 1) % Hours
    BY DEF Tick
  <2>2. hour \in 0..(Hours - 1) /\ Hours \in Nat /\ Hours > 1
    BY CycleOfHours DEF TypeInv, Typed
  <2> QED
    BY <2>1, <2>2
<1>3. /\ reminders' \in Tables /\ wrote' \in [Procs -> Tables]
      /\ job' \in [Procs -> Session] /\ told' \subseteq Nat
  BY TickStep DEF TypeInv, Typed
<1>4. ran' = {} /\ UNCHANGED <<visible, setting, erased, touched, clicks, fails>>
  BY DEF Tick
<1>5. Typed'
  BY <1>1, <1>2, <1>3, <1>4 DEF TypeInv, Typed
<1>6. ASSUME NEW p \in Procs PROVE Stage(p, job'[p])
  <2>1. job[p] \in Session /\ Stage(p, job[p])
    BY DEF TypeInv, Typed, Stages
  <2>2. CASE ~Open(p)
    BY <2>1, <2>2, TickStep
  <2>3. CASE Open(p)
    <3> DEFINE r == Later(job[p])
    <3>1. /\ r.lag = 1 /\ r.pc = job[p].pc /\ r.seen = job[p].seen /\ r.was = job[p].was
          /\ r.todo = job[p].todo /\ r.user = job[p].user /\ r.left = job[p].left
          /\ r.at = job[p].at /\ r.hits = job[p].hits /\ r.list = job[p].list
          /\ r.said = job[p].said /\ DOMAIN r.plan = DOMAIN job[p].plan
      BY <2>1, LaterFacts
    <3>2. job'[p] = r /\ job[p].pc # "idle"
      BY <2>3, TickStep DEF Open
    <3> HIDE DEF r
    <3>3. InTime(r) /\ (Owned(p, job[p]) => Owned(p, r))
      BY <3>1 DEF InTime, Owned
    <3>4. r.pc \in Planned => HasUser(r)
      BY <2>1, <3>1 DEF HasUser, PlanFits, Stage
    <3>5. Stage(p, r)
      BY <2>1, <3>1, <3>2, <3>3, <3>4 DEF Stage
    <3> QED
      BY <3>2, <3>5
  <2> QED
    BY <2>2, <2>3
<1> QED
  BY <1>5, <1>6 DEF TypeInv, Stages

LEMMA TypeCharges ==
  ASSUME TypeInv, NEW s \in Subs, Hide(s) \/ Reschedule(s)
  PROVE  TypeInv'
<1>1. Edit
  BY DEF Hide, Reschedule
<1>2. Stages'
  BY <1>1 DEF Edit, TypeInv, Stages
<1>3. lead' \in [Subs -> -1..MaxLead] /\ visible' \subseteq Subs
  BY RemindersAssumption DEF Hide, Reschedule, TypeInv, Typed
<1>4. clicks' \in 0..MaxClicks
  BY <1>1, RemindersAssumption DEF Edit, TypeInv, Typed
<1>5. Typed'
  BY <1>1, <1>3, <1>4 DEF Edit, TypeInv, Typed, clock, table
<1> QED
  BY <1>2, <1>5 DEF TypeInv

LEMMA TypeWork ==
  ASSUME TypeInv, NEW p \in Procs, Work(p)
  PROVE  TypeInv'
<1>1. ran \subseteq Recomputes \cup Sends /\ fails \in 0..MaxFails
  BY DEF TypeInv, Typed
<1>2. CASE UpsertRaises(p) \/ FlushRaises(p) \/ Abort(p)
  <2>1. Rollback(p) /\ UNCHANGED <<hour, charges, clicks, ran, fails>>
    BY <1>2 DEF UpsertRaises, FlushRaises, Abort, clock
  <2> QED
    BY <1>1, <2>1, RollbackStep
<1> QED
  BY <1>2, TypeNextUser, TypePurge, TypeDelete, TypeUpsert, TypeInsert, TypeUpdate,
     TypeCommit DEF Work, Recompute

LEMMA TypeFail ==
  ASSUME TypeInv, NEW p \in Procs, Fail(p)
  PROVE  TypeInv'
<1>1. ran' \subseteq Recomputes \cup Sends /\ fails' \in 0..MaxFails
  BY RemindersAssumption DEF Fail, TypeInv, Typed
<1>2. Rollback(p) /\ UNCHANGED <<hour, charges, clicks>>
  BY DEF Fail
<1> QED
  BY <1>1, <1>2, RollbackStep

LEMMA TypeInit == Init => TypeInv
<1> SUFFICES ASSUME Init PROVE TypeInv
  OBVIOUS
<1>1. \A u \in Users : [policy |-> FirstPolicy[u], zone |-> 0] \in Setting
  BY RemindersAssumption DEF Setting
<1>2. setting \in [Users -> Setting]
  BY <1>1 DEF Init
<1>3. hour \in 0..(Hours - 1)
  BY CycleOfHours, RemindersAssumption DEF Init
<1>4. clicks \in 0..MaxClicks /\ fails \in 0..MaxFails
  BY RemindersAssumption DEF Init
<1>5. Typed
  BY <1>2, <1>3, <1>4, EmptyIsTyped, FreshIsTyped DEF Init, Typed
<1>6. Stages
  BY FreshIsTyped DEF Init, Stages
<1> QED
  BY <1>5, <1>6 DEF TypeInv

LEMMA TypeStep == TypeInv /\ [Next]_vars => TypeInv'
<1> SUFFICES ASSUME TypeInv, [Next]_vars PROVE TypeInv'
  OBVIOUS
<1>1. CASE UNCHANGED vars
  BY <1>1 DEF vars, clock, charges, table, TypeInv, Typed, Stages
<1> QED
  BY <1>1, TypeStartRecompute, TypeSend, TypeTick, TypeClick, TypeSave, TypeWork,
     TypeFail, TypeCharges DEF Next

(* Every variable of the reminders keeps its type and every session holds   *)
(* what its stage needs: the user at hand, a plan of the user's policy, the *)
(* targets left.                                                            *)
THEOREM RemindersTypesHold == Spec => []TypeInv
<1>1. Init => TypeInv
  BY TypeInit
<1>2. TypeInv /\ [Next]_vars => TypeInv'
  BY TypeStep
<1> QED
  BY <1>1, <1>2, PTL DEF Spec

LEMMA TypeInvTyped == TypeInv => TypeOK
<1> SUFFICES ASSUME TypeInv PROVE TypeOK
  OBVIOUS
<1>1. hour \in Nat
  BY CycleOfHours DEF TypeInv, Typed
<1>2. \A f \in Tables : IsTable(f, Row)
  BY TableFacts DEF IsTable
<1>3. \A f \in Settings : IsSettings(f)
  BY SettingsFacts DEF IsSettings
<1>4. /\ IsTable(reminders, Row) /\ DOMAIN wrote = Procs
      /\ \A p \in Procs : IsTable(wrote[p], Row)
  BY <1>2 DEF TypeInv, Typed
<1>5. ASSUME NEW p \in Procs
      PROVE  /\ DOMAIN job[p] = DOMAIN Fresh /\ job[p].pc \in PCs
             /\ job[p].user \in Users /\ job[p].todo \subseteq Users
             /\ IsSettings(job[p].seen) /\ IsSettings(job[p].was)
             /\ DOMAIN job[p].plan \subseteq Targets
             /\ \A t \in DOMAIN job[p].plan :
                  job[p].plan[t] \in Nat /\ (job[p].lag = 0 => job[p].plan[t] > 0)
             /\ job[p].left \subseteq DOMAIN job[p].plan /\ job[p].at \in Targets
             /\ job[p].hits \subseteq Nat /\ job[p].row \in Nat
             /\ job[p].list \subseteq Nat /\ job[p].said \subseteq Nat
             /\ job[p].lag \in {0, 1}
  <2>1. job[p] \in Session /\ Stage(p, job[p])
    BY DEF TypeInv, Typed, Stages
  <2>2. DOMAIN job[p] = DOMAIN Fresh
    BY <2>1, FreshIsTyped DEF Session
  <2>3. /\ DOMAIN job[p].plan \subseteq Targets
        /\ \A t \in DOMAIN job[p].plan :
             job[p].plan[t] \in Nat /\ (job[p].lag = 0 => job[p].plan[t] > 0)
    BY <2>1, PlanFacts DEF Session, Stage, InTime
  <2>4. IsSettings(job[p].seen) /\ IsSettings(job[p].was)
    BY <1>2, <1>3, <2>1 DEF Session
  <2>5. job[p].left \subseteq DOMAIN job[p].plan
    BY <2>1 DEF Stage
  <2> QED
    BY <2>1, <2>2, <2>3, <2>4, <2>5 DEF Session, Ids
<1> QED
  BY <1>1, <1>4, <1>5 DEF TypeInv, Typed, TypeOK

(* Type correctness of the reminders.                                       *)
THEOREM RemindersAreTyped == Spec => []TypeOK
BY RemindersTypesHold, TypeInvTyped, PTL

-----------------------------------------------------------------------------
(* Rows.  A row is written or deleted by one open transaction at a time, a  *)
(* process without a transaction has no writes, and no open transaction     *)
(* deletes a row that was sent or writes it back as pending.                *)
Held(p) == DOMAIN wrote[p] \cup erased[p]
Exclusive == \A p, q \in Procs : p # q => Held(p) \cap Held(q) = {}
Idles == \A p \in Procs : job[p].pc = "idle" => wrote[p] = Empty /\ erased[p] = {}
Erasures == \A p \in Procs : erased[p] \subseteq DOMAIN reminders \cup DOMAIN wrote[p]
Respected ==
  \A p \in Procs, i \in DOMAIN reminders : reminders[i].sent =>
    i \notin erased[p] /\ (i \in DOMAIN wrote[p] => wrote[p][i].sent)
Locks == Exclusive /\ Idles /\ Erasures /\ Respected

LEMMA LocksQuiet ==
  ASSUME Locks, UNCHANGED <<reminders, wrote, erased>>,
         \A q \in Procs : job'[q].pc = "idle" => job[q].pc = "idle"
  PROVE  Locks'
BY DEF Locks, Exclusive, Idles, Erasures, Respected, Held

ClosesOnly(p) ==
  \A q \in Procs :
    /\ job'[q] = IF q = p THEN Fresh ELSE job[q]
    /\ wrote'[q] = IF q = p THEN Empty ELSE wrote[q]
    /\ erased'[q] = IF q = p THEN {} ELSE erased[q]

LEMMA CloseFacts ==
  ASSUME TypeInv, NEW p \in Procs, Close(p)
  PROVE  ClosesOnly(p)
BY DEF ClosesOnly, Close, TypeInv, Typed

LEMMA LocksClose ==
  ASSUME TypeInv, Locks, NEW p \in Procs, Close(p), UNCHANGED reminders
  PROVE  Locks'
<1>1. ClosesOnly(p)
  BY CloseFacts
<1>2. Exclusive' /\ Idles'
  BY <1>1, EmptyIsTyped DEF Locks, Exclusive, Idles, Held, ClosesOnly
<1>3. Erasures' /\ Respected'
  BY <1>1, EmptyIsTyped DEF Locks, Erasures, Respected, ClosesOnly
<1> QED
  BY <1>2, <1>3 DEF Locks

LEMMA CommitFacts ==
  ASSUME TypeInv, NEW p \in Procs, Commit(p)
  PROVE  /\ DOMAIN reminders' = (DOMAIN reminders \cup DOMAIN wrote[p]) \ erased[p]
         /\ \A i \in DOMAIN reminders' :
              reminders'[i] = IF i \in DOMAIN wrote[p] THEN wrote[p][i] ELSE reminders[i]
         /\ ClosesOnly(p)
<1>1. reminders' = View(p) /\ Close(p)
  BY DEF Commit, Publish
<1> QED
  BY <1>1, ViewFacts, CloseFacts DEF TypeInv, Typed

LEMMA LocksCommit ==
  ASSUME TypeInv, Locks, NEW p \in Procs, Commit(p)
  PROVE  Locks'
<1>1. /\ DOMAIN reminders' = (DOMAIN reminders \cup DOMAIN wrote[p]) \ erased[p]
      /\ \A i \in DOMAIN reminders' :
           reminders'[i] = IF i \in DOMAIN wrote[p] THEN wrote[p][i] ELSE reminders[i]
      /\ ClosesOnly(p)
  BY CommitFacts
<1>2. Exclusive' /\ Idles'
  BY <1>1, EmptyIsTyped DEF Locks, Exclusive, Idles, Held, ClosesOnly
<1>3. \A q \in Procs \ {p} : Held(q) \cap Held(p) = {}
  BY DEF Locks, Exclusive
<1>4. Erasures'
  BY <1>1, <1>3, EmptyIsTyped DEF Locks, Erasures, Held, ClosesOnly
<1>5. Respected'
  <2> SUFFICES ASSUME NEW q \in Procs, NEW i \in DOMAIN reminders', reminders'[i].sent
               PROVE  i \notin erased'[q] /\ (i \in DOMAIN wrote'[q] => wrote'[q][i].sent)
    BY DEF Respected
  <2>1. CASE q = p
    BY <1>1, <2>1, EmptyIsTyped DEF ClosesOnly
  <2>2. CASE q # p /\ i \in DOMAIN wrote[p]
    BY <1>1, <1>3, <2>2 DEF Held, ClosesOnly
  <2>3. CASE q # p /\ i \notin DOMAIN wrote[p]
    <3>1. i \in DOMAIN reminders /\ reminders[i].sent
      BY <1>1, <2>3
    <3> QED
      BY <1>1, <2>3, <3>1 DEF Locks, Respected, ClosesOnly
  <2> QED
    BY <2>1, <2>2, <2>3
<1> QED
  BY <1>2, <1>4, <1>5 DEF Locks

LEMMA FreeFacts ==
  ASSUME NEW p \in Procs, NEW i, Free(p, i)
  PROVE  \A q \in Procs \ {p} : i \notin Held(q)
BY DEF Free, Holders, Held

LEMMA LocksWrite ==
  ASSUME TypeInv, Locks, NEW p \in Procs, NEW i \in Nat, NEW r \in Row, Writes(p, i, r),
         \A q \in Procs \ {p} : i \notin Held(q), i \notin erased[p],
         (i \in DOMAIN reminders /\ reminders[i].sent) => r.sent,
         job'[p].pc # "idle", \A q \in Procs \ {p} : job'[q] = job[q]
  PROVE  Locks'
<1>1. UNCHANGED <<reminders, erased>> /\ wrote' = [wrote EXCEPT ![p] = Put(wrote[p], i, r)]
  BY WritesStep
<1>2. \A q \in Procs : wrote'[q] = IF q = p THEN Put(wrote[p], i, r) ELSE wrote[q]
  BY <1>1 DEF TypeInv, Typed
<1>3. /\ DOMAIN Put(wrote[p], i, r) = DOMAIN wrote[p] \cup {i}
      /\ Put(wrote[p], i, r)[i] = r
      /\ \A x \in DOMAIN wrote[p] \ {i} : Put(wrote[p], i, r)[x] = wrote[p][x]
  BY DEF Put
<1>4. Exclusive'
  <2>1. \A q \in Procs : Held(q)' = IF q = p THEN Held(p) \cup {i} ELSE Held(q)
    BY <1>1, <1>2, <1>3 DEF Held
  <2> QED
    BY <2>1 DEF Locks, Exclusive
<1>5. Idles'
  BY <1>1, <1>2 DEF Locks, Idles
<1>6. Erasures'
  BY <1>1, <1>2, <1>3 DEF Locks, Erasures
<1>7. Respected'
  <2> SUFFICES ASSUME NEW q \in Procs, NEW x \in DOMAIN reminders, reminders[x].sent
               PROVE  x \notin erased[q] /\ (x \in DOMAIN wrote'[q] => wrote'[q][x].sent)
    BY <1>1 DEF Respected
  <2>1. x \notin erased[q] /\ (x \in DOMAIN wrote[q] => wrote[q][x].sent)
    BY DEF Locks, Respected
  <2>2. CASE q = p /\ x = i
    BY <1>2, <1>3, <2>1, <2>2
  <2>3. CASE q # p \/ x # i
    BY <1>2, <1>3, <2>1, <2>3
  <2> QED
    BY <2>2, <2>3
<1> QED
  BY <1>4, <1>5, <1>6, <1>7 DEF Locks

LEMMA LocksInsert ==
  ASSUME TypeInv, Locks, NEW p \in Procs, Insert(p)
  PROVE  Locks'
<1>1. job[p].pc = "insert" /\ NextTarget(p) /\ Writes(p, NewId, NewRow(p))
  BY DEF Insert, NewRow
<1>2. /\ NewId \in Nat /\ NewId \notin DOMAIN reminders
      /\ \A q \in Procs : NewId \notin DOMAIN wrote[q]
  BY NewIdIsNew DEF TypeInv, Named
<1>3. \A q \in Procs : NewId \notin erased[q] /\ NewId \notin Held(q)
  BY <1>2 DEF Locks, Erasures, Held
<1>4. NewRow(p) \in Row
  BY <1>1, TargetAtHand
<1>5. job'[p].pc # "idle" /\ \A q \in Procs \ {p} : job'[q] = job[q]
  BY <1>1, NextTargetStep, SettledStep
<1> HIDE DEF NewId, NewRow
<1> QED
  BY <1>1, <1>2, <1>3, <1>4, <1>5, LocksWrite

LEMMA ViewOfSent ==
  ASSUME TypeInv, Locks, NEW p \in Procs, NEW i \in DOMAIN View(p)
  PROVE  /\ i \notin erased[p]
         /\ (i \in DOMAIN reminders /\ reminders[i].sent) => View(p)[i].sent
<1>1. reminders \in Tables /\ wrote \in [Procs -> Tables]
  BY DEF TypeInv, Typed
<1>2. /\ DOMAIN View(p) = (DOMAIN reminders \cup DOMAIN wrote[p]) \ erased[p]
      /\ View(p)[i] = IF i \in DOMAIN wrote[p] THEN wrote[p][i] ELSE reminders[i]
  BY ONLY <1>1, ViewFacts, p \in Procs, i \in DOMAIN View(p)
<1>3. i \in DOMAIN reminders /\ reminders[i].sent =>
        (i \in DOMAIN wrote[p] => wrote[p][i].sent)
  BY DEF Locks, Respected
<1> QED
  BY <1>2, <1>3

LEMMA LocksUpdate ==
  ASSUME TypeInv, Locks, NEW p \in Procs, Update(p)
  PROVE  Locks'
<1> DEFINE i == job[p].row
           r == [View(p)[i] EXCEPT !.fire = job[p].plan[job[p].at]]
<1>1. /\ job[p].pc = "update" /\ NextTarget(p) /\ i \in DOMAIN View(p)
      /\ Writes(p, i, r) /\ Free(p, i)
  BY DEF Update
<1>2. i \in Nat /\ View(p)[i] \in Row
  BY <1>1, SeenRow
<1>3. job[p].plan[job[p].at] \in Nat
  BY <1>1, TargetAtHand
<1>4. r \in Row /\ r.sent = View(p)[i].sent
  BY <1>2, <1>3 DEF Row
<1>5. job'[p].pc # "idle" /\ \A q \in Procs \ {p} : job'[q] = job[q]
  BY <1>1, NextTargetStep, SettledStep
<1>6. /\ i \notin erased[p]
      /\ (i \in DOMAIN reminders /\ reminders[i].sent) => r.sent
  BY <1>1, <1>4, ViewOfSent
<1>7. \A q \in Procs \ {p} : i \notin Held(q)
  BY <1>1, FreeFacts
<1> HIDE DEF i, r
<1> QED
  BY <1>1, <1>2, <1>4, <1>5, <1>6, <1>7, LocksWrite

LEMMA LocksMark ==
  ASSUME TypeInv, Locks, NEW p \in Sends, Mark(p)
  PROVE  Locks'
<1> DEFINE i == job[p].row
           r == [View(p)[i] EXCEPT !.sent = TRUE]
<1>1. /\ i \in Nat /\ i \in DOMAIN View(p) /\ Free(p, i) /\ View(p)[i] \in Row
      /\ Writes(p, i, r) /\ Marking(p).pc = "tell" /\ p \in Procs
      /\ job' = [job EXCEPT ![p] = Marking(p)]
  BY MarkingStep, ConstantTypes
<1>2. r \in Row /\ r.sent
  BY <1>1 DEF Row
<1>3. job'[p].pc # "idle" /\ \A q \in Procs \ {p} : job'[q] = job[q]
  BY <1>1 DEF TypeInv, Typed
<1>4. i \notin erased[p]
  BY <1>1, ViewOfSent
<1>5. \A q \in Procs \ {p} : i \notin Held(q)
  BY <1>1, FreeFacts
<1> HIDE DEF i, r
<1> QED
  BY <1>1, <1>2, <1>3, <1>4, <1>5, LocksWrite

LEMMA LocksDelete ==
  ASSUME TypeInv, Locks, NEW p \in Procs, Delete(p)
  PROVE  Locks'
<1>1. PICK i \in Nat : DeleteRow(p, i) /\ Continues(p, Visited(p, i))
  BY DeleteStep
<1>2. job'[p].pc # "idle" /\ \A q \in Procs \ {p} : job'[q] = job[q]
  BY <1>1, SettledStep
<1>3. UNCHANGED <<reminders, wrote>>
  BY <1>1 DEF DeleteRow
<1>4. CASE i \in Pending(View(p), job[p].user)
  <2>1. i \in DOMAIN View(p) /\ ~View(p)[i].sent
    BY <1>4 DEF Pending
  <2>2. i \in DOMAIN reminders \cup DOMAIN wrote[p]
    BY <2>1, ViewFacts DEF TypeInv, Typed
  <2>3. ~(i \in DOMAIN reminders /\ reminders[i].sent)
    BY <2>1, ViewOfSent
  <2>4. \A q \in Procs : erased'[q] = IF q = p THEN erased[p] \cup {i} ELSE erased[q]
    BY <1>1, <1>4 DEF DeleteRow, TypeInv, Typed
  <2>5. \A q \in Procs \ {p} : i \notin Held(q)
    BY <1>1, FreeFacts DEF DeleteRow
  <2>6. Exclusive'
    <3>1. \A q \in Procs : Held(q)' = IF q = p THEN Held(p) \cup {i} ELSE Held(q)
      BY <1>3, <2>4 DEF Held
    <3> QED
      BY <2>5, <3>1 DEF Locks, Exclusive
  <2>7. Idles' /\ Erasures'
    BY <1>2, <1>3, <2>2, <2>4 DEF Locks, Idles, Erasures
  <2>8. Respected'
    BY <1>3, <2>3, <2>4 DEF Locks, Respected
  <2> QED
    BY <2>6, <2>7, <2>8 DEF Locks
<1>5. CASE i \notin Pending(View(p), job[p].user)
  BY <1>1, <1>2, <1>3, <1>5, LocksQuiet DEF DeleteRow
<1> QED
  BY <1>4, <1>5

LEMMA LocksTick == TypeInv /\ Locks /\ Tick => Locks'
<1> SUFFICES ASSUME TypeInv, Locks, Tick PROVE Locks'
  OBVIOUS
<1>1. /\ DOMAIN reminders' = Kept /\ \A i \in Kept : reminders'[i] = Closer(reminders[i])
      /\ \A p \in Procs : DOMAIN wrote'[p] = DOMAIN wrote[p]
      /\ \A p \in Procs : \A i \in DOMAIN wrote[p] : wrote'[p][i] = Closer(wrote[p][i])
      /\ \A p \in Procs : job'[p] = IF Open(p) THEN Later(job[p]) ELSE job[p]
      /\ wrote' \in [Procs -> Tables] /\ erased' = erased
  BY TickStep DEF Tick
<1>2. /\ reminders \in Tables /\ job \in [Procs -> Session] /\ wrote \in [Procs -> Tables]
      /\ Kept \subseteq DOMAIN reminders
  BY DEF TypeInv, Typed, Kept
<1>3. Exclusive'
  BY <1>1 DEF Locks, Exclusive, Held
<1>4. Idles'
  <2> SUFFICES ASSUME NEW p \in Procs, job'[p].pc = "idle"
               PROVE  wrote'[p] = Empty /\ erased[p] = {}
    BY <1>1 DEF Idles
  <2>1. job[p].pc = "idle"
    BY <1>1, <1>2, LaterFacts DEF Open
  <2>2. wrote[p] = Empty /\ erased[p] = {}
    BY <2>1 DEF Locks, Idles
  <2>3. wrote'[p] \in Tables /\ DOMAIN wrote'[p] = {}
    BY <1>1, <2>2, EmptyIsTyped
  <2>4. wrote'[p] = Empty
    BY <2>3, TableFacts DEF Empty, Tables
  <2> QED
    BY <2>2, <2>4
<1>5. Erasures'
  <2> SUFFICES ASSUME NEW p \in Procs, NEW i \in erased[p]
               PROVE  i \in Kept \cup DOMAIN wrote[p]
    BY <1>1 DEF Erasures
  <2>1. i \in DOMAIN reminders \cup DOMAIN wrote[p]
    BY DEF Locks, Erasures
  <2>2. i \in DOMAIN reminders => ~reminders[i].sent
    BY DEF Locks, Respected
  <2> QED
    BY <2>1, <2>2 DEF Kept
<1>6. Respected'
  <2> SUFFICES ASSUME NEW p \in Procs, NEW i \in Kept, reminders'[i].sent
               PROVE  i \notin erased[p] /\ (i \in DOMAIN wrote[p] => wrote'[p][i].sent)
    BY <1>1 DEF Respected
  <2>1. reminders[i].sent
    BY <1>1, <1>2, TableFacts, CloserFacts
  <2>2. i \notin erased[p] /\ (i \in DOMAIN wrote[p] => wrote[p][i].sent)
    BY <1>2, <2>1 DEF Locks, Respected
  <2>3. i \in DOMAIN wrote[p] => wrote'[p][i].sent
    BY <1>1, <1>2, <2>2, TableFacts, CloserFacts
  <2> QED
    BY <2>2, <2>3
<1> QED
  BY <1>3, <1>4, <1>5, <1>6 DEF Locks

(* The steps that leave the rows alone and close no session.                *)
LEMMA QuietStep ==
  ASSUME TypeInv,
         \/ \E c \in Recomputes : StartRecompute(c)
         \/ \E p \in Sends : StartSend(p) \/ Tell(p) \/ Drop(p)
         \/ \E h \in Handlers : Click(h) \/ Save(h)
         \/ \E p \in Procs : NextUser(p) \/ Purge(p) \/ Stale(p) \/ Upsert(p)
         \/ \E s \in Subs : Hide(s) \/ Reschedule(s)
  PROVE  /\ UNCHANGED <<reminders, wrote, erased>>
         /\ \A q \in Procs : job'[q].pc = "idle" => job[q].pc = "idle"
<1>1. UNCHANGED <<reminders, wrote, erased>>
  BY DEF StartRecompute, StartSend, Tell, Drop, Click, Save, NextUser, Purge, Stale,
     Upsert, Hide, Reschedule, Edit, table
<1> DEFINE Awake == \A q \in Procs : job'[q].pc = "idle" => job[q].pc = "idle"
<1>2. ASSUME NEW p \in Procs, NEW r, r.pc # "idle", job' = [job EXCEPT ![p] = r]
      PROVE  Awake
  BY <1>2 DEF TypeInv, Typed
<1>3. job \in [Procs -> Session] /\ Recomputes \subseteq Procs /\ Sends \subseteq Procs
  BY ConstantTypes DEF TypeInv, Typed
<1>4. ASSUME NEW c \in Recomputes, StartRecompute(c) PROVE Awake
  BY <1>2, <1>3, <1>4 DEF StartRecompute, Fresh
<1>5. ASSUME NEW p \in Sends, StartSend(p) PROVE Awake
  BY <1>2, <1>3, <1>5, ListingStep
<1>6. ASSUME NEW p \in Sends, Tell(p) PROVE Awake
  BY <1>2, <1>3, <1>6, TellingStep
<1>7. ASSUME NEW p \in Sends, Drop(p) PROVE Awake
  BY <1>2, <1>3, <1>7, SkippingStep
<1>8. ASSUME NEW h \in Handlers, Click(h) PROVE Awake
  BY <1>2, <1>8, ConstantTypes DEF Click, Fresh
<1>9. ASSUME NEW h \in Handlers, Save(h) PROVE Awake
  <2>1. h \in Procs /\ job' = [job EXCEPT ![h] = [job[h] EXCEPT !.pc = "next"]]
    BY <1>9, ConstantTypes DEF Save, Goto
  <2>2. [job[h] EXCEPT !.pc = "next"].pc = "next"
    BY <1>3, <2>1 DEF Session
  <2> QED
    BY <1>2, <2>1, <2>2
<1>10. ASSUME NEW p \in Procs, NextUser(p) PROVE Awake
  <2>1. PICK u, plan : job' = [job EXCEPT ![p] =
          [job[p] EXCEPT !.pc = "purge", !.user = u, !.todo = job[p].todo \ {u},
                         !.plan = plan]]
    BY <1>10 DEF NextUser
  <2>2. [job[p] EXCEPT !.pc = "purge", !.user = u, !.todo = job[p].todo \ {u},
                       !.plan = plan].pc = "purge"
    BY <1>3 DEF Session
  <2> QED
    BY <1>2, <2>1, <2>2
<1>11. ASSUME NEW p \in Procs, NEW r, Continues(p, r) PROVE Awake
  BY <1>11, SettledStep
<1>12. ASSUME NEW p \in Procs, Purge(p) \/ Stale(p) PROVE Awake
  BY <1>11, <1>12, PurgeStep, StaleStep
<1>13. ASSUME NEW p \in Procs, Upsert(p) PROVE Awake
  <2> DEFINE t == Min(job[p].left)
  <2>1. \/ job' = [job EXCEPT ![p] = Inserting(p, t)] /\ Inserting(p, t).pc = "insert"
        \/ \E i \in Found(p, t) : /\ job' = [job EXCEPT ![p] = Updating(p, t, i)]
                                  /\ Updating(p, t, i).pc = "update"
        \/ Continues(p, Passed(p, t))
    BY <1>13, UpsertStep
  <2> QED
    BY <1>2, <1>11, <2>1
<1>14. ASSUME NEW s \in Subs, Hide(s) \/ Reschedule(s) PROVE Awake
  BY <1>14 DEF Hide, Reschedule, Edit
<1>15. Awake
  BY <1>4, <1>5, <1>6, <1>7, <1>8, <1>9, <1>10, <1>12, <1>13, <1>14
<1> QED
  BY <1>1, <1>15

LEMMA LocksStep == TypeInv /\ Locks /\ [Next]_vars => Locks'
<1> SUFFICES ASSUME TypeInv, Locks, [Next]_vars PROVE Locks'
  OBVIOUS
<1>1. CASE UNCHANGED vars
  BY <1>1, LocksQuiet DEF vars, table
<1>2. ASSUME NEW p \in Procs, Rollback(p) PROVE Locks'
  BY <1>2, LocksClose DEF Rollback
<1>3. ASSUME NEW p \in Procs, Work(p) \/ Fail(p) PROVE Locks'
  <2>1. CASE UpsertRaises(p) \/ FlushRaises(p) \/ Abort(p) \/ Fail(p)
    BY <1>2, <2>1 DEF UpsertRaises, FlushRaises, Abort, Fail
  <2>2. CASE NextUser(p) \/ Purge(p) \/ Stale(p) \/ Upsert(p)
    BY <2>2, QuietStep, LocksQuiet
  <2> QED
    BY <1>3, <2>1, <2>2, LocksInsert, LocksUpdate, LocksDelete, LocksCommit
    DEF Work, Recompute
<1>4. CASE \/ \E c \in Recomputes : StartRecompute(c)
           \/ \E p \in Sends : StartSend(p) \/ Tell(p) \/ Drop(p)
           \/ \E h \in Handlers : Click(h) \/ Save(h)
           \/ \E s \in Subs : Hide(s) \/ Reschedule(s)
  BY <1>4, QuietStep, LocksQuiet
<1> QED
  BY <1>1, <1>3, <1>4, LocksMark, LocksTick DEF Next

LEMMA LocksInit == Init => Locks
BY EmptyIsTyped, FreshIsTyped
   DEF Init, Locks, Exclusive, Idles, Erasures, Respected, Held

(* Rows are locked as Locks says, and no open transaction takes back a      *)
(* reminder that was sent.                                                  *)
THEOREM RowsAreLocked == Spec => []Locks
<1>1. Init => Locks
  BY LocksInit
<1>2. TypeInv /\ Locks /\ [Next]_vars => Locks'
  BY LocksStep
<1> QED
  BY <1>1, <1>2, RemindersTypesHold, PTL DEF Spec

(* What SentIsFinal says of a step.                                         *)
KeepsSent ==
  hour' = hour =>
    \A i \in DOMAIN reminders :
      reminders[i].sent => i \in DOMAIN reminders' /\ reminders'[i].sent

(* No tick leaves the clock where it is: the calendar has hours enough.     *)
LEMMA TickMoves == TypeInv /\ Tick => hour' # hour
<1> SUFFICES ASSUME TypeInv, Tick PROVE hour' # hour
  OBVIOUS
<1>1. hour' = (hour + 1) % Hours
  BY DEF Tick
<1>2. hour \in 0..(Hours - 1) /\ Hours \in Nat /\ Hours > 1
  BY CycleOfHours DEF TypeInv, Typed
<1>3. \A n \in Nat \ {0} : \A x \in 0..(n - 1) :
        (x + 1) % n = IF x = n - 1 THEN 0 ELSE x + 1
  OBVIOUS
<1> QED
  BY <1>1, <1>2, <1>3

LEMMA SentStep == TypeInv /\ Locks /\ [Next]_vars => KeepsSent
<1> SUFFICES ASSUME TypeInv, Locks, [Next]_vars PROVE KeepsSent
  OBVIOUS
<1>1. UNCHANGED reminders => KeepsSent
  BY DEF KeepsSent
<1>2. ASSUME NEW p \in Procs, Commit(p) PROVE KeepsSent
  <2>1. /\ DOMAIN reminders' = (DOMAIN reminders \cup DOMAIN wrote[p]) \ erased[p]
        /\ \A i \in DOMAIN reminders' :
             reminders'[i] = IF i \in DOMAIN wrote[p] THEN wrote[p][i] ELSE reminders[i]
    BY <1>2, CommitFacts
  <2>2. \A i \in DOMAIN reminders : reminders[i].sent =>
          i \notin erased[p] /\ (i \in DOMAIN wrote[p] => wrote[p][i].sent)
    BY DEF Locks, Respected
  <2> QED
    BY <2>1, <2>2 DEF KeepsSent
<1>3. ASSUME NEW p \in Procs, Work(p) \/ Fail(p) PROVE KeepsSent
  <2>1. CASE UpsertRaises(p) \/ FlushRaises(p) \/ Abort(p) \/ Fail(p)
    BY <1>1, <2>1 DEF UpsertRaises, FlushRaises, Abort, Fail, Rollback
  <2>2. CASE NextUser(p) \/ Purge(p) \/ Stale(p) \/ Upsert(p)
    BY <1>1, <2>2, QuietStep
  <2>3. CASE Insert(p) \/ Update(p) \/ Delete(p)
    BY <1>1, <2>3 DEF Insert, Update, Delete, Writes
  <2> QED
    BY <1>2, <1>3, <2>1, <2>2, <2>3 DEF Work, Recompute
<1>4. CASE \/ \E c \in Recomputes : StartRecompute(c)
           \/ \E p \in Sends : StartSend(p) \/ Tell(p) \/ Drop(p)
           \/ \E h \in Handlers : Click(h) \/ Save(h)
           \/ \E s \in Subs : Hide(s) \/ Reschedule(s)
  BY <1>1, <1>4, QuietStep
<1>5. CASE \E p \in Sends : Mark(p)
  BY <1>1, <1>5 DEF Mark, Writes
<1>6. CASE Tick
  BY <1>6, TickMoves DEF KeepsSent
<1>7. CASE UNCHANGED vars
  BY <1>1, <1>7 DEF vars, table
<1> QED
  BY <1>3, <1>4, <1>5, <1>6, <1>7 DEF Next

(* A reminder that was marked as sent and committed stays sent until the    *)
(* clock forgets it, whatever the recompute, the handlers and the send job  *)
(* write, delete, commit or roll back, in any order.                        *)
THEOREM SentForGood == Spec => SentIsFinal
<1>1. TypeInv /\ Locks /\ [Next]_vars => [KeepsSent]_vars
  BY SentStep
<1>2. Spec => [][KeepsSent]_vars
  BY <1>1, RemindersTypesHold, RowsAreLocked, PTL DEF Spec
<1> QED
  BY <1>2, PTL DEF SentIsFinal, KeepsSent

-----------------------------------------------------------------------------
(* Identity.  A row keeps its user, subscription and kind while its id is   *)
(* known: what a transaction wrote is a version of the committed row of     *)
(* that id, or a new row that no other session has read.  What a handler    *)
(* writes is its own user's, what a send writes has been sent.              *)
KeyOf(r) == <<r.user, r.sub, r.kind>>
DigestRow(r) == r.kind # "days_before" => r.sub = NoSub
Version(p, i, r) ==
  /\ DigestRow(r)
  /\ i \in DOMAIN reminders => KeyOf(r) = KeyOf(reminders[i])
  /\ p \in Handlers => r.user = UserOf[p]
  /\ p \in Sends => r.sent
Versions ==
  /\ \A i \in DOMAIN reminders : DigestRow(reminders[i])
  /\ \A p \in Procs : \A i \in DOMAIN wrote[p] : Version(p, i, wrote[p][i])

(* What the session r of p remembers of the row it updates.                 *)
Knows(p, r) ==
  \A q \in Procs \ {p} : \A i \in DOMAIN wrote[q] \ DOMAIN reminders :
    r.pc = "update" => i # r.row
Handles(p, r) ==
  p \in Handlers =>
    /\ r.pc # "idle" => DOMAIN r.seen = {UserOf[p]}
    /\ (r.pc = "update" /\ r.row \in DOMAIN View(p)) =>
         View(p)[r.row].user = UserOf[p]
Recalls == \A p \in Procs : Knows(p, job[p]) /\ Handles(p, job[p])
Identity == Versions /\ Recalls

LEMMA VersionsQuiet ==
  ASSUME Versions, UNCHANGED <<reminders, wrote>>
  PROVE  Versions'
BY DEF Versions, Version, DigestRow, KeyOf

LEMMA ViewQuiet ==
  ASSUME NEW p, UNCHANGED <<reminders, wrote[p], erased[p]>>
  PROVE  View(p)' = View(p)
BY DEF View

(* A step of p alone that leaves the rows as they are.                      *)
LEMMA IdentityQuiet ==
  ASSUME TypeInv, Identity, UNCHANGED <<reminders, wrote, erased>>, NEW p \in Procs,
         \A q \in Procs \ {p} : job'[q] = job[q],
         Knows(p, job'[p]), Handles(p, job'[p])
  PROVE  Identity'
<1>1. Versions'
  BY VersionsQuiet DEF Identity
<1>2. ASSUME NEW q \in Procs PROVE Knows(q, job[q])' /\ Handles(q, job[q])'
  <2>1. View(q)' = View(q)
    BY ViewQuiet
  <2>2. Knows(q, job'[q]) /\ Handles(q, job'[q])
    BY DEF Identity, Recalls
  <2>3. Knows(q, job[q])'
    BY <2>2 DEF Knows
  <2>4. Handles(q, job[q])'
    BY <2>1, <2>2 DEF Handles
  <2> QED
    BY <2>3, <2>4
<1> QED
  BY <1>1, <1>2 DEF Identity, Recalls

LEMMA IdentitySame ==
  ASSUME Identity, UNCHANGED <<reminders, wrote, erased, job>>
  PROVE  Identity'
<1>1. Versions'
  BY VersionsQuiet DEF Identity
<1>2. \A p \in Procs : View(p)' = View(p)
  BY DEF View
<1>3. Recalls'
  BY <1>2 DEF Identity, Recalls, Knows, Handles
<1> QED
  BY <1>1, <1>3 DEF Identity

LEMMA FreshRecalls == \A p \in Procs : Knows(p, Fresh) /\ Handles(p, Fresh)
BY FreshIsTyped, EmptyIsTyped DEF Knows, Handles

(* What has been read is committed or its own.                              *)
LEMMA SeenIsKnown ==
  ASSUME TypeInv, Locks, NEW p \in Procs, NEW i \in DOMAIN View(p),
         NEW q \in Procs \ {p}
  PROVE  i \notin DOMAIN wrote[q] \ DOMAIN reminders
<1>1. i \in DOMAIN reminders \cup DOMAIN wrote[p]
  BY ViewFacts DEF TypeInv, Typed
<1>2. DOMAIN wrote[p] \cap DOMAIN wrote[q] = {}
  BY DEF Locks, Exclusive, Held
<1> QED
  BY <1>1, <1>2

LEMMA ContinuesIdentity ==
  ASSUME TypeInv, Identity, NEW p \in Procs, NEW r, Continues(p, r)
  PROVE  /\ \A q \in Procs \ {p} : job'[q] = job[q]
         /\ Knows(p, job'[p]) /\ Handles(p, job'[p])
<1>1. job'[p] = Settle(r) /\ \A q \in Procs \ {p} : job'[q] = job[q]
  BY SettledStep
<1>2. Unsettled(r) /\ r.seen = job[p].seen /\ job[p].pc # "idle"
  BY DEF Continues, Planned, Upserting
<1>3. Settle(r).seen = job[p].seen /\ Settle(r).pc \notin {"update", "idle"}
  BY <1>2, SettleFacts
<1>4. Knows(p, job[p]) /\ Handles(p, job[p])
  BY DEF Identity, Recalls
<1>5. Knows(p, Settle(r)) /\ Handles(p, Settle(r))
  BY <1>2, <1>3, <1>4 DEF Knows, Handles
<1> QED
  BY <1>1, <1>5

LEMMA IdentityNextUser ==
  ASSUME TypeInv, Identity, NEW p \in Procs, NextUser(p)
  PROVE  Identity'
<1>1. PICK u, plan : job' = [job EXCEPT ![p] =
        [job[p] EXCEPT !.pc = "purge", !.user = u, !.todo = job[p].todo \ {u},
                       !.plan = plan]]
  BY DEF NextUser
<1> DEFINE r == [job[p] EXCEPT !.pc = "purge", !.user = u, !.todo = job[p].todo \ {u},
                               !.plan = plan]
<1>2. job[p] \in Session /\ job[p].pc = "next"
  BY DEF NextUser, TypeInv, Typed
<1>3. r.pc = "purge" /\ r.seen = job[p].seen
  BY <1>2 DEF Session
<1>4. job'[p] = r /\ \A q \in Procs \ {p} : job'[q] = job[q]
  BY <1>1 DEF TypeInv, Typed
<1> HIDE DEF r
<1>5. Knows(p, job[p]) /\ Handles(p, job[p])
  BY DEF Identity, Recalls
<1>6. Knows(p, r) /\ Handles(p, r)
  BY <1>2, <1>3, <1>5 DEF Knows, Handles
<1> QED
  BY <1>4, <1>6, QuietStep, IdentityQuiet

LEMMA IdentityUpsert ==
  ASSUME TypeInv, Locks, Identity, NEW p \in Procs, Upsert(p)
  PROVE  Identity'
<1> DEFINE t == Min(job[p].left)
<1>1. /\ job[p].pc = "upsert"
      /\ \/ job' = [job EXCEPT ![p] = Inserting(p, t)]
         \/ \E i \in Found(p, t) : job' = [job EXCEPT ![p] = Updating(p, t, i)]
         \/ Continues(p, Passed(p, t))
  BY UpsertStep
<1> HIDE DEF t
<1>2. job[p] \in Session /\ job \in [Procs -> Session]
  BY DEF TypeInv, Typed
<1>3. Knows(p, job[p]) /\ Handles(p, job[p])
  BY DEF Identity, Recalls
<1>4. UNCHANGED <<reminders, wrote, erased>>
  BY QuietStep
<1>5. ASSUME job' = [job EXCEPT ![p] = Inserting(p, t)]
      PROVE  Identity'
  <2> DEFINE r == Inserting(p, t)
  <2>1. r.pc = "insert" /\ r.seen = job[p].seen
    BY <1>2 DEF Inserting, Session
  <2>2. job'[p] = r /\ \A q \in Procs \ {p} : job'[q] = job[q]
    BY <1>2, <1>5
  <2> HIDE DEF r
  <2>3. Knows(p, r) /\ Handles(p, r)
    BY <1>1, <1>3, <2>1 DEF Knows, Handles
  <2> QED
    BY <1>4, <2>2, <2>3, IdentityQuiet
<1>6. ASSUME NEW i \in Found(p, t), job' = [job EXCEPT ![p] = Updating(p, t, i)]
      PROVE  Identity'
  <2> DEFINE r == Updating(p, t, i)
  <2>1. r.pc = "update" /\ r.seen = job[p].seen /\ r.row = i
    BY <1>2 DEF Updating, Session
  <2>2. job'[p] = r /\ \A q \in Procs \ {p} : job'[q] = job[q]
    BY <1>2, <1>6
  <2> HIDE DEF r
  <2>3. i \in DOMAIN View(p) /\ View(p)[i].user = job[p].user
    BY DEF Found, Pending
  <2>4. Knows(p, r)
    BY <1>3, <2>1, <2>3, SeenIsKnown DEF Knows
  <2>5. Handles(p, r)
    <3>1. job[p].user \in DOMAIN job[p].seen
      BY <1>1, PlannedStage DEF Planned, Upserting, HasUser
    <3> QED
      BY <1>1, <1>3, <2>1, <2>3, <3>1 DEF Handles
  <2> QED
    BY <1>4, <2>2, <2>4, <2>5, IdentityQuiet
<1>7. ASSUME Continues(p, Passed(p, t)) PROVE Identity'
  BY <1>4, <1>7, ContinuesIdentity, IdentityQuiet
<1> QED
  BY <1>1, <1>5, <1>6, <1>7

LEMMA IdentityStarts ==
  ASSUME TypeInv, Identity,
         \/ \E c \in Recomputes : StartRecompute(c)
         \/ \E p \in Sends : StartSend(p) \/ Tell(p) \/ Drop(p)
         \/ \E h \in Handlers : Click(h) \/ Save(h)
         \/ \E s \in Subs : Hide(s) \/ Reschedule(s)
  PROVE  Identity'
<1>1. UNCHANGED <<reminders, wrote, erased>>
  BY QuietStep
<1>2. /\ job \in [Procs -> Session] /\ Recomputes \subseteq Procs
      /\ Sends \subseteq Procs /\ (Recomputes \cup Sends) \cap Handlers = {}
  BY ConstantTypes DEF TypeInv, Typed
<1>3. \A p \in Procs : Knows(p, job[p]) /\ Handles(p, job[p])
  BY DEF Identity, Recalls
<1>4. ASSUME NEW p \in Procs, NEW r, job' = [job EXCEPT ![p] = r],
             Knows(p, r), Handles(p, r)
      PROVE  Identity'
  <2>1. job'[p] = r /\ \A q \in Procs \ {p} : job'[q] = job[q]
    BY <1>2, <1>4
  <2> QED
    BY <1>1, <1>4, <2>1, IdentityQuiet
<1>5. ASSUME NEW c \in Recomputes, StartRecompute(c) PROVE Identity'
  <2> DEFINE r == [Fresh EXCEPT !.pc = "next", !.seen = setting, !.was = setting,
                     !.todo = {u \in Users : setting[u].policy # "off"}]
  <2>1. r.pc = "next"
    BY DEF Fresh
  <2>2. job' = [job EXCEPT ![c] = r]
    BY <1>5 DEF StartRecompute
  <2> HIDE DEF r
  <2>3. Knows(c, r) /\ Handles(c, r)
    BY <1>2, <2>1 DEF Knows, Handles
  <2> QED
    BY <1>2, <1>4, <2>2, <2>3
<1>6. ASSUME NEW p \in Sends, NEW r, r.pc \in {"tell", "mark"},
             job' = [job EXCEPT ![p] = r]
      PROVE  Identity'
  <2>1. Knows(p, r) /\ Handles(p, r)
    BY <1>2, <1>6 DEF Knows, Handles
  <2> QED
    BY <1>2, <1>4, <1>6, <2>1
<1>7. ASSUME NEW p \in Sends, StartSend(p) \/ Tell(p) PROVE Identity'
  BY <1>6, <1>7, ListingStep, TellingStep
<1>8. ASSUME NEW p \in Sends, Drop(p) PROVE Identity'
  BY <1>6, <1>8, SkippingStep
<1>9. ASSUME NEW h \in Handlers, Click(h) PROVE Identity'
  <2> DEFINE x == [u \in {UserOf[h]} |-> setting[UserOf[h]]]
  <2>1. PICK y \in Setting : job' = [job EXCEPT ![h] =
          [Fresh EXCEPT !.pc = "save", !.was = x, !.seen = [u \in {UserOf[h]} |-> y],
                        !.todo = {UserOf[h]}]]
    BY <1>9 DEF Click
  <2> HIDE DEF x
  <2> DEFINE r == [Fresh EXCEPT !.pc = "save", !.was = x,
                     !.seen = [u \in {UserOf[h]} |-> y], !.todo = {UserOf[h]}]
  <2>2. r.pc = "save" /\ DOMAIN r.seen = {UserOf[h]}
    BY DEF Fresh
  <2>3. h \in Procs /\ job' = [job EXCEPT ![h] = r]
    BY <2>1, ConstantTypes
  <2> HIDE DEF r
  <2>4. Knows(h, r) /\ Handles(h, r)
    BY <2>2, EmptyIsTyped DEF Knows, Handles
  <2> QED
    BY <1>4, <2>3, <2>4
<1>10. ASSUME NEW h \in Handlers, Save(h) PROVE Identity'
  <2> DEFINE r == [job[h] EXCEPT !.pc = "next"]
  <2>1. h \in Procs /\ job' = [job EXCEPT ![h] = r] /\ job[h].pc = "save"
    BY <1>10, ConstantTypes DEF Save, Goto
  <2>2. r.pc = "next" /\ r.seen = job[h].seen
    BY <1>2, <2>1 DEF Session
  <2> HIDE DEF r
  <2>3. Knows(h, r) /\ Handles(h, r)
    BY <1>3, <2>1, <2>2 DEF Knows, Handles
  <2> QED
    BY <1>4, <2>1, <2>3
<1>11. ASSUME NEW s \in Subs, Hide(s) \/ Reschedule(s) PROVE Identity'
  BY <1>1, <1>11, IdentitySame DEF Hide, Reschedule, Edit
<1> QED
  BY <1>5, <1>6, <1>7, <1>8, <1>9, <1>10, <1>11

LEMMA IdentityWrite ==
  ASSUME TypeInv, Locks, Identity, NEW p \in Procs, NEW i \in Nat, NEW r \in Row,
         Writes(p, i, r), Version(p, i, r),
         \A q \in Procs \ {p} : i \in DOMAIN reminders \cup DOMAIN wrote[p]
                                  \/ i \notin Named(q),
         \A q \in Procs \ {p} : job'[q] = job[q],
         job'[p].pc \notin {"idle", "update"}, job'[p].seen = job[p].seen, job[p].pc # "idle"
  PROVE  Identity'
<1>1. UNCHANGED <<reminders, erased>> /\ wrote' = [wrote EXCEPT ![p] = Put(wrote[p], i, r)]
  BY WritesStep
<1>2. \A q \in Procs : wrote'[q] = IF q = p THEN Put(wrote[p], i, r) ELSE wrote[q]
  BY <1>1 DEF TypeInv, Typed
<1>3. /\ DOMAIN Put(wrote[p], i, r) = DOMAIN wrote[p] \cup {i}
      /\ Put(wrote[p], i, r)[i] = r
      /\ \A x \in DOMAIN wrote[p] \ {i} : Put(wrote[p], i, r)[x] = wrote[p][x]
  BY DEF Put
<1>4. Versions'
  <2>1. ASSUME NEW q \in Procs, NEW x \in DOMAIN wrote'[q] PROVE Version(q, x, wrote'[q][x])
    <3>1. CASE q = p /\ x = i
      BY <1>2, <1>3, <3>1
    <3>2. CASE q # p \/ x # i
      <4>1. x \in DOMAIN wrote[q] /\ wrote'[q][x] = wrote[q][x]
        BY <1>2, <1>3, <2>1, <3>2
      <4> QED
        BY <4>1 DEF Identity, Versions
    <3> QED
      BY <3>1, <3>2
  <2>2. \A x \in DOMAIN reminders' : DigestRow(reminders'[x])
    BY <1>1 DEF Identity, Versions
  <2> QED
    BY <1>1, <2>1, <2>2 DEF Versions, Version, DigestRow, KeyOf
<1>5. (Knows(p, job[p]) /\ Handles(p, job[p]))'
  <2>1. Knows(p, job[p]) /\ Handles(p, job[p])
    BY DEF Identity, Recalls
  <2>2. Knows(p, job[p])'
    BY <1>1, <1>2, <2>1 DEF Knows
  <2>3. Handles(p, job[p])'
    BY <2>1 DEF Handles
  <2> QED
    BY <2>2, <2>3
<1>6. ASSUME NEW q \in Procs \ {p} PROVE Knows(q, job[q])' /\ Handles(q, job[q])'
  <2>1. Knows(q, job[q]) /\ Handles(q, job[q]) /\ job'[q] = job[q]
    BY DEF Identity, Recalls
  <2>2. View(q)' = View(q)
    <3>1. UNCHANGED <<reminders, wrote[q], erased[q]>>
      BY <1>1, <1>2
    <3> QED
      BY <3>1, ViewQuiet
  <2>3. Handles(q, job[q])'
    BY <2>1, <2>2 DEF Handles
  <2>4. ASSUME NEW s \in Procs \ {q}, NEW x \in DOMAIN wrote'[s] \ DOMAIN reminders
        PROVE  job[q].pc = "update" => x # job[q].row
    <3>1. CASE x \in DOMAIN wrote[s]
      BY <2>1, <3>1 DEF Knows
    <3>2. CASE x \notin DOMAIN wrote[s]
      <4>1. s = p /\ x = i
        BY <1>2, <1>3, <2>4, <3>2
      <4>2. i \notin Named(q)
        BY <2>4, <3>2, <4>1
      <4> QED
        BY <4>1, <4>2 DEF Named
    <3> QED
      BY <3>1, <3>2
  <2>5. Knows(q, job[q])'
    BY <1>1, <2>1, <2>4 DEF Knows
  <2> QED
    BY <2>3, <2>5
<1>7. Recalls'
  <2> SUFFICES ASSUME NEW q \in Procs PROVE (Knows(q, job[q]) /\ Handles(q, job[q]))'
    BY DEF Recalls
  <2>1. CASE q = p
    BY <1>5, <2>1
  <2>2. CASE q # p
    BY <1>6, <2>2
  <2> QED
    BY <2>1, <2>2
<1> QED
  BY <1>4, <1>7 DEF Identity

(* A row that p has read is of a version that it may write.                 *)
LEMMA SeenVersion ==
  ASSUME TypeInv, Identity, NEW p \in Procs, NEW i \in DOMAIN View(p)
  PROVE  /\ DigestRow(View(p)[i])
         /\ i \in DOMAIN reminders => KeyOf(View(p)[i]) = KeyOf(reminders[i])
<1>1. i \in DOMAIN reminders \cup DOMAIN wrote[p]
  BY ViewFacts DEF TypeInv, Typed
<1>2. View(p)[i] = IF i \in DOMAIN wrote[p] THEN wrote[p][i] ELSE reminders[i]
  BY ViewFacts DEF TypeInv, Typed
<1>3. CASE i \in DOMAIN wrote[p]
  BY <1>2, <1>3 DEF Identity, Versions, Version
<1>4. CASE i \notin DOMAIN wrote[p]
  BY <1>1, <1>2, <1>4 DEF Identity, Versions
<1> QED
  BY <1>3, <1>4

LEMMA MovesOn ==
  ASSUME TypeInv, NEW p \in Procs, job[p].pc \in {"insert", "update"}, NextTarget(p)
  PROVE  /\ \A q \in Procs \ {p} : job'[q] = job[q]
         /\ job'[p].pc \notin {"idle", "update"} /\ job[p].pc # "idle"
         /\ job'[p].seen = job[p].seen
<1>1. Continues(p, Moved(p))
  BY NextTargetStep
<1>2. Unsettled(Moved(p)) /\ Moved(p).seen = job[p].seen
  BY <1>1 DEF Continues
<1>3. job'[p] = Settle(Moved(p)) /\ \A q \in Procs \ {p} : job'[q] = job[q]
  BY <1>1, SettledStep
<1> QED
  BY <1>2, <1>3, SettleFacts

LEMMA IdentityInsert ==
  ASSUME TypeInv, Locks, Identity, NEW p \in Procs, Insert(p)
  PROVE  Identity'
<1>1. job[p].pc = "insert" /\ NextTarget(p) /\ Writes(p, NewId, NewRow(p))
  BY DEF Insert, NewRow
<1>2. /\ NewId \in Nat /\ NewId \notin DOMAIN reminders
      /\ \A q \in Procs : NewId \notin Named(q)
  BY NewIdIsNew DEF TypeInv
<1>3. /\ NewRow(p) \in Row /\ job[p].at \in DOMAIN job[p].plan
      /\ job[p].seen[job[p].user].policy \in Kinds
  BY <1>1, TargetAtHand
<1>4. p \notin Sends /\ HasUser(job[p])
  BY <1>1, PlannedStage DEF Planned, Upserting
<1>5. DigestRow(NewRow(p))
  BY <1>3, <1>4 DEF DigestRow, NewRow, HasUser, PlanFits, Kinds
<1>6. p \in Handlers => NewRow(p).user = UserOf[p]
  <2>1. Handles(p, job[p])
    BY DEF Identity, Recalls
  <2> QED
    BY <1>1, <1>4, <2>1 DEF Handles, HasUser, NewRow
<1>7. Version(p, NewId, NewRow(p))
  BY <1>2, <1>4, <1>5, <1>6 DEF Version
<1>8. /\ \A q \in Procs \ {p} : job'[q] = job[q]
      /\ job'[p].pc \notin {"idle", "update"} /\ job[p].pc # "idle"
      /\ job'[p].seen = job[p].seen
  BY <1>1, MovesOn
<1> QED
  BY <1>1, <1>2, <1>3, <1>7, <1>8, IdentityWrite

LEMMA IdentityUpdate ==
  ASSUME TypeInv, Locks, Identity, NEW p \in Procs, Update(p)
  PROVE  Identity'
<1> DEFINE i == job[p].row
           r == [View(p)[i] EXCEPT !.fire = job[p].plan[job[p].at]]
<1>1. /\ job[p].pc = "update" /\ NextTarget(p) /\ i \in DOMAIN View(p)
      /\ Writes(p, i, r)
  BY DEF Update
<1>2. i \in Nat /\ View(p)[i] \in Row
  BY <1>1, SeenRow
<1>3. job[p].plan[job[p].at] \in Nat
  BY <1>1, TargetAtHand
<1>4. /\ r \in Row /\ r.kind = View(p)[i].kind /\ r.sub = View(p)[i].sub
      /\ r.user = View(p)[i].user
  BY <1>2, <1>3 DEF Row
<1>5. i \in DOMAIN reminders \cup DOMAIN wrote[p]
  BY <1>1, ViewFacts DEF TypeInv, Typed
<1>6. p \notin Sends
  BY <1>1, PlannedStage DEF Planned, Upserting
<1> HIDE DEF r
<1>7. Version(p, i, r)
  <2>1. /\ DigestRow(View(p)[i])
        /\ i \in DOMAIN reminders => KeyOf(View(p)[i]) = KeyOf(reminders[i])
    BY <1>1, SeenVersion
  <2>2. DigestRow(r) /\ KeyOf(r) = KeyOf(View(p)[i])
    BY <1>4, <2>1 DEF DigestRow, KeyOf
  <2>3. p \in Handlers => r.user = UserOf[p]
    <3>1. Handles(p, job[p])
      BY DEF Identity, Recalls
    <3> QED
      BY <1>1, <1>4, <3>1 DEF Handles
  <2> QED
    BY <1>6, <2>1, <2>2, <2>3 DEF Version
<1>8. /\ \A q \in Procs \ {p} : job'[q] = job[q]
      /\ job'[p].pc \notin {"idle", "update"} /\ job[p].pc # "idle"
      /\ job'[p].seen = job[p].seen
  BY <1>1, MovesOn
<1> HIDE DEF i
<1> QED
  BY <1>1, <1>2, <1>4, <1>5, <1>7, <1>8, IdentityWrite

LEMMA IdentityMark ==
  ASSUME TypeInv, Locks, Identity, NEW p \in Sends, Mark(p)
  PROVE  Identity'
<1> DEFINE i == job[p].row
           r == [View(p)[i] EXCEPT !.sent = TRUE]
<1>1. /\ i \in Nat /\ i \in DOMAIN View(p) /\ View(p)[i] \in Row /\ Writes(p, i, r)
      /\ job[p].pc = "mark" /\ job' = [job EXCEPT ![p] = Marking(p)]
      /\ Marking(p).pc = "tell" /\ Marking(p).seen = job[p].seen
  BY MarkingStep
<1>2. p \in Procs /\ p \notin Handlers
  BY ConstantTypes
<1>3. /\ r \in Row /\ r.sent /\ r.kind = View(p)[i].kind
      /\ r.sub = View(p)[i].sub /\ r.user = View(p)[i].user
  BY <1>1 DEF Row
<1> HIDE DEF r
<1>4. i \in DOMAIN reminders \cup DOMAIN wrote[p]
  <2>1. p \in Procs /\ reminders \in Tables /\ wrote \in [Procs -> Tables]
    BY <1>2 DEF TypeInv, Typed
  <2>2. DOMAIN View(p) = (DOMAIN reminders \cup DOMAIN wrote[p]) \ erased[p]
    BY <2>1, ViewFacts
  <2> QED
    BY <1>1, <2>2
<1>5. Version(p, i, r)
  <2>1. /\ DigestRow(View(p)[i])
        /\ i \in DOMAIN reminders => KeyOf(View(p)[i]) = KeyOf(reminders[i])
    BY <1>1, <1>2, SeenVersion
  <2>2. DigestRow(r) /\ KeyOf(r) = KeyOf(View(p)[i])
    BY <1>3, <2>1 DEF DigestRow, KeyOf
  <2> QED
    BY <1>2, <1>3, <2>1, <2>2 DEF Version
<1>6. /\ \A q \in Procs \ {p} : job'[q] = job[q]
      /\ job'[p].pc = "tell" /\ job'[p].seen = job[p].seen
  BY <1>1, <1>2 DEF TypeInv, Typed
<1> HIDE DEF i
<1> QED
  BY <1>1, <1>2, <1>3, <1>4, <1>5, <1>6, IdentityWrite

LEMMA IdentityDelete ==
  ASSUME TypeInv, Locks, Identity, NEW p \in Procs, Delete(p)
  PROVE  Identity'
<1>1. PICK i \in Nat : DeleteRow(p, i) /\ Continues(p, Visited(p, i))
  BY DeleteStep
<1>2. UNCHANGED <<reminders, wrote>> /\ \A q \in Procs \ {p} : erased'[q] = erased[q]
  BY <1>1 DEF DeleteRow, TypeInv, Typed
<1>3. Versions'
  BY <1>2, VersionsQuiet DEF Identity
<1>4. /\ \A q \in Procs \ {p} : job'[q] = job[q]
      /\ Knows(p, job'[p]) /\ Handles(p, job'[p]) /\ job'[p].pc # "update"
  <2>1. job'[p] = Settle(Visited(p, i)) /\ Unsettled(Visited(p, i))
    BY <1>1, SettledStep DEF Continues
  <2>2. job'[p].pc # "update"
    BY <2>1, SettleFacts
  <2> QED
    BY <1>1, <2>2, ContinuesIdentity
<1>5. ASSUME NEW q \in Procs PROVE (Knows(q, job[q]) /\ Handles(q, job[q]))'
  <2>1. CASE q = p
    BY <1>2, <1>4, <2>1 DEF Knows, Handles
  <2>2. CASE q # p
    <3>1. Knows(q, job[q]) /\ Handles(q, job[q]) /\ job'[q] = job[q]
      BY <1>4, <2>2 DEF Identity, Recalls
    <3>2. View(q)' = View(q)
      BY <1>2, <2>2, ViewQuiet
    <3> QED
      BY <1>2, <3>1, <3>2 DEF Knows, Handles
  <2> QED
    BY <2>1, <2>2
<1> QED
  BY <1>3, <1>5 DEF Identity, Recalls

LEMMA IdentityClose ==
  ASSUME TypeInv, Identity, NEW p \in Procs, Close(p), UNCHANGED reminders
  PROVE  Identity'
<1>1. ClosesOnly(p)
  BY CloseFacts
<1>2. Versions'
  BY <1>1, EmptyIsTyped DEF ClosesOnly, Identity, Versions, Version, DigestRow
<1>3. ASSUME NEW q \in Procs PROVE (Knows(q, job[q]) /\ Handles(q, job[q]))'
  <2>1. CASE q = p
    BY <1>1, <2>1, FreshIsTyped, EmptyIsTyped DEF ClosesOnly, Knows, Handles
  <2>2. CASE q # p
    <3>1. /\ Knows(q, job[q]) /\ Handles(q, job[q]) /\ job'[q] = job[q]
          /\ wrote'[q] = wrote[q] /\ erased'[q] = erased[q]
      BY <1>1, <2>2 DEF Identity, Recalls, ClosesOnly
    <3>2. View(q)' = View(q)
      BY <3>1, ViewQuiet
    <3>3. \A s \in Procs : DOMAIN wrote'[s] \subseteq DOMAIN wrote[s]
      BY <1>1, EmptyIsTyped DEF ClosesOnly
    <3> QED
      BY <3>1, <3>2, <3>3 DEF Knows, Handles
  <2> QED
    BY <2>1, <2>2
<1> QED
  BY <1>2, <1>3 DEF Identity, Recalls

LEMMA IdentityCommit ==
  ASSUME TypeInv, Locks, Identity, NEW p \in Procs, Commit(p)
  PROVE  Identity'
<1>1. /\ DOMAIN reminders' = (DOMAIN reminders \cup DOMAIN wrote[p]) \ erased[p]
      /\ \A i \in DOMAIN reminders' :
           reminders'[i] = IF i \in DOMAIN wrote[p] THEN wrote[p][i] ELSE reminders[i]
      /\ ClosesOnly(p)
  BY CommitFacts
<1>2. \A q \in Procs \ {p} : \A i \in DOMAIN wrote[q] :
        i \notin DOMAIN wrote[p] /\ i \notin erased[p]
  BY DEF Locks, Exclusive, Held
<1>3. \A q \in Procs \ {p} : \A i \in DOMAIN wrote[q] :
        /\ i \in DOMAIN reminders' <=> i \in DOMAIN reminders
        /\ i \in DOMAIN reminders' => reminders'[i] = reminders[i]
  BY <1>1, <1>2
<1>4. Versions'
  <2>1. \A i \in DOMAIN reminders' : DigestRow(reminders'[i])
    BY <1>1 DEF Identity, Versions, Version
  <2>2. ASSUME NEW q \in Procs, NEW i \in DOMAIN wrote'[q]
        PROVE  Version(q, i, wrote[q][i])'
    <3>1. q # p /\ wrote'[q] = wrote[q]
      BY <1>1, <2>2, EmptyIsTyped DEF ClosesOnly
    <3>2. Version(q, i, wrote[q][i])
      BY <2>2, <3>1 DEF Identity, Versions
    <3> QED
      BY <1>3, <2>2, <3>1, <3>2 DEF Version, DigestRow
  <2>3. (\A i \in DOMAIN reminders : DigestRow(reminders[i]))'
    BY <2>1 DEF DigestRow
  <2> QED
    BY <2>2, <2>3 DEF Versions
<1>5. ASSUME NEW q \in Procs PROVE (Knows(q, job[q]) /\ Handles(q, job[q]))'
  <2>1. CASE q = p
    BY <1>1, <2>1, FreshIsTyped, EmptyIsTyped DEF ClosesOnly, Knows, Handles
  <2>2. CASE q # p
    <3>1. /\ Knows(q, job[q]) /\ Handles(q, job[q]) /\ job'[q] = job[q]
          /\ wrote'[q] = wrote[q] /\ erased'[q] = erased[q]
      BY <1>1, <2>2 DEF Identity, Recalls, ClosesOnly
    <3>2. Knows(q, job[q])'
      <4>1. \A s \in Procs : s # p => wrote'[s] = wrote[s]
        BY <1>1 DEF ClosesOnly
      <4>2. DOMAIN wrote'[p] = {}
        BY <1>1, EmptyIsTyped DEF ClosesOnly
      <4>3. \A s \in Procs : DOMAIN wrote'[s] \ DOMAIN reminders'
                               \subseteq DOMAIN wrote[s] \ DOMAIN reminders
        BY <1>3, <4>1, <4>2
      <4> QED
        BY <3>1, <4>3 DEF Knows
    <3>3. Handles(q, job[q])'
      <4> DEFINE i == job[q].row
      <4> SUFFICES ASSUME q \in Handlers, job[q].pc = "update", i \in DOMAIN View(q)'
                   PROVE  View(q)'[i].user = UserOf[q]
        BY <3>1 DEF Handles
      <4>1. /\ DOMAIN View(q)' = (DOMAIN reminders' \cup DOMAIN wrote[q]) \ erased[q]
            /\ View(q)'[i] = IF i \in DOMAIN wrote[q] THEN wrote[q][i] ELSE reminders'[i]
        BY <3>1 DEF View
      <4>2. /\ DOMAIN View(q) = (DOMAIN reminders \cup DOMAIN wrote[q]) \ erased[q]
            /\ i \in DOMAIN View(q) =>
                 View(q)[i] = IF i \in DOMAIN wrote[q] THEN wrote[q][i] ELSE reminders[i]
        BY DEF View
      <4>3. i \in DOMAIN View(q) => View(q)[i].user = UserOf[q]
        BY <3>1 DEF Handles
      <4>4. CASE i \in DOMAIN wrote[q]
        BY <4>1, <4>2, <4>3, <4>4
      <4>5. CASE i \notin DOMAIN wrote[q] /\ i \in DOMAIN wrote[p]
        <5>1. i \in DOMAIN reminders
          BY <2>2, <3>1, <4>5 DEF Knows
        <5>2. KeyOf(wrote[p][i]) = KeyOf(reminders[i])
          BY <4>5, <5>1 DEF Identity, Versions, Version
        <5>3. reminders'[i].user = reminders[i].user
          BY <1>1, <4>1, <4>5, <5>2 DEF KeyOf
        <5> QED
          BY <4>1, <4>2, <4>3, <4>5, <5>1, <5>3
      <4>6. CASE i \notin DOMAIN wrote[q] /\ i \notin DOMAIN wrote[p]
        BY <1>1, <4>1, <4>2, <4>3, <4>6
      <4> QED
        BY <4>4, <4>5, <4>6
    <3> QED
      BY <3>2, <3>3
  <2> QED
    BY <2>1, <2>2
<1> QED
  BY <1>4, <1>5 DEF Identity, Recalls

(* The clock forgets rows that were sent and leaves of the others all but   *)
(* the fire time.                                                           *)
LEMMA TickRows ==
  ASSUME TypeInv, Tick
  PROVE  \A i \in DOMAIN reminders' :
           /\ i \in DOMAIN reminders /\ KeyOf(reminders'[i]) = KeyOf(reminders[i])
           /\ reminders'[i].user = reminders[i].user
           /\ reminders'[i].sub = reminders[i].sub
           /\ reminders'[i].kind = reminders[i].kind
           /\ reminders'[i].sent = reminders[i].sent
<1>1. DOMAIN reminders' = Kept /\ \A i \in Kept : reminders'[i] = Closer(reminders[i])
  BY TickStep
<1>2. \A i \in Kept : i \in DOMAIN reminders /\ reminders[i] \in Row
  BY TableFacts DEF TypeInv, Typed, Kept
<1> QED
  BY <1>1, <1>2, CloserFacts DEF KeyOf

(* An open transaction sees the rows it saw, an hour later.                 *)
LEMMA TickView ==
  ASSUME TypeInv, Tick, NEW p \in Procs, NEW i \in DOMAIN View(p)'
  PROVE  /\ i \in DOMAIN View(p) /\ View(p)[i] \in Row
         /\ View(p)'[i] = Closer(View(p)[i])
<1>1. /\ DOMAIN reminders' = Kept /\ \A x \in Kept : reminders'[x] = Closer(reminders[x])
      /\ DOMAIN wrote'[p] = DOMAIN wrote[p]
      /\ \A x \in DOMAIN wrote[p] : wrote'[p][x] = Closer(wrote[p][x])
      /\ erased' = erased /\ Kept \subseteq DOMAIN reminders
  BY TickStep DEF Tick, Kept
<1>2. i \in (Kept \cup DOMAIN wrote[p]) \ erased[p]
  BY <1>1 DEF View
<1>3. i \in DOMAIN View(p)
  BY <1>1, <1>2 DEF View
<1>4. View(p)[i] = IF i \in DOMAIN wrote[p] THEN wrote[p][i] ELSE reminders[i]
  BY <1>3 DEF View
<1>5. View(p)'[i] = IF i \in DOMAIN wrote[p] THEN wrote'[p][i] ELSE reminders'[i]
  BY <1>1 DEF View
<1> QED
  BY <1>1, <1>2, <1>3, <1>4, <1>5, SeenRow

LEMMA IdentityTick == TypeInv /\ Identity /\ Tick => Identity'
<1> SUFFICES ASSUME TypeInv, Identity, Tick PROVE Identity'
  OBVIOUS
<1>1. /\ DOMAIN reminders' = Kept /\ Kept \subseteq DOMAIN reminders
      /\ \A p \in Procs : DOMAIN wrote'[p] = DOMAIN wrote[p]
      /\ \A p \in Procs : \A i \in DOMAIN wrote[p] : wrote'[p][i] = Closer(wrote[p][i])
      /\ \A p \in Procs : job'[p] = IF Open(p) THEN Later(job[p]) ELSE job[p]
  BY TickStep DEF Kept
<1>2. \A p \in Procs : DOMAIN wrote[p] \cap DOMAIN reminders \subseteq Kept
  BY DEF Kept, Named
<1>3. \A p \in Procs : \A i \in DOMAIN wrote[p] :
        /\ KeyOf(wrote'[p][i]) = KeyOf(wrote[p][i]) /\ wrote'[p][i].user = wrote[p][i].user
        /\ wrote'[p][i].sent = wrote[p][i].sent
        /\ DigestRow(wrote[p][i]) => DigestRow(wrote'[p][i])
  BY <1>1, TableFacts, CloserFacts DEF TypeInv, Typed, KeyOf, DigestRow
<1>4. Versions'
  <2>1. \A i \in DOMAIN reminders' : DigestRow(reminders'[i])
    BY TickRows DEF Identity, Versions, DigestRow
  <2>2. ASSUME NEW p \in Procs, NEW i \in DOMAIN wrote'[p]
        PROVE  Version(p, i, wrote[p][i])'
    <3>1. i \in DOMAIN wrote[p] /\ Version(p, i, wrote[p][i])
      BY <1>1, <2>2 DEF Identity, Versions
    <3>2. i \in DOMAIN reminders' => KeyOf(reminders'[i]) = KeyOf(reminders[i])
      BY TickRows
    <3> QED
      BY <1>1, <1>3, <3>1, <3>2 DEF Version, DigestRow, KeyOf
  <2>3. (\A i \in DOMAIN reminders : DigestRow(reminders[i]))'
    BY <2>1 DEF DigestRow
  <2> QED
    BY <2>2, <2>3 DEF Versions
<1>5. ASSUME NEW p \in Procs PROVE (Knows(p, job[p]) /\ Handles(p, job[p]))'
  <2>1. Knows(p, job[p]) /\ Handles(p, job[p])
    BY DEF Identity, Recalls
  <2>2. /\ job'[p].pc = job[p].pc /\ job'[p].row = job[p].row
        /\ job'[p].seen = job[p].seen
    BY <1>1, LaterFacts DEF TypeInv, Typed
  <2>3. Knows(p, job[p])'
    BY <1>1, <1>2, <2>1, <2>2 DEF Knows
  <2>4. Handles(p, job[p])'
    BY <2>1, <2>2, TickView, CloserFacts DEF Handles
  <2> QED
    BY <2>3, <2>4
<1> QED
  BY <1>4, <1>5 DEF Identity, Recalls

LEMMA IdentityStep == TypeInv /\ Locks /\ Identity /\ [Next]_vars => Identity'
<1> SUFFICES ASSUME TypeInv, Locks, Identity, [Next]_vars PROVE Identity'
  OBVIOUS
<1>1. CASE UNCHANGED vars
  BY <1>1, IdentitySame DEF vars, table
<1>2. ASSUME NEW p \in Procs, Work(p) \/ Fail(p) PROVE Identity'
  <2>1. CASE UpsertRaises(p) \/ FlushRaises(p) \/ Abort(p) \/ Fail(p)
    BY <2>1, IdentityClose DEF UpsertRaises, FlushRaises, Abort, Fail, Rollback
  <2>2. CASE Purge(p) \/ Stale(p)
    BY <2>2, QuietStep, PurgeStep, StaleStep, ContinuesIdentity, IdentityQuiet
  <2> QED
    BY <1>2, <2>1, <2>2, IdentityNextUser, IdentityUpsert, IdentityInsert,
       IdentityUpdate, IdentityDelete, IdentityCommit DEF Work, Recompute
<1> QED
  BY <1>1, <1>2, IdentityStarts, IdentityMark, IdentityTick DEF Next

LEMMA IdentityInit == Init => Identity
BY EmptyIsTyped, FreshIsTyped
   DEF Init, Identity, Versions, Recalls, Knows, Handles, DigestRow

(* A reminder is the same reminder as long as a session names its id.       *)
THEOREM RowsAreKnown == Spec => []Identity
<1>1. Init => Identity
  BY IdentityInit
<1>2. TypeInv /\ Locks /\ Identity /\ [Next]_vars => Identity'
  BY IdentityStep
<1> QED
  BY <1>1, <1>2, RemindersTypesHold, RowsAreLocked, PTL DEF Spec

-----------------------------------------------------------------------------
(* The recomputes.  Users whose settings nobody handles are known to each   *)
(* as they are, if it runs alone, and it has made their reminders what they *)
(* should be once they are behind it.                                       *)
Touches(c) ==
  Open(c) =>
    /\ \A d \in Recomputes \ {c} : Open(d) => touched[c] = Users
    /\ \A h \in Handlers : Open(h) => UserOf[h] \in touched[c]
    /\ DOMAIN job[c].seen = Users
    /\ \A u \in Users \ touched[c] : setting[u] = job[c].seen[u]

AllOf(f, u, k) == \A i \in Pending(f, u) : f[i].kind = k
DoneFor(f, u, S, lag) ==
  \A i \in Pending(f, u) : f[i].sub \in S =>
    /\ lag = 0 => f[i].fire > 0
    /\ \A j \in Pending(f, u) : f[j].sub = f[i].sub => i = j
Repaired(f, u, k, lag) == AllOf(f, u, k) /\ DoneFor(f, u, Targets, lag)

(* How far the session r is with the user at hand, in the table f.          *)
Policy(r, u) == r.seen[u].policy
AtHand(f, r) == LET u == r.user  k == Policy(r, r.user) IN
  /\ r.pc = "purging" => \A i \in Pending(f, u) : f[i].kind # k => i \in r.hits
  /\ r.pc \in Upserting \cup {"stale", "staling"} =>
       AllOf(f, u, k) /\ DoneFor(f, u, DOMAIN r.plan \ r.left, r.lag)
  /\ r.pc = "insert" => \A i \in Pending(f, u) : f[i].sub # r.at
  /\ r.pc = "update" => \A i \in Pending(f, u) : f[i].sub = r.at => i = r.row
  /\ r.pc = "staling" =>
       \A i \in Pending(f, u) : f[i].sub \notin DOMAIN r.plan => i \in r.hits
Progress(f, r, S) ==
  /\ \A u \in Users \ S :
       (/\ u \notin r.todo /\ Policy(r, u) # "off"
        /\ ~ (r.pc \in Planned /\ u = r.user)) => Repaired(f, u, Policy(r, u), r.lag)
  /\ (r.pc \in Planned /\ r.user \notin S) => AtHand(f, r)
Advance(c) == Open(c) => Progress(View(c), job[c], touched[c])

(* A step that opens no session but a handler's that c is to know of.       *)
LEMMA TouchesKept ==
  ASSUME NEW c \in Recomputes, Touches(c),
         touched[c] \subseteq touched'[c], touched'[c] \subseteq Users,
         \A u \in Users \ touched'[c] : setting'[u] = setting[u],
         Open(c)' => Open(c) /\ job'[c].seen = job[c].seen,
         \A d \in Recomputes : Open(d)' => Open(d),
         \A h \in Handlers : Open(h)' => Open(h) \/ UserOf[h] \in touched'[c]
  PROVE  Touches(c)'
BY DEF Touches

(* A step of a recompute keeps the settings that the session has read.      *)
Goes(p) == /\ Open(p) /\ Open(p)' /\ job'[p].seen = job[p].seen
           /\ \A q \in Procs \ {p} : job'[q] = job[q]
           /\ UNCHANGED <<setting, touched>>
LEMMA RecomputeGoes ==
  ASSUME TypeInv, NEW p \in Procs,
         NextUser(p) \/ Purge(p) \/ Delete(p) \/ Upsert(p) \/ Insert(p) \/ Update(p)
           \/ Stale(p)
  PROVE  Goes(p)
<1>1. UNCHANGED <<setting, touched>>
  BY DEF NextUser, Purge, Delete, Upsert, Insert, Update, Stale
<1>2. job \in [Procs -> Session]
  BY DEF TypeInv, Typed
<1>3. ASSUME NEW r, r.pc # "idle", r.seen = job[p].seen, job[p].pc # "idle",
             job' = [job EXCEPT ![p] = r]
      PROVE  Goes(p)
  BY <1>1, <1>2, <1>3 DEF Goes, Open
<1>4. ASSUME NEW r, Continues(p, r) PROVE Goes(p)
  <2>1. job'[p] = Settle(r) /\ job'[p].pc # "idle" /\ \A q \in Procs \ {p} : job'[q] = job[q]
    BY <1>4, SettledStep
  <2>2. Unsettled(r) /\ r.seen = job[p].seen /\ job[p].pc # "idle"
    BY <1>4 DEF Continues, Planned, Upserting
  <2>3. Settle(r).seen = r.seen
    BY <2>2, SettleFacts
  <2> QED
    BY <1>1, <2>1, <2>2, <2>3 DEF Goes, Open
<1>5. CASE NextUser(p)
  <2>1. PICK u, plan : job' = [job EXCEPT ![p] =
          [job[p] EXCEPT !.pc = "purge", !.user = u, !.todo = job[p].todo \ {u},
                         !.plan = plan]]
    BY <1>5 DEF NextUser
  <2> DEFINE r == [job[p] EXCEPT !.pc = "purge", !.user = u, !.todo = job[p].todo \ {u},
                                 !.plan = plan]
  <2>2. r.pc = "purge" /\ r.seen = job[p].seen
    BY <1>2 DEF Session
  <2>3. job[p].pc # "idle"
    BY <1>5 DEF NextUser
  <2> HIDE DEF r
  <2> QED
    BY <1>3, <2>1, <2>2, <2>3 DEF r
<1>6. CASE Purge(p) \/ Stale(p)
  BY <1>4, <1>6, PurgeStep, StaleStep
<1>7. CASE Delete(p)
  BY <1>4, <1>7, DeleteStep
<1>8. CASE Insert(p) \/ Update(p)
  BY <1>4, <1>8, NextTargetStep DEF Insert, Update
<1>9. CASE Upsert(p)
  <2> DEFINE t == Min(job[p].left)
  <2>1. /\ job[p].pc = "upsert"
        /\ \/ job' = [job EXCEPT ![p] = Inserting(p, t)] /\ Inserting(p, t).pc = "insert"
           \/ \E i \in Found(p, t) : /\ job' = [job EXCEPT ![p] = Updating(p, t, i)]
                                     /\ Updating(p, t, i).pc = "update"
           \/ Continues(p, Passed(p, t))
    BY <1>9, UpsertStep
  <2> HIDE DEF t
  <2>2. Inserting(p, t).seen = job[p].seen /\ \A i : Updating(p, t, i).seen = job[p].seen
    BY <1>2 DEF Inserting, Updating, Session
  <2> QED
    BY <1>3, <1>4, <2>1, <2>2
<1> QED
  BY <1>5, <1>6, <1>7, <1>8, <1>9

LEMMA CloseTouched ==
  ASSUME TypeInv, NEW p \in Procs, Close(p), NEW c \in Recomputes
  PROVE  /\ ClosesOnly(p) /\ touched'[c] = (IF c = p THEN {} ELSE touched[c])
         /\ \A q \in Procs : Open(q)' => Open(q) /\ q # p
<1>1. ClosesOnly(p) /\ touched'[c] = IF c = p THEN {} ELSE touched[c]
  BY CloseFacts DEF Close
<1> QED
  BY <1>1, FreshIsTyped DEF ClosesOnly, Open

LEMMA TouchesClose ==
  ASSUME TypeInv, NEW c \in Recomputes, Touches(c), NEW p \in Procs, Close(p),
         \A u \in Users : u \in touched[c] \/ p = c \/ setting'[u] = setting[u]
  PROVE  Touches(c)'
<1>1. /\ ClosesOnly(p) /\ touched'[c] = IF c = p THEN {} ELSE touched[c]
      /\ \A q \in Procs : Open(q)' => Open(q) /\ q # p
      /\ touched[c] \subseteq Users
  BY CloseTouched DEF TypeInv, Typed
<1>2. CASE p = c
  BY <1>1, <1>2, ConstantTypes DEF Touches
<1>3. CASE p # c
  <2>1. job'[c] = job[c]
    BY <1>1, <1>3, ConstantTypes DEF ClosesOnly
  <2> QED
    BY <1>1, <1>3, <2>1, ConstantTypes, TouchesKept
<1> QED
  BY <1>2, <1>3

LEMMA StartTouched ==
  ASSUME TypeInv, NEW c \in Recomputes, NEW d \in Recomputes, StartRecompute(d)
  PROVE  /\ ~Open(d) /\ setting' = setting
         /\ \A q \in Procs \ {d} : job'[q] = job[q]
         /\ job'[d].seen = setting
         /\ c # d => touched'[c] = IF Open(c) THEN Users ELSE touched[c]
         /\ (c = d /\ \E b \in Recomputes \ {d} : Open(b)) => touched'[c] = Users
         /\ (c = d /\ \A b \in Recomputes \ {d} : ~Open(b)) =>
              \A h \in Handlers : Open(h) => UserOf[h] \in touched'[c]
<1> DEFINE others == {b \in Recomputes \ {d} : Open(b)}
<1>1. ~Open(d) /\ setting' = setting
  BY DEF StartRecompute, Starts
<1>2. \A q \in Procs \ {d} : job'[q] = job[q]
  BY DEF StartRecompute, TypeInv, Typed
<1>3. job'[d].seen = setting
  BY ConstantTypes DEF StartRecompute, Fresh, TypeInv, Typed
<1>4. touched'[c] = CASE c \in others -> Users
                      [] c = d /\ others # {} -> Users
                      [] c = d /\ others = {} ->
                           {UserOf[h] : h \in {h \in Handlers : Open(h)}}
                      [] OTHER -> touched[c]
  BY DEF StartRecompute
<1>5. c # d => touched'[c] = IF Open(c) THEN Users ELSE touched[c]
  BY <1>4
<1>6. (c = d /\ others # {}) => touched'[c] = Users
  BY <1>4
<1>7. (c = d /\ others = {}) => touched'[c] = {UserOf[h] : h \in {h \in Handlers : Open(h)}}
  BY <1>4
<1> QED
  BY <1>1, <1>2, <1>3, <1>5, <1>6, <1>7

LEMMA TouchesStart ==
  ASSUME TypeInv, NEW c \in Recomputes, Touches(c), NEW d \in Recomputes, StartRecompute(d)
  PROVE  Touches(c)'
<1>1. /\ ~Open(d) /\ setting' = setting /\ DOMAIN setting = Users
      /\ \A q \in Procs \ {d} : Open(q)' <=> Open(q)
      /\ Recomputes \subseteq Procs /\ Handlers \subseteq Procs /\ d \notin Handlers
      /\ UserOf \in [Handlers -> Users]
  BY StartTouched, ConstantTypes, RemindersAssumption DEF Open, TypeInv, Typed
<1>2. CASE c # d
  <2>1. job'[c] = job[c] /\ (Open(c)' <=> Open(c))
    BY <1>1, <1>2, StartTouched
  <2>2. Open(c) => touched'[c] = Users
    BY <1>2, StartTouched
  <2> QED
    BY <1>1, <2>1, <2>2 DEF Touches
<1>3. CASE c = d /\ \E b \in Recomputes \ {d} : Open(b)
  <2>1. touched'[c] = Users /\ job'[c].seen = setting
    BY <1>3, StartTouched
  <2> QED
    BY <1>1, <2>1 DEF Touches
<1>4. CASE c = d /\ \A b \in Recomputes \ {d} : ~Open(b)
  <2>1. /\ \A h \in Handlers : Open(h) => UserOf[h] \in touched'[c]
        /\ job'[c].seen = setting
    BY <1>4, StartTouched
  <2> QED
    BY <1>1, <1>4, <2>1 DEF Touches
<1> QED
  BY <1>2, <1>3, <1>4

LEMMA TouchesStep ==
  ASSUME TypeInv, NEW c \in Recomputes, Touches(c), [Next]_vars
  PROVE  Touches(c)'
<1>1. /\ job \in [Procs -> Session] /\ Recomputes \subseteq Procs /\ Sends \subseteq Procs
      /\ Handlers \subseteq Procs /\ (Recomputes \cup Sends) \cap Handlers = {}
      /\ Recomputes \cap Sends = {} /\ touched[c] \subseteq Users
      /\ UserOf \in [Handlers -> Users]
  BY ConstantTypes, RemindersAssumption DEF TypeInv, Typed
<1>2. ASSUME UNCHANGED <<touched, setting>>,
             \A q \in Procs : (Open(q)' => Open(q)) /\ job'[q].seen = job[q].seen
      PROVE  Touches(c)'
  BY <1>1, <1>2, TouchesKept
<1>3. CASE UNCHANGED <<job, touched, setting>>
  BY <1>2, <1>3 DEF Open
<1>4. ASSUME NEW d \in Recomputes, StartRecompute(d) PROVE Touches(c)'
  BY <1>4, TouchesStart
<1>5. ASSUME NEW p \in Sends, StartSend(p) \/ Tell(p) \/ Drop(p) \/ Mark(p)
      PROVE  Touches(c)'
  <2>1. UNCHANGED <<touched, setting>>
    BY <1>5 DEF StartSend, Tell, Drop, Mark
  <2>2. \A q \in Procs \ {p} : job'[q] = job[q]
    BY <1>1, <1>5 DEF StartSend, Tell, Drop, Mark, Marked
  <2>3. \A q \in Recomputes \cup Handlers : job'[q] = job[q]
    BY <1>1, <2>2
  <2> QED
    BY <1>1, <2>1, <2>3, TouchesKept DEF Open
<1>6. ASSUME NEW h \in Handlers, Click(h) PROVE Touches(c)'
  <2>1. /\ touched'[c] = IF Open(c) THEN touched[c] \cup {UserOf[h]} ELSE touched[c]
        /\ setting' = setting /\ \A q \in Procs \ {h} : job'[q] = job[q]
    BY <1>1, <1>6 DEF Click
  <2>2. \A d \in Recomputes : job'[d] = job[d]
    BY <1>1, <2>1
  <2>3. CASE ~Open(c)
    BY <2>2, <2>3 DEF Touches, Open
  <2>4. CASE Open(c)
    <3>1. touched[c] \subseteq touched'[c] /\ touched'[c] \subseteq Users
      BY <1>1, <2>1, <2>4
    <3>2. \A g \in Handlers : Open(g)' => Open(g) \/ UserOf[g] \in touched'[c]
      BY <1>1, <2>1, <2>4 DEF Open
    <3> QED
      BY <2>1, <2>2, <3>1, <3>2, TouchesKept DEF Open
  <2> QED
    BY <2>3, <2>4
<1>7. ASSUME NEW h \in Handlers, Save(h) PROVE Touches(c)'
  <2>1. /\ UNCHANGED <<touched, setting>> /\ \A q \in Procs \ {h} : job'[q] = job[q]
        /\ Open(h)
    BY <1>1, <1>7 DEF Save, Goto, Open
  <2>2. \A d \in Recomputes : job'[d] = job[d]
    BY <1>1, <2>1
  <2> QED
    BY <1>1, <2>1, <2>2, TouchesKept DEF Open
<1>8. ASSUME NEW p \in Procs, Goes(p) PROVE Touches(c)'
  BY <1>2, <1>8 DEF Goes, Open
<1>9. ASSUME NEW p \in Procs, Rollback(p) PROVE Touches(c)'
  BY <1>9, TouchesClose DEF Rollback
<1>10. ASSUME NEW p \in Procs, Commit(p) PROVE Touches(c)'
  <2>1. /\ Open(p) /\ Close(p)
        /\ \A u \in Users : setting'[u] = setting[u] \/ (p \in Handlers /\ u = UserOf[p])
    BY <1>10 DEF Commit, Publish, Open
  <2>2. CASE ~Open(c)
    <3>1. ~Open(c)'
      BY <1>1, <2>1, <2>2, CloseTouched
    <3> QED
      BY <3>1 DEF Touches
  <2>3. CASE Open(c)
    BY <2>1, <2>3, TouchesClose DEF Touches
  <2> QED
    BY <2>2, <2>3
<1>11. ASSUME NEW p \in Procs, Work(p) \/ Fail(p) PROVE Touches(c)'
  BY <1>8, <1>9, <1>10, <1>11, RecomputeGoes
  DEF Work, Recompute, UpsertRaises, FlushRaises, Abort, Fail
<1>12. CASE Tick
  <2>1. UNCHANGED <<touched, setting>>
    BY <1>12 DEF Tick
  <2>2. \A q \in Procs : job'[q] = IF Open(q) THEN Later(job[q]) ELSE job[q]
    BY <1>12, TickStep
  <2>3. \A q \in Procs : job'[q].pc = job[q].pc /\ job'[q].seen = job[q].seen
    BY <1>1, <2>2, LaterFacts
  <2> QED
    BY <1>2, <2>1, <2>3 DEF Open
<1>13. CASE \E s \in Subs : Hide(s) \/ Reschedule(s)
  BY <1>3, <1>13 DEF Hide, Reschedule, Edit
<1>14. CASE UNCHANGED vars
  BY <1>3, <1>14 DEF vars
<1> QED
  BY <1>4, <1>5, <1>6, <1>7, <1>11, <1>12, <1>13, <1>14 DEF Next

-----------------------------------------------------------------------------
(* g holds no pending row of u that f does not, and none that is worse.     *)
Tamer(f, g, u, lag) ==
  \A i \in Pending(g, u) :
    /\ i \in Pending(f, u) /\ g[i].kind = f[i].kind /\ g[i].sub = f[i].sub
    /\ lag = 0 => (f[i].fire > 0 => g[i].fire > 0)

(* s is the session r, perhaps an hour later.                               *)
Resumes(r, s) ==
  /\ s.pc = r.pc /\ s.seen = r.seen /\ s.todo = r.todo /\ s.user = r.user
  /\ DOMAIN s.plan = DOMAIN r.plan /\ s.left = r.left /\ s.at = r.at
  /\ s.row = r.row /\ s.hits = r.hits /\ (s.lag = 0 => r.lag = 0)

LEMMA RepairedLasts ==
  ASSUME NEW f, NEW g, NEW u, NEW k, NEW S, NEW lag, NEW later, Tamer(f, g, u, later),
         later = 0 => lag = 0
  PROVE  /\ AllOf(f, u, k) => AllOf(g, u, k)
         /\ DoneFor(f, u, S, lag) => DoneFor(g, u, S, later)
BY DEF Tamer, AllOf, DoneFor

LEMMA AtHandLasts ==
  ASSUME NEW f, NEW g, NEW r, NEW s, AtHand(f, r), Resumes(r, s),
         Tamer(f, g, r.user, s.lag)
  PROVE  AtHand(g, s)
<1> DEFINE u == r.user
           k == Policy(r, r.user)
<1>1. /\ s.pc = r.pc /\ s.user = u /\ Policy(s, s.user) = k /\ s.at = r.at
      /\ DOMAIN s.plan = DOMAIN r.plan /\ s.left = r.left /\ s.row = r.row
      /\ s.hits = r.hits /\ (s.lag = 0 => r.lag = 0)
  BY DEF Resumes, Policy
<1>2. /\ AllOf(f, u, k) => AllOf(g, u, k)
      /\ DoneFor(f, u, DOMAIN r.plan \ r.left, r.lag) =>
           DoneFor(g, u, DOMAIN r.plan \ r.left, s.lag)
  BY <1>1, RepairedLasts
<1>3. s.pc \in Upserting \cup {"stale", "staling"} =>
        AllOf(g, u, k) /\ DoneFor(g, u, DOMAIN s.plan \ s.left, s.lag)
  BY <1>1, <1>2 DEF AtHand
<1>4. /\ s.pc = "purging" => \A i \in Pending(g, u) : g[i].kind # k => i \in s.hits
      /\ s.pc = "insert" => \A i \in Pending(g, u) : g[i].sub # s.at
      /\ s.pc = "update" => \A i \in Pending(g, u) : g[i].sub = s.at => i = s.row
      /\ s.pc = "staling" =>
           \A i \in Pending(g, u) : g[i].sub \notin DOMAIN s.plan => i \in s.hits
  BY <1>1 DEF AtHand, Tamer
<1> QED
  BY <1>1, <1>3, <1>4 DEF AtHand

(* What other processes commit, whom users join, and the time do no harm.   *)
LEMMA ProgressLasts ==
  ASSUME NEW f, NEW g, NEW r, NEW s, NEW S, NEW S2, Progress(f, r, S), S \subseteq S2,
         r.pc \in Planned => r.user \in Users, Resumes(r, s),
         \A u \in Users \ S2 : Tamer(f, g, u, s.lag)
  PROVE  Progress(g, s, S2)
<1>1. ASSUME NEW u \in Users \ S2, u \notin s.todo, Policy(s, u) # "off",
             ~ (s.pc \in Planned /\ u = s.user)
      PROVE  Repaired(g, u, Policy(s, u), s.lag)
  <2>1. Policy(s, u) = Policy(r, u) /\ (s.lag = 0 => r.lag = 0)
    BY DEF Resumes, Policy
  <2>2. Repaired(f, u, Policy(r, u), r.lag)
    BY <1>1, <2>1 DEF Progress, Resumes
  <2> QED
    BY <2>1, <2>2, RepairedLasts DEF Repaired
<1>2. ASSUME s.pc \in Planned, s.user \notin S2 PROVE AtHand(g, s)
  <2>1. r.pc \in Planned /\ r.user \in Users \ S2
    BY <1>2 DEF Resumes
  <2>2. AtHand(f, r)
    BY <2>1 DEF Progress
  <2> QED
    BY <2>1, <2>2, AtHandLasts
<1> QED
  BY <1>1, <1>2 DEF Progress

LEMMA Same == \A f, u, lag, r : Tamer(f, f, u, lag) /\ Resumes(r, r)
BY DEF Tamer, Resumes

(* A step of the recompute on the rows of the user at hand.                 *)
LEMMA ProgressWithUser ==
  ASSUME NEW f, NEW g, NEW r, NEW s, NEW S, Progress(f, r, S),
         r.pc \in Planned, s.pc \in Planned,
         s.user = r.user, s.todo = r.todo, s.seen = r.seen, s.lag = r.lag,
         \A u \in Users \ (S \cup {r.user}) : Tamer(f, g, u, r.lag),
         r.user \notin S => AtHand(g, s)
  PROVE  Progress(g, s, S)
<1>1. ASSUME NEW u \in Users \ S, u \notin s.todo, Policy(s, u) # "off", u # s.user
      PROVE  Repaired(g, u, Policy(s, u), s.lag)
  <2>1. Policy(s, u) = Policy(r, u)
    BY DEF Policy
  <2>2. Repaired(f, u, Policy(r, u), r.lag)
    BY <1>1, <2>1 DEF Progress
  <2> QED
    BY <1>1, <2>1, <2>2, RepairedLasts DEF Repaired
<1> QED
  BY <1>1 DEF Progress

(* Where a statement ends, what it was for has been done.                   *)
LEMMA ProgressSettles ==
  ASSUME NEW f, NEW r, NEW S, Unsettled(r), HasUser(r), Policy(r, r.user) \in Policies,
         r.pc = "staling" => Policy(r, r.user) = "days_before",
         \A i \in DOMAIN f : DigestRow(f[i]) /\ f[i].sub \in Targets,
         Progress(f, r, S)
  PROVE  Progress(f, Settle(r), S)
<1> DEFINE s == Settle(r)
           u == r.user
           k == Policy(r, r.user)
           db == r.seen[r.user].policy = "days_before"
<1>1. /\ s.seen = r.seen /\ s.todo = r.todo /\ s.user = r.user /\ s.at = r.at
      /\ s.hits = r.hits /\ s.row = r.row /\ s.lag = r.lag
      /\ s.pc \in {"purging", "upsert", "stale", "staling", "next"}
  BY SettleFacts
<1>2. s.pc \in {"purging", "staling"} =>
        s.pc = r.pc /\ r.hits # {} /\ s.left = {} /\ s.plan = r.plan
  BY SettleFacts
<1>3. s.pc = "upsert" =>
        /\ s.plan = r.plan
        /\ \/ r.pc = "purging" /\ r.hits = {} /\ s.left = DOMAIN r.plan
           \/ r.pc = "upsert" /\ s.left = r.left
  BY SettleFacts
<1>4. s.pc = "stale" =>
        /\ s.left = {} /\ s.plan = r.plan
        /\ \/ r.pc = "purging" /\ r.hits = {} /\ DOMAIN r.plan = {}
           \/ r.pc = "upsert" /\ r.left = {}
  BY SettleFacts
<1>5. s.pc = "next" =>
        \/ r.pc = "staling" /\ r.hits = {}
        \/ ~db /\ r.pc = "purging" /\ r.hits = {} /\ DOMAIN r.plan = {}
        \/ ~db /\ r.pc = "upsert" /\ r.left = {}
  BY SettleFacts
<1> HIDE DEF s
<1>6. r.pc \in Planned
  BY DEF Unsettled, Planned, Upserting
<1>7. ASSUME NEW v \in Users \ S, v \notin s.todo, Policy(s, v) # "off", v # u
      PROVE  Repaired(f, v, Policy(s, v), s.lag)
  BY <1>1, <1>7 DEF Progress, Policy
<1>8. ASSUME u \notin S, s.pc \in Planned PROVE AtHand(f, s)
  <2>1. AtHand(f, r)
    BY <1>6, <1>8 DEF Progress
  <2>2. Policy(s, s.user) = k
    BY <1>1 DEF Policy
  <2>3. CASE s.pc = "purging"
    BY <1>1, <1>2, <2>1, <2>2, <2>3 DEF AtHand, Upserting
  <2>4. CASE s.pc = "staling"
    <3>1. r.left = {} /\ s.plan = r.plan /\ s.left = {} /\ r.pc = "staling"
      BY <1>2, <2>4 DEF Unsettled
    <3> QED
      BY <1>1, <2>1, <2>2, <2>4, <3>1 DEF AtHand, Upserting
  <2>5. CASE s.pc = "upsert"
    <3>1. CASE r.pc = "purging"
      <4>1. AllOf(f, u, k)
        BY <1>3, <2>1, <2>5, <3>1 DEF AtHand, AllOf
      <4>2. DoneFor(f, u, {}, r.lag)
        BY DEF DoneFor
      <4>3. DOMAIN s.plan \ s.left = {}
        BY <1>3, <2>5, <3>1
      <4> QED
        BY <1>1, <2>2, <2>5, <4>1, <4>2, <4>3 DEF AtHand
    <3>2. CASE r.pc = "upsert"
      BY <1>1, <1>3, <2>1, <2>2, <2>5, <3>2 DEF AtHand, Upserting
    <3> QED
      BY <1>3, <2>5, <3>1, <3>2
  <2>6. CASE s.pc = "stale"
    <3>1. CASE r.pc = "purging"
      <4>1. AllOf(f, u, k)
        BY <1>4, <2>1, <2>6, <3>1 DEF AtHand, AllOf
      <4>2. DoneFor(f, u, {}, r.lag)
        BY DEF DoneFor
      <4>3. DOMAIN s.plan \ s.left = {}
        BY <1>4, <2>6, <3>1
      <4> QED
        BY <1>1, <2>2, <2>6, <4>1, <4>2, <4>3 DEF AtHand, Upserting
    <3>2. CASE r.pc = "upsert"
      <4>1. DOMAIN s.plan \ s.left = DOMAIN r.plan \ r.left
        BY <1>4, <2>6, <3>2
      <4> QED
        BY <1>1, <2>1, <2>2, <2>6, <3>2, <4>1 DEF AtHand, Upserting
    <3> QED
      BY <1>4, <2>6, <3>1, <3>2
  <2> QED
    BY <1>1, <1>8, <2>3, <2>4, <2>5, <2>6 DEF Planned, Upserting
<1>9. ASSUME u \notin S, s.pc = "next", k # "off" PROVE Repaired(f, u, k, r.lag)
  <2>1. AtHand(f, r)
    BY <1>6, <1>9 DEF Progress
  <2>2. CASE r.pc = "staling"
    <3>1. r.left = {} /\ r.hits = {}
      BY <1>5, <1>9, <2>2 DEF Unsettled
    <3>2. AllOf(f, u, k) /\ DoneFor(f, u, DOMAIN r.plan, r.lag)
      BY <2>1, <2>2, <3>1 DEF AtHand
    <3>3. \A i \in Pending(f, u) : f[i].sub \in DOMAIN r.plan
      BY <2>1, <2>2, <3>1 DEF AtHand
    <3> QED
      BY <3>2, <3>3 DEF Repaired, DoneFor
  <2>3. CASE r.pc # "staling"
    <3>1. k \in {"weekly_digest", "monthly_report"}
      BY <1>5, <1>9, <2>3 DEF Policies, Kinds, Policy
    <3>2. DOMAIN r.plan = {NoSub}
      BY <3>1 DEF HasUser, PlanFits, Policy
    <3>3. r.pc = "upsert" /\ r.left = {}
      BY <1>5, <1>9, <2>3, <3>2
    <3>4. AllOf(f, u, k) /\ DoneFor(f, u, {NoSub}, r.lag)
      BY <2>1, <3>2, <3>3 DEF AtHand, Upserting
    <3>5. \A i \in Pending(f, u) : f[i].sub = NoSub
      BY <3>1, <3>4 DEF AllOf, Pending, DigestRow
    <3> QED
      BY <3>4, <3>5 DEF Repaired, DoneFor
  <2> QED
    BY <2>2, <2>3
<1>10. Policy(s, u) = k
  BY <1>1 DEF Policy
<1>11. s.pc \notin Planned => s.pc = "next"
  BY <1>1 DEF Planned, Upserting
<1>12. ASSUME NEW v \in Users \ S, v \notin s.todo, Policy(s, v) # "off",
              ~ (s.pc \in Planned /\ v = s.user)
       PROVE  Repaired(f, v, Policy(s, v), s.lag)
  BY <1>1, <1>7, <1>9, <1>10, <1>11, <1>12
<1>13. Progress(f, s, S)
  BY <1>1, <1>8, <1>12 DEF Progress
<1> QED
  BY <1>13 DEF s

-----------------------------------------------------------------------------
LEMMA AdvanceIntro ==
  ASSUME NEW c \in Recomputes, Open(c)' => Progress(View(c)', job'[c], touched'[c])
  PROVE  Advance(c)'
BY DEF Advance, Open, Progress, Repaired, AllOf, DoneFor, AtHand, Policy, Pending

LEMMA RecomputeSees ==
  ASSUME NEW c \in Recomputes, TypeInv, Identity, NEW i \in DOMAIN View(c)
  PROVE  DigestRow(View(c)[i]) /\ View(c)[i].sub \in Targets
BY SeenVersion, SeenRow, ConstantTypes DEF Row

(* A statement of the recompute, from its session to r, its table to g.     *)
LEMMA AdvanceContinues ==
  ASSUME NEW c \in Recomputes, TypeInv, Advance(c), NEW r, Continues(c, r),
         NEW g, View(c)' = g,
         UNCHANGED touched[c],
         \A i \in DOMAIN g : DigestRow(g[i]) /\ g[i].sub \in Targets,
         \A u \in Users \ {job[c].user} : Tamer(View(c), g, u, job[c].lag),
         job[c].user \notin touched[c] => AtHand(g, r)
  PROVE  Advance(c)'
<1>1. job'[c] = Settle(r) /\ c \in Procs
  BY SettledStep, ConstantTypes
<1>2. /\ job[c].pc \in Planned /\ Unsettled(r) /\ r.seen = job[c].seen
      /\ r.todo = job[c].todo /\ r.user = job[c].user /\ r.plan = job[c].plan
      /\ r.lag = job[c].lag
      /\ r.pc = "staling" => r.seen[r.user].policy = "days_before"
  BY DEF Continues
<1>3. r.pc \in Planned
  BY <1>2 DEF Unsettled, Planned, Upserting
<1>4. HasUser(r) /\ Policy(r, r.user) \in Policies
  BY <1>1, <1>2, PlannedStage, SettingFacts DEF HasUser, Policy
<1>5. Progress(View(c), job[c], touched[c])
  BY <1>2 DEF Advance, Open, Planned, Upserting
<1>6. Progress(g, r, touched[c])
  BY <1>2, <1>3, <1>5, ProgressWithUser
<1>7. Progress(g, Settle(r), touched[c])
  BY <1>2, <1>4, <1>6, ProgressSettles DEF Policy
<1> QED
  BY <1>1, <1>7, AdvanceIntro

LEMMA AdvancePurge ==
  ASSUME NEW c \in Recomputes, TypeInv, Identity, Advance(c), Purge(c) \/ Stale(c)
  PROVE  Advance(c)'
<1> DEFINE g == View(c)
<1>1. UNCHANGED <<reminders, wrote, erased, touched[c]>> /\ c \in Procs
  BY ConstantTypes, QuietStep DEF Purge, Stale
<1>2. View(c)' = g
  BY <1>1, ViewQuiet
<1>3. /\ \A i \in DOMAIN g : DigestRow(g[i]) /\ g[i].sub \in Targets
      /\ \A u \in Users \ {job[c].user} : Tamer(View(c), g, u, job[c].lag)
  BY RecomputeSees, Same
<1>4. CASE Purge(c)
  <2> DEFINE r == Purging(c)
  <2>1. Continues(c, r) /\ r.pc = "purging" /\ r.hits = OtherKinds(c)
    BY <1>1, <1>4, PurgeStep
  <2>2. r.user = job[c].user /\ r.seen = job[c].seen
    BY <2>1 DEF Continues
  <2> HIDE DEF r
  <2>3. AtHand(g, r)
    BY <2>1, <2>2 DEF AtHand, OtherKinds, Policy, Upserting
  <2> QED
    BY <1>1, <1>2, <1>3, <2>1, <2>3, AdvanceContinues
<1>5. CASE Stale(c)
  <2> DEFINE r == Staling(c)
  <2>1. /\ Continues(c, r) /\ r.pc = "staling" /\ r.hits = Unwanted(c)
        /\ job[c].pc = "stale"
    BY <1>1, <1>5, StaleStep
  <2>2. /\ r.user = job[c].user /\ r.seen = job[c].seen /\ r.plan = job[c].plan
        /\ r.left = {} /\ r.seen[r.user].policy = "days_before" /\ r.lag = job[c].lag
    BY <2>1 DEF Continues, Unsettled
  <2>3. job[c].left = {}
    BY <1>1, <2>1 DEF TypeInv, Stages, Stage, Upserting
  <2> HIDE DEF r
  <2>4. ASSUME job[c].user \notin touched[c] PROVE AtHand(g, r)
    <3>1. AtHand(g, job[c])
      BY <2>1, <2>4 DEF Advance, Open, Progress, Planned
    <3>2. /\ AllOf(g, r.user, Policy(r, r.user))
          /\ DoneFor(g, r.user, DOMAIN r.plan \ r.left, r.lag)
      BY <2>1, <2>2, <2>3, <3>1 DEF AtHand, Policy
    <3>3. \A i \in Pending(g, r.user) : g[i].sub \notin DOMAIN r.plan => i \in r.hits
      BY <2>1, <2>2, <3>2 DEF Unwanted, AllOf, Policy
    <3> QED
      BY <2>1, <3>2, <3>3 DEF AtHand, Upserting
  <2> QED
    BY <1>1, <1>2, <1>3, <2>1, <2>4, AdvanceContinues
<1> QED
  BY <1>4, <1>5

LEMMA AdvanceDelete ==
  ASSUME NEW c \in Recomputes, TypeInv, Identity, Advance(c), Delete(c)
  PROVE  Advance(c)'
<1> DEFINE f == View(c)
           g == View(c)'
<1>1. c \in Procs
  BY ConstantTypes
<1>2. PICK i \in job[c].hits :
        /\ DeleteRow(c, i) /\ Continues(c, Visited(c, i))
        /\ Visited(c, i).pc = job[c].pc
        /\ Visited(c, i).hits = job[c].hits \ {i}
  BY <1>1, DeleteStep
<1> DEFINE r == Visited(c, i)
<1>3. /\ r.user = job[c].user /\ r.seen = job[c].seen /\ r.plan = job[c].plan
      /\ r.pc = job[c].pc /\ r.hits = job[c].hits \ {i} /\ Continues(c, r)
      /\ job[c].pc \in {"purging", "staling"} /\ r.left = {} /\ job[c].left = {}
      /\ r.lag = job[c].lag
  <2>1. job[c].left = {}
    BY <1>1, <1>2 DEF TypeInv, Stages, Stage, Upserting, DeleteRow
  <2> QED
    BY <1>2, <2>1 DEF Continues, Unsettled, DeleteRow
<1> HIDE DEF r
<1>4. /\ UNCHANGED <<reminders, wrote, touched[c]>>
      /\ erased'[c] = IF i \in Pending(f, job[c].user)
                           THEN erased[c] \cup {i} ELSE erased[c]
  BY <1>1, <1>2 DEF DeleteRow, TypeInv, Typed
<1>5. /\ DOMAIN g = IF i \in Pending(f, job[c].user) THEN DOMAIN f \ {i} ELSE DOMAIN f
      /\ \A x \in DOMAIN g : g[x] = f[x]
  BY <1>4 DEF View
<1> HIDE DEF f, g
<1>6. /\ \A u : Tamer(f, g, u, job[c].lag)
      /\ i \notin Pending(g, job[c].user)
  BY <1>5 DEF Tamer, Pending
<1>7. \A x \in DOMAIN g : DigestRow(g[x]) /\ g[x].sub \in Targets
  BY <1>5, RecomputeSees DEF f
<1>8. ASSUME job[c].user \notin touched[c] PROVE AtHand(g, r)
  <2>1. AtHand(f, job[c])
    BY <1>3, <1>8 DEF Advance, Open, Progress, Planned, f
  <2>2. AtHand(g, job[c])
    BY <1>6, <2>1, Same, AtHandLasts
  <2> QED
    BY <1>3, <1>6, <2>2 DEF AtHand, Policy, Upserting
<1> QED
  BY <1>3, <1>4, <1>6, <1>7, <1>8, AdvanceContinues DEF f, g

LEMMA AdvanceNextUser ==
  ASSUME NEW c \in Recomputes, TypeInv, Advance(c), NextUser(c)
  PROVE  Advance(c)'
<1>1. PICK u, plan : job' = [job EXCEPT ![c] =
        [job[c] EXCEPT !.pc = "purge", !.user = u, !.todo = job[c].todo \ {u},
                          !.plan = plan]]
  BY DEF NextUser
<1> DEFINE r == [job[c] EXCEPT !.pc = "purge", !.user = u,
                   !.todo = job[c].todo \ {u}, !.plan = plan]
<1>2. /\ job[c] \in Session /\ job[c].pc = "next" /\ c \in Procs
      /\ job \in [Procs -> Session]
  BY ConstantTypes DEF NextUser, TypeInv, Typed
<1>3. /\ r.pc = "purge" /\ r.seen = job[c].seen /\ r.user = u
      /\ r.todo = job[c].todo \ {u} /\ r.lag = job[c].lag
  BY <1>2 DEF Session
<1>4. job'[c] = r
  BY <1>1, <1>2
<1> HIDE DEF r
<1>5. View(c)' = View(c) /\ UNCHANGED touched[c]
  <2>1. UNCHANGED <<reminders, wrote, erased>>
    BY <1>2, QuietStep
  <2> QED
    BY <2>1, ViewQuiet DEF NextUser
<1>6. Progress(View(c), job[c], touched[c])
  BY <1>2 DEF Advance, Open
<1>7. AtHand(View(c), r)
  BY <1>3 DEF AtHand, Upserting
<1>8. Progress(View(c), r, touched[c])
  BY <1>2, <1>3, <1>6, <1>7 DEF Progress, Policy, Planned, Upserting
<1> QED
  BY <1>4, <1>5, <1>8, AdvanceIntro

LEMMA AdvanceUpsert ==
  ASSUME NEW c \in Recomputes, TypeInv, Identity, Advance(c), Upsert(c)
  PROVE  Advance(c)'
<1> DEFINE t == Min(job[c].left)
           f == View(c)
           u == job[c].user
           k == Policy(job[c], u)
           done == DOMAIN job[c].plan \ job[c].left
           n == job[c].lag
<1>1. /\ job[c] \in Session /\ c \in Procs /\ job \in [Procs -> Session]
      /\ Stage(c, job[c])
  BY ConstantTypes DEF TypeInv, Typed, Stages
<1>2. /\ job[c].pc = "upsert" /\ t \in job[c].left
      /\ \/ /\ Found(c, t) = {} /\ job' = [job EXCEPT ![c] = Inserting(c, t)]
            /\ Inserting(c, t).pc = "insert"
         \/ \E i \in Found(c, t) :
              /\ Found(c, t) = {i} /\ Updating(c, t, i).pc = "update"
              /\ job' = [job EXCEPT ![c] = Updating(c, t, i)]
         \/ \E i \in Found(c, t) :
              /\ Found(c, t) = {i} /\ f[i].fire = job[c].plan[t]
              /\ Continues(c, Passed(c, t)) /\ Passed(c, t).pc = "upsert"
              /\ Passed(c, t).left = job[c].left \ {t}
  BY <1>1, UpsertStep
<1> HIDE DEF t, f
<1>3. View(c)' = f /\ UNCHANGED touched[c]
  <2>1. UNCHANGED <<reminders, wrote, erased>>
    BY <1>1, QuietStep
  <2> QED
    BY <2>1, ViewQuiet DEF Upsert, f
<1>4. Progress(f, job[c], touched[c])
  BY <1>2 DEF Advance, Open, f
<1>5. job[c].pc \in Planned
  BY <1>2 DEF Planned, Upserting
<1>6. u \notin touched[c] => AllOf(f, u, k) /\ DoneFor(f, u, done, n)
  BY <1>2, <1>4, <1>5 DEF Progress, AtHand, Upserting
<1>7. u \notin touched[c] =>
        \A i \in Pending(f, u) : f[i].sub = t => i \in Found(c, t)
  BY <1>6 DEF Found, AllOf, Policy, f
<1>8. ASSUME NEW r, job'[c] = r, r.pc \in Planned, r.user = u, r.todo = job[c].todo,
             r.seen = job[c].seen, r.lag = n, u \notin touched[c] => AtHand(f, r)
      PROVE  Advance(c)'
  <2>1. Progress(f, r, touched[c])
    BY <1>4, <1>5, <1>8, Same, ProgressWithUser
  <2> QED
    BY <1>3, <1>8, <2>1, AdvanceIntro
<1>9. ASSUME Found(c, t) = {}, job' = [job EXCEPT ![c] = Inserting(c, t)]
      PROVE  Advance(c)'
  <2> DEFINE r == Inserting(c, t)
  <2>1. /\ r.pc = "insert" /\ r.user = u /\ r.todo = job[c].todo /\ r.at = t /\ r.lag = n
        /\ r.seen = job[c].seen /\ r.plan = job[c].plan /\ r.left = job[c].left
    BY <1>1 DEF Inserting, Session
  <2>2. job'[c] = r
    BY <1>1, <1>9
  <2> HIDE DEF r
  <2>3. u \notin touched[c] => AtHand(f, r)
    BY <1>6, <1>7, <1>9, <2>1 DEF AtHand, Policy
  <2>4. r.pc \in Planned
    BY <2>1 DEF Planned, Upserting
  <2> QED
    BY <1>8, <2>1, <2>2, <2>3, <2>4
<1>10. ASSUME NEW i, Found(c, t) = {i},
              job' = [job EXCEPT ![c] = Updating(c, t, i)]
       PROVE  Advance(c)'
  <2> DEFINE r == Updating(c, t, i)
  <2>1. /\ r.pc = "update" /\ r.user = u /\ r.todo = job[c].todo /\ r.at = t /\ r.row = i
        /\ r.lag = n /\ r.seen = job[c].seen /\ r.plan = job[c].plan /\ r.left = job[c].left
    BY <1>1 DEF Updating, Session
  <2>2. job'[c] = r
    BY <1>1, <1>10
  <2> HIDE DEF r
  <2>3. u \notin touched[c] => AtHand(f, r)
    BY <1>6, <1>7, <1>10, <2>1 DEF AtHand, Policy
  <2>4. r.pc \in Planned
    BY <2>1 DEF Planned, Upserting
  <2> QED
    BY <1>8, <2>1, <2>2, <2>3, <2>4
<1>11. ASSUME NEW i, Found(c, t) = {i}, f[i].fire = job[c].plan[t],
              Continues(c, Passed(c, t)), Passed(c, t).pc = "upsert",
              Passed(c, t).left = job[c].left \ {t}
       PROVE  Advance(c)'
  <2> DEFINE r == Passed(c, t)
  <2>1. /\ r.pc = "upsert" /\ r.user = u /\ r.left = job[c].left \ {t} /\ r.lag = n
        /\ r.seen = job[c].seen /\ r.plan = job[c].plan /\ Continues(c, r)
    BY <1>11 DEF Continues
  <2> HIDE DEF r
  <2>2. n = 0 => f[i].fire > 0
    <3>1. t \in DOMAIN job[c].plan /\ InTime(job[c])
      BY <1>1, <1>2 DEF Stage
    <3>2. n = 0 => job[c].plan[t] > 0
      BY <3>1 DEF InTime
    <3> QED
      BY <1>11, <3>2
  <2>3. ASSUME u \notin touched[c] PROVE AtHand(f, r)
    <3>1. DoneFor(f, u, DOMAIN r.plan \ r.left, n)
      <4> SUFFICES ASSUME NEW x \in Pending(f, u), f[x].sub \in DOMAIN r.plan \ r.left
                   PROVE  /\ n = 0 => f[x].fire > 0
                          /\ \A j \in Pending(f, u) : f[j].sub = f[x].sub => x = j
        BY DEF DoneFor
      <4>1. CASE f[x].sub = t
        BY <1>7, <1>11, <2>2, <2>3, <4>1
      <4>2. CASE f[x].sub # t
        <5>1. f[x].sub \in done
          BY <2>1, <4>2
        <5> QED
          BY <1>6, <2>3, <5>1 DEF DoneFor
      <4> QED
        BY <4>1, <4>2
    <3> QED
      BY <1>6, <2>1, <2>3, <3>1 DEF AtHand, Policy
  <2>4. \A x \in DOMAIN f : DigestRow(f[x]) /\ f[x].sub \in Targets
    BY RecomputeSees DEF f
  <2> QED
    BY <1>3, <2>1, <2>3, <2>4, Same, AdvanceContinues DEF f
<1> QED
  BY <1>2, <1>9, <1>10, <1>11

(* What the recompute sees after a write of its own.                        *)
LEMMA WriteIsSeen ==
  ASSUME TypeInv, Locks, NEW p \in Procs, NEW i \in Nat, NEW r \in Row, Writes(p, i, r),
         i \notin erased[p]
  PROVE  /\ DOMAIN View(p)' = DOMAIN View(p) \cup {i}
         /\ View(p)'[i] = r
         /\ \A x \in DOMAIN View(p) \ {i} : View(p)'[x] = View(p)[x]
<1>1. /\ UNCHANGED <<reminders, erased>>
      /\ wrote'[p] = Put(wrote[p], i, r)
  BY WritesStep DEF TypeInv, Typed
<1>2. /\ DOMAIN Put(wrote[p], i, r) = DOMAIN wrote[p] \cup {i}
      /\ Put(wrote[p], i, r)[i] = r
      /\ \A x \in DOMAIN wrote[p] \ {i} : Put(wrote[p], i, r)[x] = wrote[p][x]
  BY DEF Put
<1> QED
  BY <1>1, <1>2 DEF View

LEMMA InsertIsSeen ==
  ASSUME TypeInv, Locks, NEW p \in Procs, Insert(p)
  PROVE  /\ DOMAIN View(p)' = DOMAIN View(p) \cup {NewId}
         /\ NewId \notin DOMAIN View(p) /\ View(p)'[NewId] = NewRow(p)
         /\ \A x \in DOMAIN View(p) : View(p)'[x] = View(p)[x]
<1>1. /\ Writes(p, NewId, NewRow(p))
      /\ NewRow(p) \in Row
  BY TargetAtHand DEF Insert, NewRow
<1>2. /\ NewId \in Nat /\ NewId \notin DOMAIN reminders /\ NewId \notin Named(p)
  BY <1>1, NewIdIsNew DEF TypeInv
<1>3. NewId \notin DOMAIN wrote[p] /\ NewId \notin erased[p]
  BY <1>1, <1>2 DEF Named, Locks, Erasures
<1>4. /\ DOMAIN View(p)' = DOMAIN View(p) \cup {NewId}
      /\ View(p)'[NewId] = NewRow(p)
      /\ \A x \in DOMAIN View(p) \ {NewId} : View(p)'[x] = View(p)[x]
  BY <1>1, <1>2, <1>3, WriteIsSeen
<1>5. NewId \notin DOMAIN View(p)
  BY <1>2, <1>3 DEF View
<1> QED
  BY <1>4, <1>5

LEMMA AdvanceInsert ==
  ASSUME NEW c \in Recomputes, TypeInv, Locks, Identity, Advance(c), Insert(c)
  PROVE  Advance(c)'
<1> DEFINE f == View(c)
           g == View(c)'
           r == Moved(c)
           n == NewRow(c)
           u == job[c].user
           k == Policy(job[c], u)
<1>1. /\ job[c].pc = "insert" /\ NextTarget(c) /\ Writes(c, NewId, n)
      /\ c \in Procs /\ UNCHANGED touched[c]
  BY ConstantTypes DEF Insert, NewRow
<1>2. /\ Continues(c, r) /\ r.pc = "upsert" /\ r.left = job[c].left \ {job[c].at}
      /\ r.user = u /\ r.seen = job[c].seen /\ r.plan = job[c].plan /\ r.lag = job[c].lag
  BY <1>1, NextTargetStep DEF Continues
<1>3. /\ n \in Row /\ job[c].at \in DOMAIN job[c].plan
      /\ job[c].lag = 0 => job[c].plan[job[c].at] > 0
      /\ k \in Kinds
  BY <1>1, TargetAtHand DEF Policy
<1>4. n.user = u /\ n.sub = job[c].at /\ n.kind = k /\ (job[c].lag = 0 => n.fire > 0)
  BY <1>3 DEF NewRow, Policy
<1>5. DigestRow(n) /\ n.sub \in Targets
  <2>1. HasUser(job[c])
    BY <1>1, PlannedStage DEF Planned, Upserting
  <2> QED
    BY <1>3, <1>4, <2>1 DEF DigestRow, HasUser, PlanFits, Kinds, Row, Policy
<1> HIDE DEF r
<1>6. /\ DOMAIN g = DOMAIN f \cup {NewId} /\ g[NewId] = n /\ NewId \notin DOMAIN f
      /\ \A x \in DOMAIN f : g[x] = f[x]
  BY <1>1, InsertIsSeen
<1> HIDE DEF n
<1> HIDE DEF f, g
<1>7. \A v \in Users \ {u} : Tamer(f, g, v, job[c].lag)
  BY <1>4, <1>6 DEF Tamer, Pending
<1>8. \A x \in DOMAIN g : DigestRow(g[x]) /\ g[x].sub \in Targets
  BY <1>5, <1>6, RecomputeSees DEF f
<1>9. ASSUME u \notin touched[c] PROVE AtHand(g, r)
  <2>1. AtHand(f, job[c])
    BY <1>1, <1>9 DEF Advance, Open, Progress, Planned, Upserting, f
  <2>2. /\ AllOf(f, u, k) /\ DoneFor(f, u, DOMAIN r.plan \ job[c].left, r.lag)
        /\ \A i \in Pending(f, u) : f[i].sub # job[c].at
    BY <1>1, <1>2, <2>1 DEF AtHand, Upserting
  <2>3. \A i \in Pending(g, u) : i = NewId \/ i \in Pending(f, u)
    BY <1>6 DEF Pending
  <2>4. AllOf(g, u, k)
    BY <1>4, <1>6, <2>2, <2>3 DEF AllOf, Pending
  <2>5. DoneFor(g, u, DOMAIN r.plan \ r.left, r.lag)
    <3> SUFFICES ASSUME NEW x \in Pending(g, u), g[x].sub \in DOMAIN r.plan \ r.left
                 PROVE  /\ r.lag = 0 => g[x].fire > 0
                        /\ \A j \in Pending(g, u) : g[j].sub = g[x].sub => x = j
      BY DEF DoneFor
    <3>0. \A j \in Pending(f, u) : j \in DOMAIN f /\ g[j] = f[j]
      BY <1>6 DEF Pending
    <3>1. CASE x = NewId
      BY <1>2, <1>4, <1>6, <2>2, <2>3, <3>0, <3>1
    <3>2. CASE x # NewId
      <4>1. x \in Pending(f, u) /\ f[x].sub \in DOMAIN r.plan \ job[c].left
        BY <1>2, <2>2, <2>3, <3>0, <3>2
      <4> QED
        BY <1>4, <1>6, <2>2, <2>3, <3>0, <4>1 DEF DoneFor
    <3> QED
      BY <3>1, <3>2
  <2> QED
    BY <1>2, <2>4, <2>5 DEF AtHand, Policy
<1> QED
  BY <1>1, <1>2, <1>7, <1>8, <1>9, AdvanceContinues DEF f, g

LEMMA UpdateIsSeen ==
  ASSUME TypeInv, Locks, NEW p \in Procs, Update(p)
  PROVE  LET f == View(p)
             g == View(p)'
             i == job[p].row
         IN /\ i \in DOMAIN f /\ DOMAIN g = DOMAIN f
            /\ job[p].lag = 0 => g[i].fire > 0
            /\ g[i].user = f[i].user /\ g[i].sub = f[i].sub
            /\ g[i].kind = f[i].kind /\ g[i].sent = f[i].sent
            /\ \A x \in DOMAIN f \ {i} : g[x] = f[x]
<1> DEFINE f == View(p)
           i == job[p].row
           n == [f[i] EXCEPT !.fire = job[p].plan[job[p].at]]
<1>1. /\ job[p].pc = "update" /\ Writes(p, i, n)
      /\ i \in DOMAIN f
  BY DEF Update
<1>2. /\ job[p].plan[job[p].at] \in Nat
      /\ job[p].lag = 0 => job[p].plan[job[p].at] > 0
  BY <1>1, TargetAtHand
<1>3. i \in Nat /\ f[i] \in Row
  BY <1>1, SeenRow
<1>4. /\ n \in Row /\ n.user = f[i].user /\ n.sub = f[i].sub /\ n.kind = f[i].kind
      /\ n.sent = f[i].sent /\ (job[p].lag = 0 => n.fire > 0)
  BY <1>2, <1>3 DEF Row
<1>5. i \notin erased[p]
  BY <1>1 DEF View
<1> HIDE DEF n
<1>6. /\ DOMAIN View(p)' = DOMAIN f \cup {i} /\ View(p)'[i] = n
      /\ \A x \in DOMAIN f \ {i} : View(p)'[x] = f[x]
  BY <1>1, <1>3, <1>4, <1>5, WriteIsSeen
<1> QED
  BY <1>1, <1>4, <1>6

LEMMA AdvanceUpdate ==
  ASSUME NEW c \in Recomputes, TypeInv, Locks, Identity, Advance(c), Update(c)
  PROVE  Advance(c)'
<1> DEFINE f == View(c)
           g == View(c)'
           r == Moved(c)
           i == job[c].row
           u == job[c].user
           k == Policy(job[c], u)
<1>1. /\ job[c].pc = "update" /\ NextTarget(c) /\ c \in Procs
      /\ UNCHANGED touched[c]
  BY ConstantTypes DEF Update
<1>2. /\ Continues(c, r) /\ r.pc = "upsert" /\ r.left = job[c].left \ {job[c].at}
      /\ r.user = u /\ r.seen = job[c].seen /\ r.plan = job[c].plan /\ r.lag = job[c].lag
  BY <1>1, NextTargetStep DEF Continues
<1> HIDE DEF r
<1>3. /\ i \in DOMAIN f /\ DOMAIN g = DOMAIN f
      /\ job[c].lag = 0 => g[i].fire > 0
      /\ g[i].user = f[i].user /\ g[i].sub = f[i].sub
      /\ g[i].kind = f[i].kind /\ g[i].sent = f[i].sent
      /\ \A x \in DOMAIN f \ {i} : g[x] = f[x]
  BY <1>1, UpdateIsSeen
<1>4. \A x \in DOMAIN f : DigestRow(f[x]) /\ f[x].sub \in Targets
  BY RecomputeSees
<1> HIDE DEF f, g, i
<1>5. \A v : Tamer(f, g, v, job[c].lag)
  BY <1>3 DEF Tamer, Pending
<1>6. \A x \in DOMAIN g : DigestRow(g[x]) /\ g[x].sub \in Targets
  BY <1>3, <1>4 DEF DigestRow
<1>7. ASSUME u \notin touched[c] PROVE AtHand(g, r)
  <2>1. AtHand(f, job[c])
    BY <1>1, <1>7 DEF Advance, Open, Progress, Planned, Upserting, f
  <2>2. AtHand(g, job[c])
    BY <1>5, <2>1, Same, AtHandLasts
  <2>3. /\ AllOf(g, u, k) /\ DoneFor(g, u, DOMAIN r.plan \ job[c].left, r.lag)
        /\ \A x \in Pending(g, u) : g[x].sub = job[c].at => x = i
    BY <1>1, <1>2, <2>2 DEF AtHand, Upserting, i
  <2>4. DoneFor(g, u, DOMAIN r.plan \ r.left, r.lag)
    <3> SUFFICES ASSUME NEW x \in Pending(g, u), g[x].sub \in DOMAIN r.plan \ r.left
                 PROVE  /\ r.lag = 0 => g[x].fire > 0
                        /\ \A j \in Pending(g, u) : g[j].sub = g[x].sub => x = j
      BY DEF DoneFor
    <3>1. CASE g[x].sub = job[c].at
      BY <1>2, <1>3, <2>3, <3>1
    <3>2. CASE g[x].sub # job[c].at
      <4>1. g[x].sub \in DOMAIN r.plan \ job[c].left
        BY <1>2, <3>2
      <4> QED
        BY <2>3, <4>1 DEF DoneFor
    <3> QED
      BY <3>1, <3>2
  <2> QED
    BY <1>2, <2>3, <2>4 DEF AtHand, Policy
<1> QED
  BY <1>1, <1>2, <1>5, <1>6, <1>7, AdvanceContinues DEF f, g

(* Another transaction that has only sent reminders of u commits.           *)
LEMMA CommitIsTame ==
  ASSUME TypeInv, Locks, NEW q \in Procs, NEW p \in Procs \ {q}, Commit(p), NEW u,
         NEW lag,
         \A i \in DOMAIN wrote[p] : wrote[p][i].user = u => wrote[p][i].sent
  PROVE  Tamer(View(q), View(q)', u, lag)
<1>1. /\ DOMAIN reminders' = (DOMAIN reminders \cup DOMAIN wrote[p]) \ erased[p]
      /\ \A i \in DOMAIN reminders' :
           reminders'[i] = IF i \in DOMAIN wrote[p] THEN wrote[p][i] ELSE reminders[i]
      /\ ClosesOnly(p)
  BY CommitFacts
<1>2. wrote'[q] = wrote[q] /\ erased'[q] = erased[q]
  BY <1>1 DEF ClosesOnly
<1> DEFINE f == View(q)
           g == View(q)'
<1>3. /\ DOMAIN f = (DOMAIN reminders \cup DOMAIN wrote[q]) \ erased[q]
      /\ \A i \in DOMAIN f :
           f[i] = IF i \in DOMAIN wrote[q] THEN wrote[q][i] ELSE reminders[i]
  BY DEF View
<1>4. /\ DOMAIN g = (DOMAIN reminders' \cup DOMAIN wrote[q]) \ erased[q]
      /\ \A i \in DOMAIN g :
           g[i] = IF i \in DOMAIN wrote[q] THEN wrote[q][i] ELSE reminders'[i]
  BY <1>2 DEF View
<1> HIDE DEF f, g
<1>5. ASSUME NEW i \in Pending(g, u) PROVE i \in DOMAIN f /\ g[i] = f[i]
  <2>1. i \in DOMAIN g /\ g[i].user = u /\ ~g[i].sent
    BY DEF Pending
  <2>2. CASE i \in DOMAIN wrote[q]
    BY <1>3, <1>4, <2>1, <2>2
  <2>3. CASE i \notin DOMAIN wrote[q]
    <3>1. i \in DOMAIN reminders' /\ g[i] = reminders'[i]
      BY <1>4, <2>1, <2>3
    <3>2. i \notin DOMAIN wrote[p]
      BY <1>1, <2>1, <3>1
    <3>3. i \in DOMAIN reminders /\ reminders'[i] = reminders[i]
      BY <1>1, <3>1, <3>2
    <3> QED
      BY <1>3, <1>4, <2>1, <2>3, <3>1, <3>3
  <2> QED
    BY <2>2, <2>3
<1>6. Tamer(f, g, u, lag)
  BY <1>5 DEF Tamer, Pending
<1> QED
  BY <1>6 DEF f, g

(* What another transaction writes is sent, or a user's who was handled.    *)
LEMMA OthersAreTouched ==
  ASSUME Identity, NEW c \in Recomputes, Touches(c), Open(c), NEW p \in Procs \ {c},
         Open(p), NEW u \in Users \ touched[c], NEW i \in DOMAIN wrote[p],
         wrote[p][i].user = u
  PROVE  wrote[p][i].sent
<1>1. /\ p \in Handlers => wrote[p][i].user = UserOf[p]
      /\ p \in Sends => wrote[p][i].sent
  BY DEF Identity, Versions, Version
<1>2. p \in Handlers => UserOf[p] \in touched[c]
  BY DEF Touches
<1>3. p \notin Recomputes
  BY DEF Touches
<1> QED
  BY <1>1, <1>2, <1>3 DEF Procs

(* A step that leaves the session of a recompute as it is, or an hour on.   *)
LEMMA AdvanceBeside ==
  ASSUME NEW c \in Recomputes, TypeInv, Advance(c), Resumes(job[c], job'[c]),
         touched[c] \subseteq touched'[c],
         Open(c) => \A u \in Users \ touched'[c] : Tamer(View(c), View(c)', u, job'[c].lag)
  PROVE  Advance(c)'
<1> SUFFICES ASSUME Open(c)'
             PROVE  Progress(View(c)', job'[c], touched'[c])
  BY AdvanceIntro
<1>1. Open(c)
  BY DEF Open, Resumes
<1>2. job[c].pc \in Planned => job[c].user \in Users
  BY PlannedStage, ConstantTypes
<1> QED
  BY <1>1, <1>2, ProgressLasts DEF Advance

LEMMA AdvanceQuiet ==
  ASSUME NEW c \in Recomputes, TypeInv, Advance(c), job'[c] = job[c],
         touched[c] \subseteq touched'[c],
         UNCHANGED <<reminders, wrote[c], erased[c]>>
  PROVE  Advance(c)'
<1>1. View(c)' = View(c)
  BY ViewQuiet
<1>2. Resumes(job[c], job'[c])
  BY Same
<1>3. \A u \in Users \ touched'[c] : Tamer(View(c), View(c)', u, job'[c].lag)
  BY <1>1, Same
<1> QED
  BY <1>2, <1>3, AdvanceBeside

LEMMA AdvanceOthers ==
  ASSUME TypeInv, Locks, Identity, NEW c \in Recomputes, Touches(c), Advance(c),
         NEW p \in Procs \ {c}, Work(p) \/ Fail(p)
  PROVE  Advance(c)'
<1>1. c \in Procs /\ c # p
  BY ConstantTypes
<1>2. ASSUME Close(p), UNCHANGED reminders PROVE Advance(c)'
  <2>1. ClosesOnly(p) /\ touched'[c] = touched[c]
    BY <1>1, <1>2, CloseTouched
  <2>2. job'[c] = job[c] /\ UNCHANGED <<wrote[c], erased[c]>>
    BY <1>1, <2>1 DEF ClosesOnly
  <2> QED
    BY <1>2, <2>1, <2>2, AdvanceQuiet
<1>3. CASE UpsertRaises(p) \/ FlushRaises(p) \/ Abort(p) \/ Fail(p)
  BY <1>2, <1>3 DEF UpsertRaises, FlushRaises, Abort, Fail, Rollback
<1>4. CASE NextUser(p) \/ Purge(p) \/ Delete(p) \/ Upsert(p) \/ Insert(p) \/ Update(p)
             \/ Stale(p)
  <2>1. job'[c] = job[c] /\ touched'[c] = touched[c]
    BY <1>1, <1>4, RecomputeGoes DEF Goes
  <2>2. UNCHANGED <<reminders, wrote[c], erased[c]>>
    <3>1. CASE NextUser(p) \/ Purge(p) \/ Upsert(p) \/ Stale(p)
      BY <1>1, <3>1, QuietStep
    <3>2. CASE Delete(p)
      BY <1>1, <3>2, DeleteStep DEF DeleteRow, TypeInv, Typed
    <3>3. CASE Insert(p) \/ Update(p)
      BY <1>1, <3>3 DEF Insert, Update, Writes, TypeInv, Typed
    <3> QED
      BY <1>4, <3>1, <3>2, <3>3
  <2> QED
    BY <2>1, <2>2, AdvanceQuiet
<1>5. CASE Commit(p)
  <2>1. ClosesOnly(p) /\ touched'[c] = touched[c] /\ Open(p)
    BY <1>1, <1>5, CloseTouched DEF Commit, Open
  <2>2. Resumes(job[c], job'[c])
    BY <1>1, <2>1, Same DEF ClosesOnly
  <2>3. Open(c) =>
          \A u \in Users \ touched[c] : \A lag : Tamer(View(c), View(c)', u, lag)
    BY <1>1, <1>5, <2>1, OthersAreTouched, CommitIsTame
  <2> QED
    BY <2>1, <2>2, <2>3, AdvanceBeside
<1> QED
  BY <1>3, <1>4, <1>5 DEF Work, Recompute

(* The hour turns: an open recompute sees rows that it has made nearer.     *)
LEMMA AdvanceTick ==
  ASSUME TypeInv, NEW c \in Recomputes, Advance(c), Tick
  PROVE  Advance(c)'
<1>1. /\ c \in Procs /\ job \in [Procs -> Session] /\ touched'[c] = touched[c]
      /\ job'[c] = IF Open(c) THEN Later(job[c]) ELSE job[c]
  BY TickStep, ConstantTypes DEF Tick, TypeInv, Typed
<1>2. CASE ~Open(c)
  BY <1>1, <1>2, AdvanceIntro DEF Open
<1>3. CASE Open(c)
  <2>1. Resumes(job[c], job'[c]) /\ job'[c].lag = 1
    BY <1>1, <1>3, LaterFacts DEF Resumes
  <2>2. ASSUME NEW u \in Users PROVE Tamer(View(c), View(c)', u, job'[c].lag)
    BY <1>1, <2>1, TickView, CloserFacts DEF Tamer, Pending
  <2> QED
    BY <1>1, <2>1, <2>2, AdvanceBeside
<1> QED
  BY <1>2, <1>3

LEMMA AdvanceStart ==
  ASSUME TypeInv, NEW c \in Recomputes, Advance(c), NEW d \in Recomputes, StartRecompute(d)
  PROVE  Advance(c)'
<1>1. CASE c = d
  <2> DEFINE r == [Fresh EXCEPT !.pc = "next", !.seen = setting, !.was = setting,
                     !.todo = {u \in Users : setting[u].policy # "off"}]
  <2>1. job'[c] = r
    BY <1>1, ConstantTypes DEF StartRecompute, TypeInv, Typed
  <2>2. /\ r.pc = "next" /\ r.seen = setting
        /\ r.todo = {u \in Users : setting[u].policy # "off"}
    BY DEF Fresh
  <2> HIDE DEF r
  <2>3. Progress(View(c)', r, touched'[c])
    BY <2>2 DEF Progress, Policy, Planned, Upserting
  <2> QED
    BY <2>1, <2>3, AdvanceIntro
<1>2. CASE c # d
  <2>1. job'[c] = job[c] /\ touched'[c] = IF Open(c) THEN Users ELSE touched[c]
    BY <1>2, StartTouched, ConstantTypes
  <2>2. UNCHANGED <<reminders, wrote, erased>> /\ touched[c] \subseteq Users
    BY QuietStep DEF TypeInv, Typed
  <2> QED
    BY <2>1, <2>2, AdvanceQuiet
<1> QED
  BY <1>1, <1>2

LEMMA AdvanceStep ==
  ASSUME TypeInv, Locks, Identity, NEW c \in Recomputes, Touches(c), Advance(c),
         [Next]_vars
  PROVE  Advance(c)'
<1>1. /\ c \in Procs /\ Sends \subseteq Procs /\ c \notin Sends /\ c \notin Handlers
      /\ Handlers \subseteq Procs /\ job \in [Procs -> Session]
  BY ConstantTypes DEF TypeInv, Typed
<1>2. CASE ~Open(c)'
  BY <1>2, AdvanceIntro
<1>3. CASE \E d \in Recomputes : StartRecompute(d)
  BY <1>3, AdvanceStart
<1>4. CASE \/ \E p \in Sends : StartSend(p) \/ Tell(p) \/ Drop(p)
           \/ \E h \in Handlers : Click(h) \/ Save(h)
  <2>1. UNCHANGED <<reminders, wrote, erased>>
    BY <1>4, QuietStep
  <2>2. job'[c] = job[c] /\ touched[c] \subseteq touched'[c]
    BY <1>1, <1>4 DEF StartSend, Tell, Drop, Click, Save, Goto
  <2> QED
    BY <2>1, <2>2, AdvanceQuiet
<1>5. CASE \E p \in Sends : Mark(p)
  <2>1. /\ job'[c] = job[c] /\ touched'[c] = touched[c]
        /\ UNCHANGED <<reminders, wrote[c], erased[c]>>
    BY <1>1, <1>5 DEF Mark, Marked, Writes, TypeInv, Typed
  <2> QED
    BY <2>1, AdvanceQuiet
<1>6. CASE Tick
  BY <1>6, AdvanceTick
<1>7. CASE (\E s \in Subs : Hide(s) \/ Reschedule(s)) \/ UNCHANGED vars
  <2>1. UNCHANGED <<job, touched, reminders, wrote, erased>>
    BY <1>7 DEF Hide, Reschedule, Edit, vars, table
  <2> QED
    BY <2>1, AdvanceQuiet
<1>8. CASE Work(c) \/ Fail(c)
  <2>1. CASE UpsertRaises(c) \/ FlushRaises(c) \/ Abort(c) \/ Fail(c) \/ Commit(c)
    <3>1. Close(c)
      BY <2>1 DEF UpsertRaises, FlushRaises, Abort, Fail, Rollback, Commit
    <3>2. ~Open(c)'
      BY <1>1, <3>1, CloseTouched
    <3> QED
      BY <1>2, <3>2
  <2> QED
    BY <1>8, <2>1, AdvanceNextUser, AdvancePurge, AdvanceDelete, AdvanceUpsert,
       AdvanceInsert, AdvanceUpdate DEF Work, Recompute
<1> QED
  BY <1>3, <1>4, <1>5, <1>6, <1>7, <1>8, AdvanceOthers DEF Next

Recovery == \A c \in Recomputes : Touches(c) /\ Advance(c)
LEMMA RecoveryInit == Init => Recovery
BY FreshIsTyped, ConstantTypes DEF Init, Recovery, Touches, Advance, Open

LEMMA RecoveryStep == TypeInv /\ Locks /\ Identity /\ Recovery /\ [Next]_vars => Recovery'
BY TouchesStep, AdvanceStep DEF Recovery

(* A recompute knows the settings of the users whom nobody else handles,    *)
(* and the reminders of those it has done are what their policies want,     *)
(* whatever sends, handlers and other recomputes commit in between.         *)
THEOREM RecomputeAdvances == Spec => []Recovery
<1> QED
  BY RecoveryInit, RecoveryStep, RemindersTypesHold, RowsAreLocked, RowsAreKnown, PTL
  DEF Spec

(* What RecomputeRepairs says of a step.                                    *)
Repairs ==
  \A c \in Recomputes : Commit(c) =>
    \A u \in Users \ touched[c] : setting[u].policy # "off" =>
      OfPolicy(u)' /\ (job[c].lag = 0 => Ahead(u)')

LEMMA RepairsStep == TypeInv /\ Recovery => Repairs
<1> SUFFICES ASSUME TypeInv, Recovery, NEW c \in Recomputes, Commit(c),
                    NEW u \in Users \ touched[c], setting[u].policy # "off"
             PROVE  OfPolicy(u)' /\ (job[c].lag = 0 => Ahead(u)')
  BY DEF Repairs
<1> DEFINE f == View(c)
           k == setting[u].policy
<1>1. c \in Procs /\ c \notin Sends /\ c \notin Handlers
  BY ConstantTypes
<1>2. job[c].pc = "next" /\ job[c].todo = {} /\ Open(c)
  BY <1>1 DEF Commit, Open, TypeInv, Stages, Stage
<1>3. reminders' = f /\ setting' = [v \in Users |-> setting[v]]
  BY <1>1 DEF Commit, Publish
<1>4. setting[u] = job[c].seen[u]
  BY <1>2 DEF Recovery, Touches
<1>5. Repaired(f, u, k, job[c].lag)
  BY <1>2, <1>4 DEF Recovery, Advance, Progress, Policy, Planned, Upserting
<1>6. \A i \in Pending(f, u) : f[i].sub \in Targets
  BY <1>1, SeenRow DEF Pending, Row
<1> HIDE DEF f
<1>7. \A i \in Pending(f, u) :
        /\ f[i].kind = k /\ (job[c].lag = 0 => f[i].fire > 0)
        /\ \A j \in Pending(f, u) : f[j].sub = f[i].sub => i = j
  BY <1>5, <1>6 DEF Repaired, AllOf, DoneFor
<1>8. setting'[u].policy = k
  BY <1>3
<1> QED
  BY <1>3, <1>7, <1>8 DEF OfPolicy, Ahead, Pending

(* When a recompute commits, the pending reminders of every user who wants  *)
(* reminders and whom nobody else handled meanwhile are of the policy, one  *)
(* for each target and, if the hour has not turned, ahead, whatever the     *)
(* table held before and whatever the sends did at the same time.           *)
THEOREM RecomputesRepair == Spec => RecomputeRepairs
<1>1. Spec => [][Repairs]_vars
  BY RepairsStep, RemindersTypesHold, RecomputeAdvances, PTL
<1> QED
  BY <1>1, PTL DEF RecomputeRepairs, Repairs

-----------------------------------------------------------------------------
(* What a send has told of.  It marks in its transaction every row of which *)
(* it has told, but for the one at hand, and deletes none; so the rows of   *)
(* which a committed send told are committed as sent.                       *)
SentRows == {i \in DOMAIN reminders : reminders[i].sent}
Tells(p) ==
  /\ erased[p] = {}
  /\ \A i \in job[p].said :
       \/ i \in DOMAIN wrote[p] /\ wrote[p][i].sent
       \/ job[p].pc = "mark" /\ i = job[p].row
Accounted == told \subseteq SentRows /\ \A p \in Sends : Tells(p)

LEMMA TellsInit == Init => Accounted
BY FreshIsTyped, ConstantTypes DEF Init, Accounted, Tells

LEMMA TellsQuiet ==
  ASSUME NEW p \in Sends, Tells(p), UNCHANGED <<job[p], wrote[p], erased[p]>>
  PROVE  Tells(p)'
BY DEF Tells

LEMMA TellsClosed ==
  ASSUME TypeInv, NEW q \in Procs, Close(q), NEW p \in Sends, Tells(p)
  PROVE  Tells(p)'
<1>1. p \in Procs /\ ClosesOnly(q)
  BY CloseFacts, ConstantTypes
<1>2. CASE p = q
  BY <1>1, <1>2, FreshIsTyped DEF ClosesOnly, Tells
<1>3. CASE p # q
  BY <1>1, <1>3, TellsQuiet DEF ClosesOnly
<1> QED
  BY <1>2, <1>3

(* A send lists rows, tells of one, or goes on without it.                  *)
LEMMA TellsOn ==
  ASSUME TypeInv, Locks, NEW q \in Sends, StartSend(q) \/ Tell(q) \/ Drop(q),
         \A p \in Sends : Tells(p), NEW p \in Sends
  PROVE  Tells(p)'
<1>1. UNCHANGED <<reminders, wrote, erased>>
  BY QuietStep
<1>2. p \in Procs /\ q \in Procs /\ job \in [Procs -> Session]
  BY ConstantTypes DEF TypeInv, Typed
<1>3. ASSUME NEW r, job' = [job EXCEPT ![q] = r],
             \A i \in r.said : \/ i \in DOMAIN wrote[q] /\ wrote[q][i].sent
                               \/ r.pc = "mark" /\ i = r.row
      PROVE  Tells(p)'
  <2>1. \A x \in Procs : job'[x] = IF x = q THEN r ELSE job[x]
    BY <1>2, <1>3
  <2>2. CASE p # q
    BY <1>1, <1>2, <2>1, <2>2, TellsQuiet
  <2>3. CASE p = q
    BY <1>1, <1>2, <1>3, <2>1, <2>3 DEF Tells
  <2> QED
    BY <2>2, <2>3
<1>4. CASE StartSend(q)
  <2>1. job' = [job EXCEPT ![q] = Listing] /\ Listing.said = {}
    BY <1>4, ListingStep
  <2> QED
    BY <1>3, <2>1
<1>5. CASE Tell(q)
  <2>1. PICK i \in job[q].list :
          /\ job' = [job EXCEPT ![q] = Telling(q, i)] /\ Telling(q, i).pc = "mark"
          /\ Telling(q, i).row = i /\ Telling(q, i).said = job[q].said \cup {i}
    BY <1>5, TellingStep
  <2>2. job[q].pc = "tell"
    BY <1>5 DEF Tell
  <2>3. \A x \in job[q].said : x \in DOMAIN wrote[q] /\ wrote[q][x].sent
    BY <2>2 DEF Tells
  <2> QED
    BY <1>3, <2>1, <2>3
<1>6. CASE Drop(q)
  <2>1. PICK i \in job[q].list :
          /\ job' = [job EXCEPT ![q] = Skipping(q, i)]
          /\ Skipping(q, i).said = job[q].said /\ job[q].pc = "tell"
    BY <1>6, SkippingStep
  <2>2. \A x \in job[q].said : x \in DOMAIN wrote[q] /\ wrote[q][x].sent
    BY <2>1 DEF Tells
  <2> QED
    BY <1>3, <2>1, <2>2
<1> QED
  BY <1>4, <1>5, <1>6

LEMMA TellsMark ==
  ASSUME TypeInv, NEW q \in Sends, Mark(q), \A p \in Sends : Tells(p), NEW p \in Sends
  PROVE  Tells(p)'
<1> DEFINE i == job[q].row
           row == [View(q)[i] EXCEPT !.sent = TRUE]
<1>1. /\ job' = [job EXCEPT ![q] = Marking(q)] /\ Marking(q).said = job[q].said
      /\ i \in Nat /\ row \in Row /\ row.sent /\ Writes(q, i, row)
  BY MarkingStep
<1>2. p \in Procs /\ q \in Procs /\ job \in [Procs -> Session]
      /\ wrote \in [Procs -> Tables]
  BY ConstantTypes DEF TypeInv, Typed
<1> HIDE DEF i, row
<1>3. wrote' = [wrote EXCEPT ![q] = Put(wrote[q], i, row)] /\ erased' = erased
  BY <1>1, <1>2, WritesStep
<1>4. CASE p # q
  <2>1. UNCHANGED <<job[p], wrote[p], erased[p]>>
    BY <1>1, <1>2, <1>3, <1>4
  <2> QED
    BY <2>1, TellsQuiet
<1>5. CASE p = q
  <2>1. /\ DOMAIN Put(wrote[q], i, row) = DOMAIN wrote[q] \cup {i}
        /\ Put(wrote[q], i, row)[i] = row
        /\ \A x \in DOMAIN wrote[q] \ {i} : Put(wrote[q], i, row)[x] = wrote[q][x]
    BY DEF Put
  <2>2. \A x \in job[q].said :
          x \in DOMAIN wrote[q] \cup {i} /\ Put(wrote[q], i, row)[x].sent
    BY <1>1, <2>1 DEF Tells, i
  <2>3. job'[q] = Marking(q) /\ wrote'[q] = Put(wrote[q], i, row)
    BY <1>1, <1>2, <1>3
  <2> QED
    BY <1>1, <1>3, <1>5, <2>1, <2>2, <2>3 DEF Tells
<1> QED
  BY <1>4, <1>5

(* The statements of a recompute or of a handler are not of a send.         *)
LEMMA TellsBeside ==
  ASSUME TypeInv, NEW q \in Procs, NEW p \in Sends, Tells(p),
         \/ NextUser(q) \/ Purge(q) \/ Stale(q) \/ Upsert(q)
         \/ Delete(q) \/ Insert(q) \/ Update(q)
  PROVE  Tells(p)'
<1>1. job[q].pc \notin {"idle", "tell", "mark"}
  BY DEF NextUser, Purge, Stale, Upsert, Delete, Insert, Update
<1>2. p \in Procs /\ p # q /\ job \in [Procs -> Session]
      /\ wrote \in [Procs -> Tables] /\ erased \in [Procs -> SUBSET Nat]
  BY <1>1, ConstantTypes DEF TypeInv, Typed, Stages, Stage
<1>3. job'[p] = job[p]
  BY <1>2 DEF NextUser, Purge, Stale, Upsert, Delete, Insert, Update, NextTarget
<1>4. wrote'[p] = wrote[p] /\ erased'[p] = erased[p]
  BY <1>2 DEF NextUser, Purge, Stale, Upsert, Delete, Insert, Update, Writes, table
<1> QED
  BY <1>3, <1>4, TellsQuiet

LEMMA TellsTick ==
  ASSUME TypeInv, Tick, Accounted
  PROVE  Accounted'
<1>1. /\ DOMAIN reminders' = Kept /\ \A i \in Kept : reminders'[i] = Closer(reminders[i])
      /\ \A p \in Procs : DOMAIN wrote'[p] = DOMAIN wrote[p]
      /\ \A p \in Procs : \A i \in DOMAIN wrote[p] : wrote'[p][i] = Closer(wrote[p][i])
      /\ \A p \in Procs : job'[p] = IF Open(p) THEN Later(job[p]) ELSE job[p]
      /\ told' = told \cap Kept /\ erased' = erased
  BY TickStep DEF Tick
<1>2. /\ reminders \in Tables /\ job \in [Procs -> Session] /\ wrote \in [Procs -> Tables]
      /\ Kept \subseteq DOMAIN reminders
  BY DEF TypeInv, Typed, Kept
<1>3. told' \subseteq SentRows'
  <2>1. \A i \in Kept : reminders'[i].sent = reminders[i].sent
    BY <1>1, <1>2, TableFacts, CloserFacts
  <2> QED
    BY <1>1, <2>1 DEF Accounted, SentRows
<1>4. ASSUME NEW p \in Sends PROVE Tells(p)'
  <2>1. p \in Procs /\ Tells(p)
    BY ConstantTypes DEF Accounted
  <2>2. job'[p].said = job[p].said /\ job'[p].pc = job[p].pc /\ job'[p].row = job[p].row
    BY <1>1, <1>2, <2>1, LaterFacts
  <2>3. \A i \in DOMAIN wrote[p] : wrote'[p][i].sent = wrote[p][i].sent
    BY <1>1, <1>2, <2>1, TableFacts, CloserFacts
  <2> QED
    BY <1>1, <2>1, <2>2, <2>3 DEF Tells
<1> QED
  BY <1>3, <1>4 DEF Accounted

LEMMA TellsCommit ==
  ASSUME TypeInv, Locks, NEW q \in Procs, Commit(q), Accounted
  PROVE  told' \subseteq SentRows'
<1>1. /\ DOMAIN reminders' = (DOMAIN reminders \cup DOMAIN wrote[q]) \ erased[q]
      /\ \A i \in DOMAIN reminders' :
           reminders'[i] = IF i \in DOMAIN wrote[q] THEN wrote[q][i] ELSE reminders[i]
      /\ told' = told \cup job[q].said
  BY CommitFacts DEF Commit
<1>2. told \subseteq SentRows'
  BY <1>1 DEF Accounted, SentRows, Locks, Respected
<1>3. CASE q \in Sends
  <2>1. job[q].pc # "mark" /\ Tells(q)
    BY <1>3 DEF Commit, Accounted
  <2> QED
    BY <1>1, <1>2, <2>1 DEF Tells, SentRows
<1>4. CASE q \notin Sends
  BY <1>1, <1>2, <1>4 DEF TypeInv, Stages, Stage
<1> QED
  BY <1>3, <1>4

LEMMA TellsStep == TypeInv /\ Locks /\ Accounted /\ [Next]_vars => Accounted'
<1> SUFFICES ASSUME TypeInv, Locks, Accounted, [Next]_vars PROVE Accounted'
  OBVIOUS
<1>1. \A p \in Sends : Tells(p)
  BY DEF Accounted
<1>2. UNCHANGED <<reminders, told>> => told' \subseteq SentRows'
  BY DEF Accounted, SentRows
<1>3. UNCHANGED <<job, wrote, erased>> => \A p \in Sends : Tells(p)'
  BY <1>1, TellsQuiet
<1>4. CASE UNCHANGED vars
  BY <1>2, <1>3, <1>4 DEF vars, table, Accounted
<1>5. ASSUME NEW q \in Procs, Work(q) \/ Fail(q) PROVE Accounted'
  <2>1. CASE UpsertRaises(q) \/ FlushRaises(q) \/ Abort(q) \/ Fail(q)
    <3>1. Close(q) /\ UNCHANGED <<reminders, told>>
      BY <2>1 DEF UpsertRaises, FlushRaises, Abort, Fail, Rollback
    <3> QED
      BY <1>1, <1>2, <3>1, TellsClosed DEF Accounted
  <2>2. CASE NextUser(q) \/ Purge(q) \/ Stale(q) \/ Upsert(q)
             \/ Delete(q) \/ Insert(q) \/ Update(q)
    <3>1. UNCHANGED <<reminders, told>>
      BY <2>2 DEF NextUser, Purge, Stale, Upsert, Delete, Insert, Update, Writes, table
    <3> QED
      BY <1>1, <1>2, <2>2, <3>1, TellsBeside DEF Accounted
  <2>3. CASE Commit(q)
    <3>1. Close(q)
      BY <2>3 DEF Commit
    <3> QED
      BY <1>1, <2>3, <3>1, TellsClosed, TellsCommit DEF Accounted
  <2> QED
    BY <1>5, <2>1, <2>2, <2>3 DEF Work, Recompute
<1>6. ASSUME NEW q \in Sends, StartSend(q) \/ Tell(q) \/ Drop(q) \/ Mark(q)
      PROVE  Accounted'
  <2>1. UNCHANGED <<reminders, told>>
    BY <1>6 DEF StartSend, Tell, Drop, Mark, Writes, table
  <2> QED
    BY <1>1, <1>2, <1>6, <2>1, TellsOn, TellsMark DEF Accounted
<1>7. ASSUME NEW q \in Procs \ Sends, NEW r, job' = [job EXCEPT ![q] = r],
             UNCHANGED <<table, told>>
      PROVE  Accounted'
  <2>1. \A p \in Sends : p \in Procs /\ UNCHANGED <<job[p], wrote[p], erased[p]>>
    BY <1>7, ConstantTypes DEF TypeInv, Typed, table
  <2> QED
    BY <1>1, <1>2, <1>7, <2>1, TellsQuiet DEF Accounted, table
<1>8. CASE (\E c \in Recomputes : StartRecompute(c))
           \/ (\E h \in Handlers : Click(h) \/ Save(h))
  <2>1. ASSUME NEW c \in Recomputes, StartRecompute(c) PROVE Accounted'
    BY <1>7, <2>1, ConstantTypes DEF StartRecompute
  <2>2. ASSUME NEW h \in Handlers, Click(h) PROVE Accounted'
    BY <1>7, <2>2, ConstantTypes DEF Click
  <2>3. ASSUME NEW h \in Handlers, Save(h) PROVE Accounted'
    <3>1. job' = [job EXCEPT ![h] = [job[h] EXCEPT !.pc = "next"]]
      BY <2>3, ConstantTypes DEF Save, Goto, TypeInv, Typed
    <3> QED
      BY <1>7, <2>3, <3>1, ConstantTypes DEF Save
  <2> QED
    BY <1>8, <2>1, <2>2, <2>3
<1>9. CASE \E s \in Subs : Hide(s) \/ Reschedule(s)
  BY <1>2, <1>3, <1>9 DEF Hide, Reschedule, Edit, table, Accounted
<1> QED
  BY <1>4, <1>5, <1>6, <1>8, <1>9, TellsTick DEF Next

(* What ToldOnce says of a step.                                            *)
ListsNews == \A p \in Sends : StartSend(p) => job'[p].list \cap told = {}

LEMMA ListsNewsStep == TypeInv /\ Accounted => ListsNews
<1> SUFFICES ASSUME TypeInv, Accounted, NEW p \in Sends, StartSend(p)
             PROVE  job'[p].list \cap told = {}
  BY DEF ListsNews
<1>1. job' = [job EXCEPT ![p] = Listing] /\ Listing.list = DueRows
  BY ListingStep
<1>2. job'[p] = Listing
  BY <1>1, ConstantTypes DEF TypeInv, Typed
<1> QED
  BY <1>1, <1>2 DEF Accounted, SentRows, DueRows

(* Whatever a send that has committed told of, no later send lists, with    *)
(* any number of sends, recomputes and handlers at once and any failures.   *)
THEOREM ToldOnlyOnce == Spec => ToldOnce
<1>1. Spec => []Accounted
  BY TellsInit, TellsStep, RemindersTypesHold, RowsAreLocked, PTL DEF Spec
<1>2. Spec => [][ListsNews]_vars
  BY <1>1, ListsNewsStep, RemindersTypesHold, PTL
<1> QED
  BY <1>2, PTL DEF ToldOnce, ListsNews

=============================================================================
