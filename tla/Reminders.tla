------------------------------ MODULE Reminders ------------------------------
(***************************************************************************)
(* The reminders of LeakyWallet: the hourly recompute_reminders job and the *)
(* five-minute send_due_reminders job of the worker (workers/notify.py) and *)
(* the settings handlers of the bot (bot/handlers/settings.py).  Each is    *)
(* one READ COMMITTED transaction over the reminders table                  *)
(* (services/reminders.py, repositories/reminders.py), taken here           *)
(* statement by statement.                                                  *)
(*                                                                         *)
(* ARQ gives each time of a cron job an id of its own: behind a backlog     *)
(* several sends, and even several recomputes, start late and run at once.  *)
(* It ends a job after 300 seconds, so the hour turns at most once while a  *)
(* transaction is open.  A fire time is kept as the number of hours until   *)
(* it; 0 is due.                                                            *)
(***************************************************************************)
EXTENDS Integers, FiniteSets, FiniteSetsExt

CONSTANTS
  Users, Subs, OwnerOf,      \* subscriptions, numbered as they were created,
                             \* and the user each belongs to
  Recomputes, Sends,         \* the jobs of the worker
  Handlers, UserOf,          \* settings handlers and the user of each
  Week, Month,               \* hours of a week, of a month
  DigestHour,                \* hour of the week, of the month: the digest's
  Zones,                     \* hours by which a user's clock may be ahead
  FirstPolicy,               \* the policy of each user at the start
  Punctual,                  \* does every job run once an hour, in it?
  MaxLead,                   \* bound: hours until a charge's reminder
  MaxClicks,                 \* bound: changes of settings and of charges
  MaxFails                   \* bound: failed jobs, handlers and messages

Kinds == {"days_before", "weekly_digest", "monthly_report"}
Policies == Kinds \cup {"off"}
Procs == Recomputes \cup Sends \cup Handlers
NoSub == 0                   \* the subscription of a digest's row: NULL
Targets == Subs \cup {NoSub}
Hours == Min({n \in 1..(Week * Month) : n % Week = 0 /\ n % Month = 0})
                             \* the calendar repeats

ASSUME RemindersAssumption ==
  /\ Users # {} /\ IsFiniteSet(Procs)
  /\ OwnerOf \in [Subs -> Users] /\ UserOf \in [Handlers -> Users]
  /\ Subs \subseteq Nat \ {NoSub}
  /\ Recomputes \cap Sends = {} /\ (Recomputes \cup Sends) \cap Handlers = {}
  /\ Week \in Nat \ {0, 1} /\ Month \in Nat \ {0}
  /\ DigestHour \in Nat /\ DigestHour < Week /\ DigestHour < Month
  /\ Zones \subseteq Nat /\ 0 \in Zones
  /\ FirstPolicy \in [Users -> Policies]
  /\ Punctual \in BOOLEAN
  /\ MaxLead \in Nat /\ MaxClicks \in Nat /\ MaxFails \in Nat

VARIABLES
  hour,       \* the hour of the calendar
  ran,        \* the jobs a punctual worker has started in it
  lead,       \* hours until the reminder of each subscription's next charge,
              \* in zone 0; -1: it has passed, or there is no date
  visible,    \* subscriptions that are neither cancelled nor one-off
  setting,    \* the committed policy and zone of each user
  reminders,  \* the committed table: a function from ids to rows
  wrote,      \* rows inserted or updated by each open transaction
  erased,     \* ids of the rows deleted by each open transaction
  job,        \* what each process is doing
  told,       \* rows of which a send that has committed told the user
  touched,    \* users that others handled while each recompute was open
  clicks, fails

clock == <<hour, ran>>
charges == <<lead, visible>>
table == <<reminders, wrote, erased>>
vars == <<clock, charges, setting, table, job, told, touched, clicks, fails>>

Empty == [i \in {} |-> 0]
Put(f, i, v) == [x \in DOMAIN f \cup {i} |-> IF x = i THEN v ELSE f[x]]

Setting == [policy : Policies, zone : Zones]
Row == [user : Users, sub : Targets, kind : Kinds, fire : Nat, sent : BOOLEAN]

(* A session: seen are the users' settings as its objects hold them, was as *)
(* they were read; todo and user, the users to recompute and the one at     *)
(* hand; plan, the fire time of each target of that user; left and at, the  *)
(* targets still to do and the one at hand; hits, the rows a DELETE has     *)
(* still to visit; row, the id of the reminder at hand; list, the due rows  *)
(* still to tell of and said, those told of; lag, 1 if the hour has turned. *)
Fresh ==
  [pc |-> "idle", seen |-> Empty, was |-> Empty, todo |-> {},
   user |-> CHOOSE u \in Users : TRUE,
   plan |-> Empty, left |-> {}, at |-> NoSub, hits |-> {}, row |-> 0,
   list |-> {}, said |-> {}, lag |-> 0]
-----------------------------------------------------------------------------
(* A mutation: the week's digest computed as the month's report is.         *)
WeeklyInNext(n, z) == Week - ((n + z) % Week) + DigestHour

(* calculate_weekly_digest_fire_at: the next digest hour strictly after n   *)
WeeklyIn(n, z) == Min({d \in 1..Week : (n + z + d) % Week = DigestHour})

(* calculate_monthly_report_fire_at: on the first of the NEXT local month   *)
MonthlyIn(n, z) == Month - ((n + z) % Month) + DigestHour

(* calculate_days_before_fire_at: 10:00 local is earlier in zones ahead     *)
DaysBeforeIn(s, z) == lead[s] - z

Less(n, m) == IF n > m THEN n - m ELSE 0

(* A mutation: a charge whose reminder has passed is kept.                  *)
PlanUnbounded(u, policy, zone, lag) == LET now == hour + Hours - lag IN
  CASE policy = "days_before" ->
         [s \in {s \in visible : OwnerOf[s] = u} |-> Less(DaysBeforeIn(s, zone), 0)]
    [] policy = "weekly_digest" -> [t \in {NoSub} |-> WeeklyIn(now, zone) - lag]
    [] policy = "monthly_report" -> [t \in {NoSub} |-> MonthlyIn(now, zone) - lag]
    [] policy = "off" -> Empty

(* The reminders recompute_for_user wants the user to have, by a now of lag *)
(* hours ago: what was ahead then may be due.                               *)
Plan(u, policy, zone, lag) == LET now == hour + Hours - lag IN
  CASE policy = "days_before" ->
         [s \in {s \in visible : OwnerOf[s] = u /\ DaysBeforeIn(s, zone) > -lag} |->
            DaysBeforeIn(s, zone)]
    [] policy = "weekly_digest" -> [t \in {NoSub} |-> WeeklyIn(now, zone) - lag]
    [] policy = "monthly_report" -> [t \in {NoSub} |-> MonthlyIn(now, zone) - lag]
    [] policy = "off" -> Empty

(* What p's statements see: the committed rows and its own writes.          *)
View(p) ==
  [i \in (DOMAIN reminders \cup DOMAIN wrote[p]) \ erased[p] |->
     IF i \in DOMAIN wrote[p] THEN wrote[p][i] ELSE reminders[i]]

(* A mutation: the conditions without sent_at IS NULL.                      *)
PendingAlsoSent(f, u) == {i \in DOMAIN f : f[i].user = u}

Pending(f, u) == {i \in DOMAIN f : f[i].user = u /\ ~f[i].sent}

(* The transactions p must wait for before it may change row i.             *)
Holders(p, i) == {q \in Procs \ {p} : i \in DOMAIN wrote[q] \cup erased[q]}
Free(p, i) == Holders(p, i) = {}

(* A handler that changed the user holds the users row until it ends.       *)
HoldsUser(h) == job[h].pc \notin {"idle", "save"} /\ job[h].seen # job[h].was
UserHolders(h) == {q \in Handlers \ {h} : UserOf[q] = UserOf[h] /\ HoldsUser(q)}

(* An id is never given twice: not while a session names it, either.        *)
Named(p) == DOMAIN wrote[p] \cup job[p].hits \cup {job[p].row}
              \cup job[p].list \cup job[p].said
UsedIds == DOMAIN reminders \cup UNION {Named(p) : p \in Procs}
NewId == Min((1..(1 + Cardinality(UsedIds))) \ UsedIds)

Goto(p, pc) == job' = [job EXCEPT ![p].pc = pc]
Writes(p, i, r) ==
  wrote' = [wrote EXCEPT ![p] = Put(wrote[p], i, r)]
    /\ UNCHANGED <<reminders, erased>>

(* The session is closed: its objects and locks are gone.                   *)
Close(p) == /\ job' = [job EXCEPT ![p] = Fresh]
            /\ wrote' = [wrote EXCEPT ![p] = Empty]
            /\ erased' = [erased EXCEPT ![p] = {}]
            /\ touched' = [c \in Recomputes |-> IF c = p THEN {} ELSE touched[c]]

(* The transaction is rolled back: nobody knows whom a send told.           *)
Rollback(p) == Close(p) /\ UNCHANGED <<reminders, setting, told>>
-----------------------------------------------------------------------------
Init ==
  /\ hour = 0 /\ ran = {}
  /\ lead \in [Subs -> -1..MaxLead] /\ visible = Subs
  /\ setting = [u \in Users |-> [policy |-> FirstPolicy[u], zone |-> 0]]
  /\ reminders = Empty
  /\ wrote = [p \in Procs |-> Empty] /\ erased = [p \in Procs |-> {}]
  /\ job = [p \in Procs |-> Fresh]
  /\ told = {} /\ touched = [c \in Recomputes |-> {}] /\ clicks = 0 /\ fails = 0

Open(p) == job[p].pc # "idle"
Starts(p) == /\ ~Open(p)
             /\ Punctual => p \notin ran
             /\ ran' = IF Punctual THEN ran \cup {p} ELSE ran

(* recompute_reminders starts with the users that have reminders enabled.   *)
StartRecompute(c) ==
  /\ Starts(c)
  /\ job' = [job EXCEPT ![c] =
       [Fresh EXCEPT !.pc = "next", !.seen = setting, !.was = setting,
                     !.todo = {u \in Users : setting[u].policy # "off"}]]
  /\ LET others == {d \in Recomputes \ {c} : Open(d)} IN
     touched' = [d \in Recomputes |->
       CASE d \in others -> Users
         [] d = c /\ others # {} -> Users
         [] d = c /\ others = {} -> {UserOf[h] : h \in {h \in Handlers : Open(h)}}
         [] OTHER -> touched[d]]
  /\ UNCHANGED <<hour, charges, setting, table, told, clicks, fails>>

(* set_reminder_policy and set_timezone: the user was loaded by the         *)
(* middleware, and one attribute is set.                                    *)
Click(h) == LET u == UserOf[h] IN
  /\ ~Open(h) /\ clicks < MaxClicks
  /\ \E new \in Setting :
       /\ new.policy = setting[u].policy \/ new.zone = setting[u].zone
       /\ job' = [job EXCEPT ![h] =
            [Fresh EXCEPT !.pc = "save", !.was = [x \in {u} |-> setting[u]],
                          !.seen = [x \in {u} |-> new], !.todo = {u}]]
  /\ touched' = [c \in Recomputes |->
                   IF Open(c) THEN touched[c] \cup {u} ELSE touched[c]]
  /\ clicks' = clicks + 1
  /\ UNCHANGED <<clock, charges, setting, table, told, fails>>

(* The first query flushes the user: an UPDATE, if something has changed.   *)
Save(h) == /\ job[h].pc = "save"
           /\ job[h].seen # job[h].was => UserHolders(h) = {}
           /\ Goto(h, "next")
           /\ UNCHANGED <<clock, charges, setting, table, told, touched, clicks,
                          fails>>

(* The next user of the session, in any order: list_visible is read and     *)
(* recompute_for_user knows what it wants.  A recompute took its now as it  *)
(* started, a handler takes it here.                                        *)
NextUser(p) == \E u \in job[p].todo : LET s == job[p].seen[u] IN
  /\ job[p].pc = "next"
  /\ job' = [job EXCEPT ![p] =
       [job[p] EXCEPT !.pc = "purge", !.user = u, !.todo = @ \ {u},
                      !.plan = Plan(u, s.policy, s.zone,
                                    IF p \in Recomputes THEN job[p].lag ELSE 0)]]
  /\ UNCHANGED <<clock, charges, setting, table, told, touched, clicks, fails>>

(* A DELETE with no row left to visit is over: recompute_for_user goes on   *)
(* to the loop over the subscriptions, the one upsert of a digest, or       *)
(* nothing; days_before ends with delete_stale_days_before.                 *)
Settle(r) ==
  LET begun == IF r.pc = "purging" /\ r.hits = {}
                 THEN [r EXCEPT !.pc = "upsert", !.left = DOMAIN r.plan] ELSE r
      daysBefore == r.seen[r.user].policy = "days_before"
      over == \/ begun.pc = "upsert" /\ begun.left = {} /\ ~daysBefore
              \/ r.pc = "staling" /\ r.hits = {}
  IN CASE over -> [begun EXCEPT !.pc = "next", !.plan = Empty]
       [] begun.pc = "upsert" /\ begun.left = {} /\ daysBefore ->
            [begun EXCEPT !.pc = "stale"]
       [] OTHER -> begun

(* A mutation: delete_pending_for_user deletes nothing.                     *)
PurgeSkipped(p) ==
  /\ job[p].pc = "purge"
  /\ job' = [job EXCEPT ![p] = Settle([@ EXCEPT !.pc = "purging"])]
  /\ UNCHANGED <<clock, charges, setting, table, told, touched, clicks, fails>>

(* delete_pending_for_user: the DELETE first finds the pending rows of the  *)
(* other kinds ...                                                          *)
Purge(p) == LET u == job[p].user IN
  /\ job[p].pc = "purge"
  /\ job' = [job EXCEPT ![p] = Settle([@ EXCEPT !.pc = "purging",
        !.hits = {i \in Pending(View(p), u) :
                    View(p)[i].kind # job[p].seen[u].policy}])]
  /\ UNCHANGED <<clock, charges, setting, table, told, touched, clicks, fails>>

(* ... and then locks them one by one; a row that has changed in between is *)
(* looked at again.  delete_stale_days_before does the same.                *)
Delete(p) == \E i \in job[p].hits :
  /\ job[p].pc \in {"purging", "staling"}
  /\ Free(p, i)
  /\ erased' = IF i \in Pending(View(p), job[p].user)
                 THEN [erased EXCEPT ![p] = @ \cup {i}] ELSE erased
  /\ job' = [job EXCEPT ![p] = Settle([job[p] EXCEPT !.hits = @ \ {i}])]
  /\ UNCHANGED <<clock, charges, setting, reminders, wrote, told, touched, clicks,
                 fails>>

(* get_pending: the ids it finds for one target.                            *)
Found(p, t) == LET u == job[p].user IN
  {i \in Pending(View(p), u) : /\ View(p)[i].sub = t
                               /\ View(p)[i].kind = job[p].seen[u].policy}

(* upsert_pending reads; an UPDATE follows only if the fire time differs,   *)
(* as two that are due may.                                                 *)
Upsert(p) == LET t == Min(job[p].left)  found == Found(p, t) IN
  /\ job[p].pc = "upsert" /\ Cardinality(found) <= 1
  /\ \/ /\ found = {}
        /\ job' = [job EXCEPT ![p] = [@ EXCEPT !.pc = "insert", !.at = t]]
     \/ \E i \in found :
          /\ View(p)[i].fire # job[p].plan[t] \/ job[p].plan[t] = 0
          /\ job' = [job EXCEPT ![p] =
               [@ EXCEPT !.pc = "update", !.at = t, !.row = i]]
     \/ \E i \in found :
          /\ View(p)[i].fire = job[p].plan[t]
          /\ job' = [job EXCEPT ![p] = Settle([job[p] EXCEPT !.left = @ \ {t}])]
  /\ UNCHANGED <<clock, charges, setting, table, told, touched, clicks, fails>>

(* scalar_one_or_none raises MultipleResultsFound: everything is rolled     *)
(* back, for all users of the recompute.                                    *)
UpsertRaises(p) ==
  /\ job[p].pc = "upsert"
  /\ Cardinality(Found(p, Min(job[p].left))) > 1
  /\ Rollback(p) /\ UNCHANGED <<clock, charges, clicks, fails>>

NextTarget(p) ==
  job' = [job EXCEPT ![p] = Settle([job[p] EXCEPT
            !.pc = "upsert", !.left = @ \ {job[p].at}, !.at = NoSub, !.row = 0])]

Insert(p) == LET u == job[p].user IN
  /\ job[p].pc = "insert"
  /\ Writes(p, NewId, [user |-> u, sub |-> job[p].at, sent |-> FALSE,
                       kind |-> job[p].seen[u].policy,
                       fire |-> job[p].plan[job[p].at]])
  /\ NextTarget(p)
  /\ UNCHANGED <<clock, charges, setting, told, touched, clicks, fails>>

(* The UPDATE of a flush names the row by its id and sets the columns that  *)
(* changed, in whatever version of the row is the last.                     *)
Update(p) == LET i == job[p].row IN
  /\ job[p].pc = "update" /\ Free(p, i) /\ i \in DOMAIN View(p)
  /\ Writes(p, i, [View(p)[i] EXCEPT !.fire = job[p].plan[job[p].at]])
  /\ NextTarget(p)
  /\ UNCHANGED <<clock, charges, setting, told, touched, clicks, fails>>

(* An UPDATE that finds no row raises StaleDataError.                       *)
FlushRaises(p) == LET i == job[p].row IN
  /\ job[p].pc \in {"update", "mark"} /\ Free(p, i) /\ i \notin DOMAIN View(p)
  /\ Rollback(p) /\ UNCHANGED <<clock, charges, clicks, fails>>

(* delete_stale_days_before finds the rows of no wanted subscription.       *)
Stale(p) ==
  /\ job[p].pc = "stale"
  /\ job' = [job EXCEPT ![p] = Settle([@ EXCEPT !.pc = "staling",
        !.hits = {i \in Pending(View(p), job[p].user) :
                    /\ View(p)[i].kind = "days_before"
                    /\ View(p)[i].sub \notin DOMAIN job[p].plan}])]
  /\ UNCHANGED <<clock, charges, setting, table, told, touched, clicks, fails>>

(* session.commit(), or DbSessionMiddleware's: of the user only the         *)
(* attribute that was set is written.                                       *)
Publish(p) ==
  /\ reminders' = View(p)
  /\ setting' = [u \in Users |->
       IF p \in Handlers /\ u = UserOf[p]
         THEN LET was == job[p].was[u]  seen == job[p].seen[u] IN
              [policy |-> IF seen.policy = was.policy THEN setting[u].policy
                            ELSE seen.policy,
               zone |-> IF seen.zone = was.zone THEN setting[u].zone
                          ELSE seen.zone]
         ELSE setting[u]]

Commit(p) ==
  /\ job[p].pc \in {"next", "tell"} /\ job[p].todo = {}
  /\ job[p].list = {}
  /\ Publish(p) /\ Close(p)
  /\ told' = told \cup job[p].said
  /\ UNCHANGED <<clock, charges, clicks, fails>>
-----------------------------------------------------------------------------
(* send_due_reminders: list_due, a SELECT that locks nothing.               *)
StartSend(p) ==
  /\ Starts(p)
  /\ job' = [job EXCEPT ![p] =
       [Fresh EXCEPT !.pc = "tell",
          !.list = {i \in DOMAIN reminders :
                      reminders[i].fire = 0 /\ ~reminders[i].sent}]]
  /\ UNCHANGED <<hour, charges, setting, table, told, touched, clicks, fails>>

(* bot.send_message for one of the listed reminders.                        *)
Tell(p) == \E i \in job[p].list :
  /\ job[p].pc = "tell"
  /\ job' = [job EXCEPT ![p] = [job[p] EXCEPT
       !.pc = "mark", !.row = i, !.list = @ \ {i}, !.said = @ \cup {i}]]
  /\ UNCHANGED <<clock, charges, setting, table, told, touched, clicks, fails>>

(* Telegram refuses or does not answer: the reminder stays pending.         *)
Drop(p) == \E i \in job[p].list :
  /\ job[p].pc = "tell" /\ fails < MaxFails
  /\ fails' = fails + 1
  /\ job' = [job EXCEPT ![p].list = @ \ {i}]
  /\ UNCHANGED <<clock, charges, setting, table, told, touched, clicks>>

Marked(p) == job' = [job EXCEPT ![p] = [@ EXCEPT !.pc = "tell", !.row = 0]]

(* A mutation: no mark_sent after a message.                                *)
MarkForgotten(p) ==
  /\ job[p].pc = "mark" /\ Marked(p)
  /\ UNCHANGED <<clock, charges, setting, table, told, touched, clicks, fails>>

(* mark_sent and flush: the row is marked whoever has marked it before.     *)
Mark(p) == LET i == job[p].row IN
  /\ job[p].pc = "mark" /\ Free(p, i) /\ i \in DOMAIN View(p)
  /\ Writes(p, i, [View(p)[i] EXCEPT !.sent = TRUE]) /\ Marked(p)
  /\ UNCHANGED <<clock, charges, setting, told, touched, clicks, fails>>
-----------------------------------------------------------------------------
(* Whom p waits for at its next statement.                                  *)
WaitsFor(p) ==
  CASE job[p].pc = "save" ->
         IF job[p].seen = job[p].was THEN {} ELSE UserHolders(p)
    [] job[p].pc \in {"purging", "staling"} ->
         IF \E i \in job[p].hits : Free(p, i) THEN {}
           ELSE UNION {Holders(p, i) : i \in job[p].hits}
    [] job[p].pc \in {"update", "mark"} -> Holders(p, job[p].row)
    [] OTHER -> {}

(* A mutation: a deadlock is not noticed.                                   *)
DeadlockedNever(p) == FALSE

(* Postgres ends a deadlock by aborting one of the transactions.            *)
Deadlocked(p) ==
  \E S \in SUBSET Procs : /\ p \in S
                          /\ \A q \in S : /\ WaitsFor(q) \cap S # {}
                                          /\ \E r \in S : q \in WaitsFor(r)
Abort(p) == /\ Deadlocked(p)
            /\ Rollback(p) /\ UNCHANGED <<clock, charges, clicks, fails>>

(* A job or a handler that raises, is timed out or dies with its process;   *)
(* the worker may run its job again.                                        *)
Fail(p) ==
  /\ Open(p) /\ fails < MaxFails
  /\ fails' = fails + 1
  /\ ran' \in {ran, ran \ {p}}
  /\ Rollback(p) /\ UNCHANGED <<hour, charges, clicks>>

Edit == /\ clicks < MaxClicks
        /\ clicks' = clicks + 1
        /\ UNCHANGED <<clock, setting, table, job, told, touched, fails>>

(* A subscription is cancelled, or flagged as one-off.                      *)
Hide(s) == /\ s \in visible
           /\ visible' = visible \ {s}
           /\ Edit /\ UNCHANGED lead

(* The next charge of a subscription is edited or refined.                  *)
Reschedule(s) == /\ \E n \in (-1..MaxLead) \ {lead[s]} :
                      lead' = [lead EXCEPT ![s] = n]
                 /\ Edit /\ UNCHANGED visible

(* An hour passes.  Rows that were sent are never looked at again and are   *)
(* forgotten, unless an open session still names them.                      *)
Tick ==
  /\ \A p \in Procs : job[p].lag = 0
  /\ Punctual => /\ Recomputes \cup Sends \subseteq ran
                 /\ \A p \in Procs : ~Open(p)
  /\ ran' = {}
  /\ hour' = (hour + 1) % Hours
  /\ LET kept == {i \in DOMAIN reminders :
                    ~reminders[i].sent \/ \E p \in Procs : i \in Named(p)}
         closer(r) == [r EXCEPT !.fire = Less(@, 1)]
     IN /\ lead' = [s \in Subs |-> IF lead[s] = -1 THEN -1 ELSE lead[s] - 1]
        /\ reminders' = [i \in kept |-> closer(reminders[i])]
        /\ wrote' = [p \in Procs |-> [i \in DOMAIN wrote[p] |-> closer(wrote[p][i])]]
        /\ told' = told \cap kept
  /\ job' = [p \in Procs |-> IF ~Open(p) THEN job[p] ELSE
       [job[p] EXCEPT !.lag = 1,
                      !.plan = [t \in DOMAIN @ |-> Less(@[t], 1)]]]
  /\ UNCHANGED <<visible, setting, erased, touched, clicks, fails>>

Recompute(p) ==
  \/ NextUser(p) \/ Purge(p) \/ Delete(p) \/ Upsert(p) \/ UpsertRaises(p)
  \/ Insert(p) \/ Update(p) \/ Stale(p)
Work(p) == Recompute(p) \/ FlushRaises(p) \/ Commit(p) \/ Abort(p)

Next ==
  \/ Tick
  \/ \E c \in Recomputes : StartRecompute(c)
  \/ \E p \in Sends : StartSend(p) \/ Tell(p) \/ Drop(p) \/ Mark(p)
  \/ \E h \in Handlers : Click(h) \/ Save(h)
  \/ \E p \in Procs : Work(p) \/ Fail(p)
  \/ \E s \in Subs : Hide(s) \/ Reschedule(s)

Spec == Init /\ [][Next]_vars

(* ARQ starts what is due, Postgres wakes who waits for a lock, aiogram and *)
(* asyncio resume whose answer has come; time passes.  Nothing is asked of  *)
(* users, of failures or of charges.                                        *)
FairSpec ==
  /\ Spec
  /\ WF_vars(Tick)
  /\ \A c \in Recomputes : WF_vars(StartRecompute(c))
  /\ \A p \in Sends : WF_vars(StartSend(p)) /\ WF_vars(Tell(p)) /\ WF_vars(Mark(p))
  /\ \A p \in Procs : WF_vars(Work(p))
  /\ \A h \in Handlers : WF_vars(Save(h))
-----------------------------------------------------------------------------
PCs == {"idle", "save", "next", "purge", "purging", "upsert", "insert",
        "update", "stale", "staling", "tell", "mark"}
IsTable(f, S) == DOMAIN f \subseteq Nat /\ \A i \in DOMAIN f : f[i] \in S
IsSettings(f) == DOMAIN f \subseteq Users /\ \A u \in DOMAIN f : f[u] \in Setting

(* Every variable has its type; what a session plans is still to come,      *)
(* unless the hour has turned since.                                        *)
TypeOK ==
  /\ hour \in Nat /\ ran \subseteq Recomputes \cup Sends
  /\ lead \in [Subs -> -1..MaxLead] /\ visible \subseteq Subs
  /\ setting \in [Users -> Setting]
  /\ IsTable(reminders, Row)
  /\ DOMAIN wrote = Procs /\ \A p \in Procs : IsTable(wrote[p], Row)
  /\ erased \in [Procs -> SUBSET Nat]
  /\ DOMAIN job = Procs
  /\ \A p \in Procs :
       /\ DOMAIN job[p] = DOMAIN Fresh /\ job[p].pc \in PCs
       /\ job[p].user \in Users /\ job[p].todo \subseteq Users
       /\ IsSettings(job[p].seen) /\ IsSettings(job[p].was)
       /\ DOMAIN job[p].plan \subseteq Targets
       /\ \A t \in DOMAIN job[p].plan :
            job[p].plan[t] \in Nat /\ (job[p].lag = 0 => job[p].plan[t] > 0)
       /\ job[p].left \subseteq DOMAIN job[p].plan /\ job[p].at \in Targets
       /\ job[p].hits \subseteq Nat /\ job[p].row \in Nat
       /\ job[p].list \subseteq Nat /\ job[p].said \subseteq Nat
       /\ job[p].lag \in {0, 1}
  /\ told \subseteq Nat /\ touched \in [Recomputes -> SUBSET Users]
  /\ clicks \in 0..MaxClicks /\ fails \in 0..MaxFails

(* A reminder that a send has marked and committed stays sent, whatever a   *)
(* recompute or another send, which read the row before, writes to it or    *)
(* deletes (the sent_at IS NULL conditions, and UPDATEs of single columns). *)
SentIsFinal ==
  [][hour' = hour =>
       \A i \in DOMAIN reminders :
         reminders[i].sent => i \in DOMAIN reminders' /\ reminders'[i].sent]_vars

(* Once a send has committed, no send that starts later lists a reminder of *)
(* which it told, whatever ran beside the two and whatever fails afterwards.*)
(* Sends that overlap may both tell of one reminder (list_due locks none).  *)
ToldOnce ==
  [][\A p \in Sends : StartSend(p) => job'[p].list \cap told = {}]_vars

(* The pending reminders of u are of the policy, one for each target ...    *)
OfPolicy(u) ==
  \A i \in Pending(reminders, u) :
    /\ reminders[i].kind = setting[u].policy
    /\ \A j \in Pending(reminders, u) :
         reminders[j].sub = reminders[i].sub => i = j

(* ... and still to come.                                                   *)
Ahead(u) == \A i \in Pending(reminders, u) : reminders[i].fire > 0

(* When a recompute commits, every user with reminders enabled whom nobody  *)
(* else handled meanwhile has pending reminders of the policy only, one for *)
(* each target and, if the hour has not turned, all in the future, whatever *)
(* was there before and whatever the sends did at the same time.            *)
RecomputeRepairs ==
  [][\A c \in Recomputes : Commit(c) =>
       \A u \in Users \ touched[c] : setting[u].policy # "off" =>
         OfPolicy(u)' /\ (job[c].lag = 0 => Ahead(u)')]_vars

(* Every job and every handler comes to an end, whoever waits for whom.     *)
TransactionsEnd == \A p \in Procs : Open(p) ~> ~Open(p)

(* Once a user keeps to a policy, the pending reminders are in the end of   *)
(* that policy and one for each target.  A recompute that read the old      *)
(* policy may have put others back, and one that ran beside a handler or    *)
(* another may have made a second row, which makes every later recompute    *)
(* raise until both rows are due and sent.                                  *)
PolicyPrevails ==
  \A u \in Users, k \in Kinds :
    <>[](setting[u].policy = k) =>
      <>[](\A i, j \in Pending(reminders, u) :
             /\ reminders[i].kind = k
             /\ reminders[i].sub = reminders[j].sub => i = j)

ComesDue(u, k) ==
  <>[](setting[u].policy = k) =>
    []<>(\E i \in Pending(reminders, u) :
           reminders[i].kind = k /\ reminders[i].fire = 0)

(* The weekly digest of a user who keeps to it becomes due again and again, *)
(* although every recompute computes its time anew.                         *)
WeeklyComesDue == \A u \in Users : ComesDue(u, "weekly_digest")

(* The monthly report of a user who keeps to it becomes due again and again *)
(* (keyboards.py:40 offers it: "Ежемесячный отчёт").                        *)
MonthlyComesDue == \A u \in Users : ComesDue(u, "monthly_report")
=============================================================================
