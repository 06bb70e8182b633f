--------------------------- MODULE ReceiptPipeline ---------------------------
(***************************************************************************)
(* The receipt pipeline of LeakyWallet: parse_candidate jobs (workers/      *)
(* parse.py) that run concurrently in the ARQ worker and write what a       *)
(* receipt says into Postgres through ReceiptService (services/receipts.py) *)
(* and the repositories.  A job is one database transaction under READ      *)
(* COMMITTED: each of its statements sees the rows committed when it starts *)
(* plus the job's own; its rows become visible all at once when it commits. *)
(* An INSERT that meets the same unique key in another open transaction     *)
(* waits for it; it fails if that one commits.  A row cannot be deleted     *)
(* while an open transaction has inserted a row that refers to it.  In the  *)
(* bot, the user may meanwhile disconnect the mailbox or wipe everything.   *)
(*                                                                         *)
(* The schema is the one `alembic upgrade head` builds: unique services     *)
(* (slug) and transactions (account, message), and the foreign keys.  The   *)
(* partial unique indexes that Subscription.__table_args__ declares are not *)
(* in it: upgrade() of their migration, e9397fe3f8e2, is empty.             *)
(***************************************************************************)
EXTENDS Integers, FiniteSets, Billing

CONSTANTS
  Jobs,             \* parse_candidate jobs in the queue
  Users,
  Accounts,         \* their connected mailboxes (email_accounts rows)
  OwnerOf,          \* the user of each account
  Messages,         \* (email account, message id) pairs
  AccountOf,        \* the account of each message
  MsgOf,            \* the message each job was enqueued for
  Keys,             \* (user, catalog service) or (user, sender name) pairs
  UserOf,           \* the user of each key
  KeyOf,            \* the key of the receipt in each message
  Day, Amount,      \* its charged_at and amount
  Stated,           \* the period it states, or NoPeriod
  NoPeriod,
  Slugs, NoSlug,    \* catalog services; NoSlug: keyed by the sender's name
  SlugOf,           \* the catalog service of each key
  Manual,           \* subscriptions the user may have added by hand
  ManualKey,        \* the key their name matches
  ManualRow,        \* their row
  NoSub,            \* "no subscription loaded"
  AddPeriod(_, _),  \* utils/dates.py add_period
  Rerunnable,       \* bound: the jobs that may be run again
  MaxReruns         \* bound: how often

Row == [period : Periods, next : Nat, recurring : BOOLEAN]

ASSUME MessagesAssumption ==
  /\ MsgOf \in [Jobs -> Messages]
  /\ KeyOf \in [Messages -> Keys]
  /\ Day \in [Messages -> Nat]
  /\ Amount \in [Messages -> Nat]
  /\ Stated \in [Messages -> Periods \cup {NoPeriod}]
  /\ NoPeriod \notin Periods
  /\ IsFiniteSet(Messages)

ASSUME OwnersAssumption ==
  /\ OwnerOf \in [Accounts -> Users]
  /\ AccountOf \in [Messages -> Accounts]
  /\ UserOf \in [Keys -> Users]
  /\ \A m \in Messages : UserOf[KeyOf[m]] = OwnerOf[AccountOf[m]]

ASSUME CatalogAssumption ==
  SlugOf \in [Keys -> Slugs \cup {NoSlug}] /\ NoSlug \notin Slugs

(* Manual subscriptions carry no service_id, so only a sender's name can    *)
(* match them.                                                              *)
ASSUME ManualAssumption ==
  /\ ManualKey \in [Manual -> Keys]
  /\ \A s \in Manual : SlugOf[ManualKey[s]] = NoSlug
  /\ ManualRow \in [Manual -> Row]
  /\ Manual \cap (Jobs \X Nat) = {}
  /\ NoSub \notin Manual \cup (Jobs \X Nat)

ASSUME CalendarAssumption ==
  \A m \in Messages, p \in Periods : AddPeriod(Day[m], p) \in Nat

ASSUME BoundsAssumption == MaxReruns \in Nat /\ Rerunnable \subseteq Jobs

VARIABLES
  pc,        \* the next statement of each job
  attempt,   \* which run of the job this is
  sub,       \* the subscription in the job's session
  loaded,    \* its row when the job read or inserted it
  mem,       \* its row in the job's memory
  newSlug,   \* jobs whose open transaction inserted their catalog service
  subs,      \* committed subscriptions: a function from ids to rows
  services,  \* committed catalog services
  txns,      \* committed transactions: [job, sub] records
  users,     \* users who have not wiped their data
  accounts,  \* accounts that exist
  leaving,   \* accounts whose disconnect has read their transactions
  kept       \* ... and the transactions it read

session == <<attempt, sub, loaded, mem, newSlug>>
database == <<subs, services, txns>>
owners == <<users, accounts, leaving, kept>>
vars == <<pc, session, database, owners>>

-----------------------------------------------------------------------------
(* A row a job inserts gets an id no other insert can get.                  *)
SubIds == Manual \cup (Jobs \X (0..MaxReruns))
NewId(j) == <<j, attempt[j]>>
OwnSub(j) == sub[j] = NewId(j)

Key(j) == KeyOf[MsgOf[j]]
Slug(j) == SlugOf[Key(j)]
User(j) == UserOf[Key(j)]
Account(j) == AccountOf[MsgOf[j]]
KeyOfSub(s) == IF s \in Manual THEN ManualKey[s] ELSE Key(s[1])

Txn == [job : Jobs, sub : SubIds]
BlankRow == [period |-> "monthly", next |-> 0, recurring |-> TRUE]

InFlight == {"check", "parsing", "recheck", "findService", "addService", "findSub",
             "addSub", "rereadSub", "addTxn", "refine", "commit"}
Ended == {"recorded", "duplicate", "unparsed", "gone", "failed"}

(* TransactionRepository.exists.  The transactions that outlive their       *)
(* account no longer refer to it.                                           *)
Recorded(m) ==
  AccountOf[m] \in accounts /\ \E t \in txns : MsgOf[t.job] = m

(* _get_by_user_and_key: any row of the user with that service, or with     *)
(* that name and no service, whatever its source.                           *)
SubsWithKey(k) == {s \in DOMAIN subs : KeyOfSub(s) = k}

(* list_by_subscription, as the messages of the rows.                       *)
ChargesOf(s) == {MsgOf[t.job] : t \in {u \in txns : u.sub = s}}

(* The job's open transaction has inserted its transactions row, which also *)
(* locks the subscription and the account it refers to.                     *)
HoldsTxn(j) == pc[j] \in {"refine", "commit"}

Init ==
  /\ pc = [j \in Jobs |-> "queued"]
  /\ attempt = [j \in Jobs |-> 0]
  /\ sub = [j \in Jobs |-> NoSub]
  /\ loaded = [j \in Jobs |-> BlankRow]
  /\ mem = [j \in Jobs |-> BlankRow]
  /\ newSlug = {}
  /\ subs \in {Restrict(ManualRow, S) : S \in SUBSET Manual}
  /\ services \in SUBSET Slugs   \* receipts of other users came before
  /\ txns = {}
  /\ users = Users
  /\ accounts = Accounts
  /\ leaving = {}
  /\ kept = [a \in Accounts |-> {}]

-----------------------------------------------------------------------------
(* Moving on inside a transaction, and leaving it without a commit.         *)
Goto(j, to) == pc' = [pc EXCEPT ![j] = to]

(* Mutation of ForgetSession: the lock on the new slug is not released.     *)
ForgetSessionKeepsSlug(j) ==
  /\ sub' = [sub EXCEPT ![j] = NoSub]
  /\ loaded' = [loaded EXCEPT ![j] = BlankRow]
  /\ mem' = [mem EXCEPT ![j] = BlankRow]
  /\ UNCHANGED newSlug

ForgetSession(j) ==
  /\ sub' = [sub EXCEPT ![j] = NoSub]
  /\ loaded' = [loaded EXCEPT ![j] = BlankRow]
  /\ mem' = [mem EXCEPT ![j] = BlankRow]
  /\ newSlug' = newSlug \ {j}

Leave(j, outcome) ==
  /\ Goto(j, outcome)
  /\ ForgetSession(j)
  /\ UNCHANGED <<attempt, database>>

(* parse_candidate: return at once if the account is gone ...               *)
Start(j) ==
  /\ pc[j] = "queued"
  /\ Goto(j, IF Account(j) \in accounts THEN "check" ELSE "gone")
  /\ UNCHANGED <<session, database, owners>>

(* ... or the message is already recorded.                                  *)
Check(j) ==
  /\ pc[j] = "check"
  /\ \/ Recorded(MsgOf[j]) /\ Goto(j, "duplicate")
     \/ ~Recorded(MsgOf[j]) /\ Goto(j, "parsing")
  /\ UNCHANGED <<session, database, owners>>

(* parse_message: a receipt, or none (or an exception, which also ends the  *)
(* job for good).                                                           *)
Parse(j) ==
  /\ pc[j] = "parsing"
  /\ Goto(j, "recheck") \/ Goto(j, "unparsed")
  /\ UNCHANGED <<session, database, owners>>

(* The second look of record_receipt, after the slow parse.                 *)
Recheck(j) ==
  /\ pc[j] = "recheck"
  /\ \/ Recorded(MsgOf[j]) /\ Goto(j, "duplicate")
     \/ /\ ~Recorded(MsgOf[j])
        /\ Goto(j, IF Slug(j) = NoSlug THEN "findSub" ELSE "findService")
  /\ UNCHANGED <<session, database, owners>>

(* ServiceRepository.get_or_create: look the slug up ...                    *)
FindService(j) ==
  /\ pc[j] = "findService"
  /\ Goto(j, IF Slug(j) \in services THEN "findSub" ELSE "addService")
  /\ UNCHANGED <<session, database, owners>>

(* Mutation of AddService: no savepoint, the conflict ends the job.         *)
AddServiceRaises(j) ==
  /\ pc[j] = "addService"
  /\ ~ \E i \in newSlug \ {j} : Slug(i) = Slug(j)
  /\ \/ /\ Slug(j) \notin services
        /\ newSlug' = newSlug \cup {j}
        /\ Goto(j, "findSub")
        /\ UNCHANGED <<attempt, sub, loaded, mem, database, owners>>
     \/ Slug(j) \in services /\ Leave(j, "failed") /\ UNCHANGED owners

(* ... insert it under a savepoint; a conflict with a row committed since   *)
(* is caught and the winner's row read again (services are never deleted,   *)
(* so it is there).                                                         *)
AddService(j) ==
  /\ pc[j] = "addService"
  /\ ~ \E i \in newSlug \ {j} : Slug(i) = Slug(j)
  /\ newSlug' = IF Slug(j) \in services THEN newSlug ELSE newSlug \cup {j}
  /\ Goto(j, "findSub")
  /\ UNCHANGED <<attempt, sub, loaded, mem, database, owners>>

(* The session now holds a committed subscription.                          *)
Adopt(j, s) ==
  /\ sub' = [sub EXCEPT ![j] = s]
  /\ loaded' = [loaded EXCEPT ![j] = subs[s]]
  /\ mem' = [mem EXCEPT ![j] = subs[s]]
  /\ Goto(j, "addTxn")
  /\ UNCHANGED <<attempt, newSlug, database, owners>>

(* get_or_create_email: look the key up; no order, first row wins.          *)
FindSub(j) ==
  /\ pc[j] = "findSub"
  /\ \/ \E s \in SubsWithKey(Key(j)) : Adopt(j, s)
     \/ /\ SubsWithKey(Key(j)) = {}
        /\ Goto(j, "addSub")
        /\ UNCHANGED <<session, database, owners>>

(* Mutation of NewRow: receipt.period is used without the default.          *)
NewRowNoDefault(m) ==
  [period |-> Stated[m], next |-> Day[m], recurring |-> TRUE]

NewRow(m) ==
  LET period == IF Stated[m] = NoPeriod THEN "monthly" ELSE Stated[m]
  IN  [period |-> period, next |-> AddPeriod(Day[m], period),
       recurring |-> TRUE]

(* Mutation of InsertSub: the new subscription is committed at once.        *)
InsertSubCommits(j) ==
  /\ sub' = [sub EXCEPT ![j] = NewId(j)]
  /\ loaded' = [loaded EXCEPT ![j] = NewRow(MsgOf[j])]
  /\ mem' = [mem EXCEPT ![j] = NewRow(MsgOf[j])]
  /\ subs' = [s \in DOMAIN subs \cup {NewId(j)} |->
                IF s = NewId(j) THEN NewRow(MsgOf[j]) ELSE subs[s]]
  /\ Goto(j, "addTxn")
  /\ UNCHANGED <<attempt, newSlug, services, txns, owners>>

InsertSub(j) ==
  /\ sub' = [sub EXCEPT ![j] = NewId(j)]
  /\ loaded' = [loaded EXCEPT ![j] = NewRow(MsgOf[j])]
  /\ mem' = [mem EXCEPT ![j] = NewRow(MsgOf[j])]
  /\ Goto(j, "addTxn")
  /\ UNCHANGED <<attempt, newSlug, database, owners>>

(* The insert violates no constraint: the user exists (foreign key).        *)
SubFits(j) == User(j) \in users

(* ... insert it under a savepoint.  The insert of another job for the same *)
(* key is no conflict; on one, look the key up again ...                    *)
AddSub(j) ==
  /\ pc[j] = "addSub"
  /\ \/ SubFits(j) /\ InsertSub(j)
     \/ /\ ~SubFits(j)
        /\ Goto(j, "rereadSub")
        /\ UNCHANGED <<session, database, owners>>

(* ... and raise the IntegrityError again if there is no row of the key, as *)
(* there is none of a user who is gone.                                     *)
RereadSub(j) ==
  /\ pc[j] = "rereadSub"
  /\ \/ \E s \in SubsWithKey(Key(j)) : Adopt(j, s)
     \/ SubsWithKey(Key(j)) = {} /\ Leave(j, "failed") /\ UNCHANGED owners

OpenInsert(j) == \E i \in Jobs \ {j} : HoldsTxn(i) /\ MsgOf[i] = MsgOf[j]

(* Both rows the transaction refers to exist.                               *)
ReferencesExist(j) ==
  Account(j) \in accounts /\ (OwnSub(j) \/ sub[j] \in DOMAIN subs)

(* Mutations of AddTxn: no unique constraint on (account, message); no      *)
(* foreign key to the account.                                              *)
AddTxnUnchecked(j) ==
  /\ pc[j] = "addTxn"
  /\ ReferencesExist(j)
  /\ Goto(j, "refine")
  /\ UNCHANGED <<session, database, owners>>

AddTxnNoAccountKey(j) ==
  /\ pc[j] = "addTxn"
  /\ ~OpenInsert(j) /\ ~Recorded(MsgOf[j])
  /\ OwnSub(j) \/ sub[j] \in DOMAIN subs
  /\ Goto(j, "refine")
  /\ UNCHANGED <<session, database, owners>>

(* TransactionRepository.create: wait for an open insert of the same        *)
(* message; fail on a committed one, or when the account or the             *)
(* subscription is gone (foreign keys).                                     *)
AddTxn(j) ==
  /\ pc[j] = "addTxn"
  /\ ~OpenInsert(j)
  /\ \/ /\ ~Recorded(MsgOf[j]) /\ ReferencesExist(j)
        /\ Goto(j, "refine")
        /\ UNCHANGED <<session, database, owners>>
     \/ /\ Recorded(MsgOf[j]) \/ ~ReferencesExist(j)
        /\ Leave(j, "failed")
        /\ UNCHANGED owners

(* Mutation of RefinePeriod: the next charge is not moved.                  *)
RefinePeriodOnly(row, S) ==
  IF Cardinality(S) < 2 THEN row ELSE [row EXCEPT !.period = InferPeriod(Day, S)]

(* _refine_period: a measured period that differs replaces the row's and    *)
(* moves the next charge.                                                   *)
RefinePeriod(row, S) ==
  LET inferred == InferPeriod(Day, S)
  IN  IF Cardinality(S) < 2 \/ inferred = row.period THEN row
      ELSE [row EXCEPT !.period = inferred,
                       !.next = AddPeriod(LastDay(Day, S), inferred)]

(* Mutation of RefineFlag: two charges are taken for evidence.              *)
RefineFlagTooEarly(row, S) ==
  IF Cardinality(S) >= 2 /\ LooksOneOff(Day, Amount, S)
  THEN [row EXCEPT !.recurring = FALSE]
  ELSE row

(* _refine_recurring_flag: from three charges on, one-off purchases are     *)
(* flagged.                                                                 *)
RefineFlag(row, S) ==
  IF Cardinality(S) >= 3 /\ LooksOneOff(Day, Amount, S)
  THEN [row EXCEPT !.recurring = FALSE]
  ELSE row

(* The end of record_receipt: list the subscription's transactions and      *)
(* refine the object in the session.                                        *)
Refine(j) ==
  /\ pc[j] = "refine"
  /\ LET S == ChargesOf(sub[j]) \cup {MsgOf[j]}
     IN  mem' = [mem EXCEPT ![j] = RefineFlag(RefinePeriod(mem[j], S), S)]
  /\ Goto(j, "commit")
  /\ UNCHANGED <<attempt, sub, loaded, newSlug, database, owners>>

(* Mutation of Flush: the whole object is written back.                     *)
FlushAll(row, j) == mem[j]

(* The UPDATE at commit writes only the columns that changed in memory.     *)
Flush(row, j) ==
  [c \in {"period", "next", "recurring"} |->
     IF mem[j][c] # loaded[j][c] THEN mem[j][c] ELSE row[c]]

Commit(j) ==
  /\ pc[j] = "commit"
  /\ subs' = [s \in DOMAIN subs \cup {sub[j]} |->
                IF s # sub[j] THEN subs[s]
                ELSE Flush(IF OwnSub(j) THEN loaded[j] ELSE subs[s], j)]
  /\ services' = IF j \in newSlug THEN services \cup {Slug(j)} ELSE services
  /\ txns' = txns \cup {[job |-> j, sub |-> sub[j]]}
  /\ Goto(j, "recorded")
  /\ ForgetSession(j)
  /\ UNCHANGED <<attempt, owners>>

Step(j) ==
  \/ Start(j) \/ Check(j) \/ Parse(j) \/ Recheck(j) \/ FindService(j)
  \/ AddService(j) \/ FindSub(j) \/ AddSub(j) \/ RereadSub(j) \/ AddTxn(j)
  \/ Refine(j) \/ Commit(j)

-----------------------------------------------------------------------------
(* The worker dies, or is shut down, before ARQ has stored the job's result:*)
(* Postgres rolls an open transaction back and ARQ runs the job again, also *)
(* when it had already committed.                                           *)
Rerun(j) ==
  /\ pc[j] # "queued"
  /\ j \in Rerunnable /\ attempt[j] < MaxReruns
  /\ Goto(j, "queued")
  /\ ForgetSession(j)
  /\ attempt' = [attempt EXCEPT ![j] = @ + 1]
  /\ UNCHANGED <<database, owners>>

(* disconnect_email in the bot.  The session first reads the transactions   *)
(* that refer to the account (again, if an earlier attempt was cut off) ... *)
DisconnectRead(a) ==
  /\ a \in accounts
  /\ leaving' = leaving \cup {a}
  /\ kept' = [kept EXCEPT ![a] = {t \in txns : AccountOf[MsgOf[t.job]] = a}]
  /\ UNCHANGED <<pc, session, database, users, accounts>>

(* ... sets their reference to NULL and deletes the account; a transaction  *)
(* committed in between goes with the account by the cascade of the foreign *)
(* key.                                                                     *)
DisconnectDelete(a) ==
  /\ a \in leaving
  /\ ~ \E j \in Jobs : HoldsTxn(j) /\ Account(j) = a
  /\ accounts' = accounts \ {a}
  /\ txns' = {t \in txns : AccountOf[MsgOf[t.job]] = a => t \in kept[a]}
  /\ leaving' = leaving \ {a}
  /\ kept' = [kept EXCEPT ![a] = {}]
  /\ UNCHANGED <<pc, session, subs, services, users>>

(* What disappears with a user's row.  A job that has inserted a            *)
(* subscription locks the user's row and will want the account's: it and    *)
(* the wipe block each other, and Postgres aborts one.                      *)
SubsOf(u) == {s \in DOMAIN subs : UserOf[KeyOfSub(s)] = u}

(* Mutation of AccountsOf: an account that is being disconnected is left.   *)
AccountsOfIdle(u) == {a \in Accounts \ leaving : OwnerOf[a] = u}

AccountsOf(u) == {a \in Accounts : OwnerOf[a] = u}
Blocked(u) == {j \in Jobs : OwnSub(j) /\ User(j) = u}

Forget(u) ==
  /\ u \in users
  /\ ~ \E j \in Jobs : HoldsTxn(j) /\ User(j) = u
  /\ users' = users \ {u}
  /\ accounts' = accounts \ AccountsOf(u)
  /\ leaving' = leaving \ AccountsOf(u)
  /\ kept' = [a \in Accounts |-> IF OwnerOf[a] = u THEN {} ELSE kept[a]]
  /\ subs' = [s \in DOMAIN subs \ SubsOf(u) |-> subs[s]]
  /\ pc' = [j \in Jobs |-> IF j \in Blocked(u) THEN "failed" ELSE pc[j]]
  /\ sub' = [j \in Jobs |-> IF j \in Blocked(u) THEN NoSub ELSE sub[j]]
  /\ loaded' = [j \in Jobs |-> IF j \in Blocked(u) THEN BlankRow ELSE loaded[j]]
  /\ mem' = [j \in Jobs |-> IF j \in Blocked(u) THEN BlankRow ELSE mem[j]]
  /\ newSlug' = newSlug \ Blocked(u)
  /\ UNCHANGED <<attempt, services>>

(* Mutation of Wipe: the transactions are not deleted with the rest.        *)
WipeKeepsTransactions(u) == Forget(u) /\ UNCHANGED txns

(* confirm_wipe in the bot: everything of the user goes, unless Postgres    *)
(* aborts the wipe instead of the jobs that block it.                       *)
Wipe(u) == Forget(u) /\ txns' = {t \in txns : t.sub \notin SubsOf(u)}

(* The queue is drained: the only state in which nothing more may happen.   *)
Drained == (\A j \in Jobs : pc[j] \in Ended) /\ UNCHANGED vars

Next ==
  \/ \E j \in Jobs : Step(j) \/ Rerun(j)
  \/ \E a \in Accounts : DisconnectRead(a) \/ DisconnectDelete(a)
  \/ \E u \in Users : Wipe(u)
  \/ Drained

Spec == Init /\ [][Next]_vars

(* ARQ's event loop runs every job it has started, and Postgres wakes a     *)
(* transaction that waits for another.                                      *)
FairSpec == Spec /\ \A j \in Jobs : WF_vars(Step(j))

-----------------------------------------------------------------------------
TypeOK ==
  /\ pc \in [Jobs -> {"queued"} \cup InFlight \cup Ended]
  /\ attempt \in [Jobs -> 0..MaxReruns]
  /\ sub \in [Jobs -> SubIds \cup {NoSub}]
  /\ loaded \in [Jobs -> Row]
  /\ mem \in [Jobs -> Row]
  /\ newSlug \subseteq Jobs
  /\ DOMAIN subs \subseteq SubIds
  /\ subs \in [DOMAIN subs -> Row]
  /\ services \subseteq Slugs
  /\ txns \subseteq Txn
  /\ users \subseteq Users
  /\ accounts \subseteq Accounts
  /\ leaving \subseteq accounts
  /\ kept \in [Accounts -> SUBSET Txn]

(* However many jobs carry the same message, and however often each is run  *)
(* again, the message is recorded as one transaction (parse_candidate's     *)
(* check, record_receipt's check, the unique constraint).                   *)
OneChargePerMessage ==
  \A t, u \in txns : MsgOf[t.job] = MsgOf[u.job] => t = u

(* Concurrent first receipts of one service or sender end up in one email   *)
(* subscription, as README.md:82-84 and db/models/subscription.py:39-43 say *)
(* of get_or_create_email and the partial unique indexes.                   *)
OneEmailSubscriptionPerKey ==
  \A r, s \in DOMAIN subs \ Manual : KeyOfSub(r) = KeyOfSub(s) => r = s

(* A recorded transaction belongs to a subscription that exists and has the *)
(* key of the transaction's own receipt, whatever the user wiped between    *)
(* the job's lookup and its insert (record_receipt, the foreign keys).      *)
ChargesHaveTheirSubscription ==
  \A t \in txns : t.sub \in DOMAIN subs /\ KeyOfSub(t.sub) = Key(t.job)

(* After a wipe nothing of the user is left or comes back, although jobs of *)
(* the user were at any statement when the wipe was committed (confirm_wipe:*)
(* "Все твои данные удалены").                                              *)
WipeLeavesNothing ==
  /\ \A s \in DOMAIN subs : UserOf[KeyOfSub(s)] \in users
  /\ \A t \in txns : User(t.job) \in users
  /\ \A a \in accounts : OwnerOf[a] \in users

(* A subscription taken from mail is only ever visible together with a      *)
(* receipt that justifies it: a job that fails leaves none behind (one      *)
(* commit per parse_candidate), as long as its account is connected.        *)
EmailSubscriptionsHaveCharges ==
  \A s \in DOMAIN subs \ Manual :
    Account(s[1]) \in accounts => ChargesOf(s) # {}

(* While the account is connected, a job that got past the parse leaves its *)
(* message recorded, by itself or by the job it lost to: losing a race for  *)
(* a service, a subscription or a transaction never drops a receipt.        *)
NoReceiptLost ==
  \A j \in Jobs :
    Account(j) \in accounts /\ pc[j] \in {"recorded", "duplicate", "failed"}
      => Recorded(MsgOf[j])

(* All accounts of the user who has the key are connected.                  *)
Connected(k) == AccountsOf(UserOf[k]) \subseteq accounts

(* A subscription is flagged as one-off purchases only on the evidence of   *)
(* three or more of its own recorded charges (_refine_recurring_flag), as   *)
(* long as no charge of it was lost with its account.                       *)
FlagHasEvidence ==
  \A s \in DOMAIN subs \ Manual :
    Connected(KeyOfSub(s)) /\ ~subs[s].recurring =>
      \E S \in SUBSET ChargesOf(s) :
        Cardinality(S) >= 3 /\ LooksOneOff(Day, Amount, S)

(* Two receipts of a key, by different periods, lead to the same day: a      *)
(* quarter after 1 January is a month after 1 March.                        *)
DatesCoincide(k) ==
  \E m, n \in {r \in Messages : KeyOf[r] = k}, p, q \in Periods :
    p # q /\ AddPeriod(Day[m], p) = AddPeriod(Day[n], q)

(* A row's next charge is a period after one of the receipts in S, and the  *)
(* period is the row's own unless dates of the key coincide.                *)
Dated(row, k, S) ==
  \E m \in S, p \in Periods :
    row.next = AddPeriod(Day[m], p) /\ (p = row.period \/ DatesCoincide(k))

(* The next charge of an email subscription is one of its periods after one *)
(* of its recorded charges: jobs that refine it concurrently do not mix the *)
(* period of one with the date of another.  (They do mix them when dates    *)
(* coincide: a job then changes the period and finds the new date equal to  *)
(* the one it read, so that its UPDATE leaves the other job's date there.)  *)
ScheduleIsCoherent ==
  \A s \in DOMAIN subs \ Manual :
    Connected(KeyOfSub(s)) => Dated(subs[s], KeyOfSub(s), ChargesOf(s))

(* No job clears the flag a concurrent job has just set: a stale copy of    *)
(* the row is never written back ("no way back without a manual edit").     *)
FlagNeverClears ==
  [][\A s \in DOMAIN subs \cap DOMAIN subs' :
       ~subs[s].recurring => ~subs'[s].recurring]_vars

(* Every job of the queue comes to an end: no two of them wait for each     *)
(* other's rows.                                                            *)
EveryJobEnds == \A j \in Jobs : <>[](pc[j] \in Ended)
=============================================================================
