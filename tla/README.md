# LeakyWallet: a TLA+ verification project

LeakyWallet is a Telegram bot that finds subscriptions in a user's mail. A
FastAPI/aiogram process talks to the user; an ARQ worker process scans
mailboxes, parses receipts and sends reminders; both share one Postgres
database and one Redis. This directory models the parts of the program whose
correctness depends on what runs at the same time, checks the models with TLC
and proves theorems about them with TLAPS. Paths below are relative to
`src/LeakyWallet/` in the repository unless they say otherwise.

## Inventory

How the parts run: every Telegram update is one SQLAlchemy session, committed
after its handler (`bot/middlewares/db_session.py`); every ARQ job is one or
more sessions of its own. aiogram handles updates concurrently, ARQ runs up to
ten jobs concurrently, and ARQ runs a job again if the worker dies before it
stored the job's result. All transactions are READ COMMITTED. So the actors
are: bot updates, cron jobs (hourly recompute, five-minute send, fifteen-minute
scan), scan jobs, parse jobs, the OAuth callback.

| component | state | operations | interacts with | what is hard | what makes it correct |
|---|---|---|---|---|---|
| receipt pipeline (`workers/parse.py`, `services/receipts.py`, `repositories/{subscriptions,transactions,services}.py`) | rows of `services`, `subscriptions`, `transactions` | `parse_candidate`, `record_receipt`, `get_or_create*`, refine | scan enqueues jobs; bot edits and wipes the rows | lookups and inserts of concurrent jobs interleave; savepoints; stale copies written back; reruns | a message is recorded once or not at all, under a subscription of its own service or sender; no orphan rows; conflicts lose nothing and block nobody for ever |
| billing arithmetic (`utils/dates.py`, `utils/money.py`) | none | `add_period`, `infer_period_from_intervals`, `has_same_day_repeat`, `amounts_are_consistent`, parsing, equivalents | pipeline, reminders, analytics | month ends, thresholds, rounding | results stay in range and match a plain definition |
| reminders (`services/reminders.py`, `workers/notify.py`, `repositories/reminders.py`) | rows of `reminders`, the user's policy and timezone | recompute, `list_due`, send, `mark_sent`, settings change | hourly and five-minute cron, bot | recompute and send race; send commits once per batch; two inserts of one pending row | one reminder per due charge, none after "off", every due one is sent |
| mail scan (`workers/scan.py`, `mail/gmail.py`) | account cursor and status | list, fetch, enqueue, commit cursor | Gmail API, parse queue, bot messages | listing and cursor are read apart; failure between enqueue and commit; error status | no message is skipped; rescans are harmless; an account recovers |
| email accounts, OAuth (`services/email_accounts.py`, `mail/oauth.py`, `main.py`) | `email_accounts` rows, one-time states in Redis | auth url, callback, connect, refresh, disconnect | Google, bot, scan | two callbacks; refresh races connect; cursor of another mailbox | a state is used once; one account per user and provider |
| LLM quota and cache (`parsing/llm.py`) | counter and cache in Redis | INCR/EXPIRE, GET/SET | parse jobs | two calls are not atomic; stampede | the quota is never exceeded; the counter expires |
| parsing rules, catalogue (`parsing/pipeline.py`, `rules.py`, `catalog.py`) | none | text in, receipt out | LLM | - | - |
| subscription management (`bot/handlers/subscriptions.py`, `manual_add.py`, `services/subscriptions.py`) | `subscriptions` rows, FSM state in memory | list, edit, delete (= cancel), add by hand | pipeline | dialogs interleave with each other and with jobs; state lost on restart | an edit hits the chosen row; a cancelled one stays hidden |
| onboarding, settings (`bot/handlers/start.py`, `settings.py`) | user row | start, timezone, currency, policy | reminders | two first updates | one user row; reminders follow the policy |
| privacy (`bot/handlers/privacy.py`) | everything of a user | export, wipe | all | wipe races running jobs | nothing is left, nothing comes back |
| middlewares | session, user row | commit after handler, create user | all handlers | message sent before the commit | what the user is told is true |
| analytics, export (`services/analytics.py`, `services/export.py`) | none of their own; `subscriptions`, `transactions` | totals, top, categories, trend, dormant | reads what pipeline and dialogs write | two conditions select what is summed; months over New Year; charges recorded out of order | the screens agree with each other and with the rows |
| lifecycle (`main.py`, `workers/arq_app.py`) | - | start, graceful stop | all | jobs cut off | reruns are harmless |
| schema and migrations | unique and foreign keys | upgrade | all | model classes and migrations differ | the keys the code relies on exist |

The hazards are listed one by one, with their lines and the properties that
cover them, in `PROJECT.json`.

## Modules

| module | models |
|---|---|
| `Billing` | periods, `InferPeriod`, `SameDayRepeat`, `AmountsConsistent` |
| `Calendar` | the Gregorian calendar and `CalendarAddPeriod` (`add_period`) |
| `ReceiptPipeline` | `parse_candidate` jobs statement by statement, disconnect and wipe |
| `ReceiptLedger` | the abstract specification: a ledger of messages |
| `ReceiptRefinement` | the mapping from the pipeline to the ledger |
| `Reminders` | `recompute_reminders`, `send_due_reminders` and the settings handlers, statement by statement |
| `MailScan` | the OAuth callback, connect and disconnect, and the scan jobs, request by request |
| `Dialogs` | the bot's dialogs with one user under the middlewares: adding, editing, cancelling, onboarding, wiping |
| `LlmQuota` | the daily quota and the cache of the language model in Redis |
| `Screens` | the list with its pages, the totals and the analytics, over rows that receipts, edits and time change |
| `ReceiptPipelineProofs`, `ReceiptEvidenceProofs`, `ReceiptRefinementProofs` | theorems about the pipeline; the second and third build on the first |
| `RemindersProofs`, `DialogsProofs`, `MailScanProofs`, `LlmQuotaProofs` | theorems about the module of the same name |
| `ScreensProofs` | theorems about `Screens`, `Calendar` and `Billing`, and the lemmas on sums and lists they rest on |
| `MCReceiptPipeline`, `MCReminders`, `MCMailScan`, `MCDialogs`, `MCLlmQuota`, `MCScreens` | the instances for TLC |

Operators that stand before a definition under the comment "A mutation" are
plausible bugs of it. No specification uses them; replacing the definition by one
of them must make TLC find the property violated that `PROJECT.json` pairs it with.

### ReceiptPipeline

A job is a program counter `pc[j]`, each value of which is the next statement
of `parse_candidate`:

    queued -> check -> parsing -> recheck -> findService -> addService -> findSub
      -> addSub -> rereadSub -> addTxn -> refine -> commit -> recorded
    other ends: gone (no account), duplicate, unparsed, failed (an exception)

`sub[j]`, `loaded[j]` and `mem[j]` are the subscription object in the job's
session: its id, the column values when it was read or inserted, and the values
in memory. `newSlug` are the jobs whose open transaction has inserted a
`services` row. `subs`, `services` and `txns` are the committed tables, `users`
and `accounts` the committed rows the others refer to. The amount and currency
of a subscription are left out because nothing in the pipeline reads them again.

- Uncommitted rows are not in the tables; `OwnSub(j)` and `HoldsTxn(j)` say that
  the job's transaction holds one. An insert that meets the same unique key in
  another open transaction waits (the guards of `AddService` and `AddTxn`),
  and then fails or succeeds according to what is committed. Failed inserts of
  services and subscriptions are inside a savepoint and continue with a second
  read (`AddService`, `RereadSub`); a failed insert of a transaction ends the job.
- `Commit` writes only the columns whose value in memory differs from the loaded
  one (`Flush`), which is what SQLAlchemy's UPDATE does.
- `Rerun` is a worker that dies, or is shut down, before ARQ has stored the
  result, at any statement or after the commit.
- `DisconnectRead` and `DisconnectDelete` are the two halves of deleting an
  account: the session reads the account's transactions, sets their reference to
  NULL, and deletes the row, which waits for open transactions that refer to it;
  rows committed in between go with it (`ON DELETE CASCADE`). A transaction that
  outlives its account is no longer found by `exists`.
- `Wipe` deletes the user with everything below. It waits for open transactions
  that refer to its rows; a job that has inserted a subscription but not yet its
  transaction is in a deadlock with it, which Postgres resolves by aborting one of
  the two (`Blocked`): either the wipe does not happen now, or the job fails.
- `Init` lets any set of catalogue services exist already.
- Dates are whole days. The code's `timedelta.days` cuts off hours, so the
  average of the real gaps can be smaller than the model's by less than a day;
  receipts with a date in the text are all dated at noon, where the two agree.

The schema is the one the migrations build (`alembic upgrade head`). It has the
unique keys of services and transactions and the foreign keys, but not the two
partial unique indexes on email subscriptions that
`db/models/subscription.py:44-59` declares: `upgrade()` of the migration for them
is empty. So the insert of a subscription (`AddSub`) waits for nobody and fails
only for a user who is gone, and a key may get several subscriptions (finding 3).

### ReceiptLedger

The pipeline's promise without statements and crashes: a job enters its message in
one step, at most once for a message and only while its account is connected, under
a subscription of the receipt's own key that is open or that this entry opens;
entries leave only by a disconnect or a wipe, subscriptions only by a wipe. A key may
have several subscriptions. `ImplementsLedger` maps `entries` to the committed
transactions (which job's, under which subscription), `open` to the committed
subscriptions with their keys, those added by hand included, and `connected` to the
existing accounts; a job that is half done is invisible.

### Reminders

Three kinds of process, each one transaction: recomputes (`Recomputes`), sends
(`Sends`) and settings handlers (`Handlers`), any number of each. `job[p]` is the
session of a process: `pc` is its next statement,

    recompute:  next -> purge -> purging -> upsert -> insert | update -> ...
                  ... -> stale -> staling (days_before only) -> next -> commit
    handler:    save -> next -> ... as the recompute, for one user
    send:       tell -> mark -> tell -> ... -> commit

and the other fields are the objects the session holds: the settings as they were
read (`was`) and as they are now (`seen`), the users still `todo`, the fire time of
every wanted target (`plan`), the row at hand, the due rows of a send (`list`).
`reminders` is the committed table, `wrote[p]` and `erased[p]` what the open
transaction of `p` has inserted, updated and deleted; `View(p)` is what its
statements see.

- A `DELETE` takes the ids it matches at its start (`Purge`, `Stale`) and then
  locks them one by one, looking at the latest version of each (`Delete`). An
  `UPDATE` names the id and sets one column of the latest version (`Update`,
  `Mark`); if the row is gone it raises `StaleDataError` (`FlushRaises`). Every
  change of a row waits for other transactions that changed it (`Free`), and
  Postgres aborts somebody in a circle of waits (`Abort`).
- `upsert_pending` is a read and then an insert or an update (`Upsert`, `Insert`,
  `Update`); with two pending rows the read raises (`UpsertRaises`) and everything
  the session did is rolled back. SQLAlchemy emits an update only if the value
  differs. `Settle` is the control flow of `recompute_for_user` between statements.
- The handler's change of the user is flushed by its first query (`Save`), which
  locks the users row against a second handler if something changed; `Publish`
  writes only the attribute that was set.
- The worker: ARQ gives each time of a cron job an id of its own
  (`workers/arq_app.py:67-68`), so behind a backlog several sends, and several
  recomputes, start late and run at once. `StartSend` and `StartRecompute` are
  therefore free at any time, unless `Punctual` assumes a worker that runs each of its
  jobs once an hour and ends it in the hour.
- Time: the hour of a calendar that repeats. ARQ ends a job after 300 seconds, and a
  handler is shorter, so the hour turns at most once while a transaction is open
  (`lag`, the guard of `Tick`). A recompute keeps the `now` of its start: what it
  plans after the turn may be due already. A fire time is the number of hours until
  it. `WeeklyIn`, `MonthlyIn` and `DaysBeforeIn` are the three
  `calculate_*_fire_at`; a timezone is a number of hours ahead. Sent rows are dropped
  by `Tick`, unless a session still names them: every query asks for
  `sent_at IS NULL`.
- `Hide` and `Reschedule` stand for whoever cancels, flags, edits or refines a
  subscription. `Fail` is an exception, a timeout, or a death of the worker, after
  which ARQ may run the job again. `Drop` is a message Telegram did not take.
- `NewId` gives an id that no row and no session names, as a database sequence
  does; the smallest such id, so that the state space stays finite. There always is
  one because transactions are finitely many (`RemindersAssumption`).
- A week has at least two hours (168 in the code), so that `Tick` moves the clock.
- Left out: users and subscriptions that are deleted (their reminders go with
  them), the texts, a worker without a bot token.

`told` and `touched` are history: the rows of which a send that has committed told
the user, and for each open recompute the users whom a handler or another recompute
may have handled since it began.

### MailScan

One user and his mailboxes. A message of a mailbox is its number and the newest
number is the mailbox's history id; `Relevant` says which messages the query and
the filter keep. A row of `accounts` has the address (`box`), the token with the
mailbox it opens, the status and the cursor.

| action | code |
|---|---|
| `OpenSettings` | `open_email_settings`: a link with a state in Redis, if there is no account |
| `PopState` | the redirect: GETDEL of the state (`mail/oauth.py`) |
| `Connect` | token exchange, profile and the lookup of the user's account |
| `InsertAccount`, `UpdateAccount` | the commit of `connect`: a new row, or the address, token and status of the one found |
| `EnqueueFirst` | the first scan job |
| `DisconnectRead`, `Disconnect` | `disconnect_email`: the lookup, and the DELETE in the middleware's commit |
| `ScanAll`, `Load` | the cron job, and a job that starts |
| `GetToken` | `get_valid_access_token` |
| `ListHistory`, `HistoryGone`, `ListBootstrap`, `FetchMetadata`, `ReadProfile` | `GmailClient.fetch_since`, one page or request a step |
| `Enqueue`, `SaveCursor` | the loop over the candidates and the commit |
| `ReadFails`, `SaveError`, `RowGone`, `ScanDies` | the failures: a marked account, a row that was deleted, a job that ends without a trace or is run again |

A scan keeps the row as its session read it (`scan[s].row`) through all requests
and writes only the columns it changed, so a commit can meet a row that another
scan, a reconnect or a disconnect has changed. `UpdateAccount` likewise compares
with what `Connect` read (`over`, `was`). `TokenExpires`, `ForgetHistory` and
`Arrive` are Google's. A request that `_request_with_backoff` repeats is one step
that succeeds or fails. `blind`, `moved` and `raced` record what the code really
gets wrong, so that the properties can except exactly that: messages that arrive
between a bootstrap's list and the history id it reads afterwards; accounts another
address was connected over, which keep the cursor of the old mailbox; requests for
two links that look for an account before either has inserted one.

### Dialogs

aiogram keeps `state` and `data` of a dialog in memory and handles every update in
a task of its own. `update[t]` is a task:

    idle -> user (the state has chosen the handler) [-> create] -> handle
         [-> further queries and messages] -> reply -> idle (commit or rollback)

The handlers are the actions named after them; `Show` stands for those that only
send messages. The session commits after the handler (`Commit`), and only the
columns that changed are written (`Flush`). `Fail` is a refused message or commit:
the session is rolled back and the dialog's state is not. `Restart` loses all
dialogs and updates under way; the buttons in the chat remain, so `Requests` offers
every id a button may still carry.

A value the user enters is represented by what it was meant for: the subscription
that was asked about (`asked`), or the number of the add dialog. So "the edit went
to another subscription" and "this subscription has the name of one dialog and the
amount of another" are visible. `late` counts the updates that come from the first
overlap on. The properties about meanings are stated for `late = 0`, that is, as
long as the user's updates were handled one after the other: the handler is chosen
by a state read before the middleware's query, and with overlapping updates an
amount is indeed applied to the wrong subscription (a hazard of the code listed in
`PROJECT.json`). `OwnersExist` and `CancelledStaysCancelled` hold with overlap.

### LlmQuota

Each Redis command, and the request, is a step of a job, and a job may die at each:

    get -> incr -> [expire ->] call -> answer -> idle

A counter has a value and an expiry; INCR makes one that never expires, EXPIRE sets
25 hours. Time goes in steps of the hour by which the counter outlives its day, and
`Tick` uses that ARQ ends a job after five minutes: at most one step lies between
reading the date and INCR. A counter whose job died before EXPIRE stays in Redis
for ever; its key is of a past day then and nobody reads it.

### Screens

`ListVisible`, `TotalPages`, `Clamp`, `PageItems` and `NavRow` are the list's pages
and buttons; `MonthlyTotal` and `YearlyTotal` its totals; `TopSpending`,
`Categories`, `Trend` and `FindDormant` the analytics. They are operators over the
rows, compared with each other and with plain definitions in every state that
receipts in any order, manual subscriptions, price changes, cancels and the clock
produce. `offered` are the pages to which buttons still in the chat lead. Each
screen is taken from one state of the tables. `Trend` is the query with its cutoff,
the first day of the oldest key (`FirstDayOf`, `ListByUserSince`), and then the loop
that counts by key. A subscription is active or cancelled: no code sets
`SubscriptionStatus.PAUSED`, so the list's `!= CANCELLED` and the analytics'
`== ACTIVE` say the same here as they do in the program; if a later version pauses
subscriptions, the two will differ and the model needs the third status.

## Runs

| run | instance | shows |
|---|---|---|
| `duplicates` | two jobs for one message, one for another user's receipt of the same service; a rerun of two of the jobs; disconnects and wipes of both users; the service known or new | nothing is recorded twice, lost, orphaned or left after a wipe; the race for the shared services row leaves nobody waiting; the ledger is implemented |
| `history` | four receipts of one sender, two on one day, one of a very different amount; a subscription of the sender's name may have been added by hand | the flag has evidence and stays, period and date belong together, whichever partial histories the jobs saw and however many subscriptions they opened; none is empty; the ledger is implemented |
| `race` (violation) | the first two receipts of one service | finding 3 |
| `batch` | a recompute, two sends and a handler of one user, overlapping in any way and over the turn of the hour; one change of a setting or a charge | a sent reminder stays sent and is listed no more; a recompute leaves what the policy wants |
| `settings` | one recompute, one send, one handler, one change of a setting or a charge, one failure, one subscription, a worker that keeps up, fairness | transactions end, the policy prevails, the digest comes due again and again |
| `monthly` (violation) | one user with the monthly report, a punctual worker | finding 1 |
| `scan` | two scans of one mailbox at once, two relevant messages, pages of one, one failure, fairness | the cursor passes nothing that was not enqueued; everything is enqueued in the end |
| `connect` | three requests for up to three links and two mailboxes, a scan, one failure or disconnect | one account unless two links race; a disconnected account stays away |
| `stuck` (violation) | one scan, one message, one failure, fairness | finding 2 |
| `dialogs` | two add dialogs, two subscriptions, two tasks, one overlap, any number of failures and restarts | before the overlap, entries go where they were meant to go; cancels and wipes are final, with the overlap too |
| `quota` | three jobs, two texts, a limit of two, two days | never more requests than the limit, none turned down below it |
| `screens` | two subscriptions on pages of one, three receipts, days from August over New Year to March | pages, totals and analytics agree |

**Bounds.** A race for a row needs two jobs; the third and fourth add the job that
finds the loser's or winner's row, and the third charge `_refine_recurring_flag`
needs. `MaxReruns = 1` lets each job be cut off or repeated at every statement; a
second rerun starts from the same states as the first. In `duplicates` one of the
two jobs for one message and the other user's job may be rerun (`Rerunnable`); the
other job for that message is like the first. Reruns are left out of `history`,
whose questions are about concurrent jobs; the proofs have them. The days and
amounts of `history` are chosen so that different subsets measure as weekly,
monthly and quarterly and look one-off for either reason. Disconnects and wipes
are not bounded beyond one per account and user row, as in the code: a new
connection gets a new row and its mail new `Messages`.

For the reminders, a week of two or three hours and a month of two to four keep
what matters: a digest hour that is neither the first nor every hour, so that
recomputes run before, at and after it, and weeks that end inside a run. Two sends
that start at any time are what an overlap takes; they are interchangeable
(`SendsAlike`). `MaxLead` lets a charge's reminder lie ahead, become due and pass.
`MaxClicks` bounds the changes of settings and of charges together, `MaxFails` the
failures; the clock and the number of rows are not bounded. `batch` has no `Fail`,
which `settings` has and the proofs allow any number of; a deadlock's victim and a
recompute that raises are rolled back there as well.

The liveness runs assume a worker that keeps up (`Punctual`). Without it a send that is
always started late can meet the recompute again and again, each time in a deadlock
that ends one of the two, and nothing would ever be sent or repaired. Overlapping
sends, an hour that turns in mid-transaction and late starts are in `batch`, whose
properties are safety.

For the scans, two messages and pages of one make a history of two pages whose
listing can be cut in the middle, and two scans may be at any two requests.
`MaxUpsets = 1` is one failure, death, expiry, forgotten history or disconnect, at
any moment; `NothingIsPassedOver` and its companions are proved for any number.
`MaxQueue = 1` loses nothing: queued scans of one account are alike and the cron
job queues more for ever. In `connect` three requests are one more than a race
needs; the links differ only in which requests share one (`LinksAreAlike`), and the
requests are interchangeable.

In `dialogs` two add dialogs and two subscriptions are the least that can be mixed
up; once updates overlapped (`MaxLate = 1`), no property asks for meanings, and the
view forgets them. In `quota` a limit of two and three jobs let jobs compete for
the last call and for the first; a day of two steps and a clock of three have jobs
before, at and after midnight and counters that expire. In `screens` the months
August, December, January and March put charges at the edge of the six months, on
month ends `add_period` clamps, and on both sides of New Year; pages of one make
two subscriptions two pages.

`FlagHasEvidence` and `ScheduleIsCoherent` are stated for users whose accounts are
all connected, `EmailSubscriptionsHaveCharges` for subscriptions whose account is:
a disconnect that races a job may delete the transaction the job committed
(`DisconnectDelete`), and then the subscription remains without it. That is the
code's behaviour, listed as a hazard.

`ScheduleIsCoherent` asks that a row's next charge is a period of its own after a
recorded charge, and excepts keys with receipts whose dates coincide
(`DatesCoincide`: a month after one receipt is the day a quarter after another).
There the code does mix two jobs: one changes the period, finds the new next date
equal to the one it had loaded, and so its UPDATE leaves in place a date that a
concurrent job has committed (`services/receipts.py:92-107`). Three receipts of one
sender on days 0, 7 and 59, one of them stating its period, are enough. The days of
`history` have no coincidence, so the run checks the strict form.

`ToldOnce` is about rows and commits: what a committed send told of is listed by no
send that starts later. It is checked with a handler and two sends, and proved for any
number of them. It does not say that a user reads a reminder once, and the code does
not see to that: two sends that overlap list the same rows and both tell of them, a
send that is cut off leaves its rows pending, and a target for which two recomputes, or
a recompute and a handler, each inserted a row is told of once for each row. The
repository promises nothing about repetition, so no run states it as a claim.

**Fairness.** `FairSpec` of `ReceiptPipeline` asks weak fairness of each job's
next statement: ARQ's event loop resumes a job whose statement has completed, and
Postgres wakes a transaction that waits for a lock when the holder ends. Nothing
is asked of the user, of the parser's verdict or of a crash. `EveryJobEnds` uses
it; the refinement is a safety property. `Drained` is the one state that may last.
`FairSpec` of `Reminders` asks the same of its processes and of the clock, and
`Punctual` says that the worker starts each job once an hour and ends it in the
hour; `batch` does without it. Changes of settings and charges and failures may
come at any moment, but their number is bounded: against a Telegram that refuses
for ever `PolicyPrevails` does not hold. `FairSpec` of `MailScan` asks weak
fairness of the cron job, of a scan's and a callback's next step and of a
disconnect's commit, and strong fairness of starting a queued job: a slot of the
worker may be taken by another job in between, but ARQ takes the oldest first.
Nothing is asked of mail, users and failures; failures are bounded by `MaxUpsets`,
without which a scan that never fits ARQ's 300 seconds would start again for ever
(a hazard of the code).

## Findings

1. `monthly`: the monthly report is moved to the next month by the recomputes of
   the morning it is due, so it never becomes due while the worker runs hourly.
2. `stuck`: a failed scan sets the account to ERROR and only ACTIVE accounts are
   scanned, so the promised retry (`bot/texts.py:162`) never comes.
3. `race`: two jobs with the first receipts of one service, or one sender, open two
   email subscriptions. The repository's README (82-84) says this race is closed by
   partial unique indexes, and `db/models/subscription.py:39-43` that the database
   rejects the second insert; the migration that should create them is empty
   (`migrations/versions/e9397fe3f8e2_*.py:20`). The tests do not show it because they
   build the tables from the model classes (`tests/conftest.py:36`).

Met while modelling, and described here without a run of their own:

- Under READ COMMITTED each of several concurrent jobs sees too few charges: a
  subscription with three one-off charges stays unflagged until a later receipt,
  although the repository's README promises the check after three transactions.
- Recompute and send start in the same minute; if the recompute is first, a digest
  that is due is moved by a week, or a days-before reminder deleted, unsent.
- A recompute that overlaps with switching reminders off leaves a pending reminder
  that no recompute removes and that is sent.
- Sends that run at once list the same reminders and tell each of them twice.
- A recompute that overlaps a settings change, or another recompute, inserts a second
  pending row; until both are sent, every hourly recompute raises, for all users.

## Proofs

Eight modules, each `EXTENDS` the specification it is about. Every invariant is
proved by an initial step and a step with one case for each action; the temporal
theorem combines them. For every number of jobs, users, rows and failures:

| module | theorem | states |
|---|---|---|
| `ReceiptPipelineProofs` | `TypeCorrect` | `[]TypeOK` |
| | `SpecIInv` | `[]IInv` |
| | `RecordedOnce` | `[]OneChargePerMessage` |
| | `NoOrphanCharges` | `[]ChargesHaveTheirSubscription` |
| | `WipedForGood` | `[]WipeLeavesNothing` |
| | `FlagsNeverCleared` | `FlagNeverClears` |
| `ReceiptEvidenceProofs` | `NoEmptySubscription` | `[]EmailSubscriptionsHaveCharges` |
| | `EveryReceiptKept` | `[]NoReceiptLost` |
| | `FlagsHaveEvidence` | `[]FlagHasEvidence` |
| | `SchedulesAreCoherent` | `[]ScheduleIsCoherent` |
| `ReceiptRefinementProofs` | `PipelineImplementsLedger` | `ImplementsLedger` |
| `RemindersProofs` | `RemindersTypesHold`, `RemindersAreTyped` | `[]TypeInv`, `[]TypeOK` |
| | `RowsAreLocked` | `[]Locks` |
| | `SentForGood` | `SentIsFinal` |
| | `RowsAreKnown` | `[]Identity` |
| | `RecomputeAdvances` | `[]Recovery` |
| | `RecomputesRepair` | `RecomputeRepairs` |
| | `ToldOnlyOnce` | `ToldOnce` |
| `DialogsProofs` | `DialogTypesHold`, `DialogsAreTyped` | `[]TypeInv`, `[]TypeOK` |
| | `WipeIsFinal` | `[]OwnersExist` |
| | `CancelledForGood` | `CancelledStaysCancelled` |
| | `DialogsGather` | `[]DialogInv` |
| | `EditsHit` | `[]EditsHitTheirSubscription` |
| | `DialogsAddOnce` | `[]AddedAsEntered` |
| | `StatesKeepData` | `[]StatesKeepTheirData` |
| `LlmQuotaProofs` | `TypeCorrect` | `[]TypeOK` |
| | `LimitIsKept` | `[]WithinLimit` |
| | `NobodyIsRefusedEarly` | `[]RefusedAtTheLimit` |
| `MailScanProofs` | `TypeCorrect` | `[]TypeOK` |
| | `NothingIsPassedOver` | `[]CursorCovers` |
| | `OneAccountWithoutRace` | `[]OneAccountPerUser` |
| | `DisconnectedStaysAway` | `DisconnectedForGood` |
| `ScreensProofs` | `TypesHold` | `[]TypeOK` |
| | `PagesAlwaysCover` | `[]PagesCover` |
| | `ScreensAlwaysAgree` | `[]ScreensAgree` |
| | `TrendAlwaysComplete` | `[]TrendIsComplete` |
| | `DormantAlwaysSilent` | `[]DormantMeansSilent` |
| | `AddPeriodKeepsTheDay`, `AddPeriodMovesForward` | what `CalendarAddPeriod` returns |
| | `ConsistentMeansSmallVariance`, `FixedPriceIsConsistent` | what `AmountsConsistent` decides |
| | `AverageGapIsOfTheGaps` | what `AverageGapAtMost` bounds |

### ReceiptPipelineProofs

For any number of users, accounts, jobs, messages and keys, any bound on reruns and
any `AddPeriod` that yields dates.

The types are not inductive: `Commit` writes the row of the session's
subscription, so one must know that it has one. `SessionInv` says what a session
holds at each statement (a catalogue service where services are looked up, a
subscription of the right key from `addTxn` on, and that the rows an inserted
transaction refers to stay there, because disconnect and wipe wait for it).
`FreshIds` says that a job's next id has not been committed, which separates
"inserted by me" from "found". `IInv` is the two with `TypeOK`. `RecordedOnce`
adds that an open insert excludes every other open or committed one
(`OpenInsertsAreAlone`): the wait on an open insert and the check of committed
rows are both needed. `WipedForGood` follows because whoever commits still holds
its account, and an account's owner has not wiped. `FlagsNeverCleared` needs that
a copy only ever gains the flag (`CopiesKeepTheFlag`). That a latest charge exists
is proved by well-founded induction on finite sets (`LatestReceiptExists`).

### ReceiptEvidenceProofs

It uses `IInv` and what was proved from it, and adds one invariant for each
property:

- `OpenedWithCharge` is stronger than "has a charge", which a disconnect of another
  account could spoil: a subscription is committed together with the transaction of
  the very job that opened it, and that one leaves only with its account.
- `WinnersAreFound`: a job in `rereadSub` has lost to a committed row of its key,
  and a job in `addTxn` refers to a row of its own or a committed one, unless the
  user is gone. So an insert of a transaction fails only because the message is
  recorded or the account is gone, which is `NoReceiptLost`.
- `EvidenceInv` says what a session may write. The row it loaded is dated by
  receipts of the key, a period it changed comes with a date of a charge it saw, a
  flag it set with three such charges. At the commit the row in the table may be
  another than the one loaded, so `CommitEvidence` looks at each combination of
  columns that UPDATE writes; the one in which period and date come from two jobs
  is why `DatesCoincide` is in the property. The charges a job saw are still there
  at its commit because `Connected` excludes a disconnect in between (`ChargesStay`),
  and more charges are more evidence (`EvidenceGrows`).

### ReceiptRefinementProofs

Under the mapping of `ReceiptRefinement` the initial states are the ledger's, and
for every action there is a lemma: statements before a commit and reruns change
nothing the ledger sees; `Commit` is `Enter` of its message, under the subscription it
found or the one it inserted; a disconnect's and a wipe's deletes are the ledger's.
`Enter` asks that nobody has entered the message and that an open subscription it uses
is of the receipt's key: `LedgerInv` has the first from the invariant of
`OneChargePerMessage` (`TxnInv`) and the second from `ChargesHaveTheirSubscription`
and what `IInv` says of a session. A wipe takes a transaction by the user of its
subscription and the ledger by the user of its key; `ChargesHaveTheirSubscription`
makes them the same. There is no hypothesis.

### RemindersProofs

For any (finitely many) recomputes, sends and handlers, any users, subscriptions,
timezones, lengths of a week and a month, and failures.

`TypeInv` adds `Stages` to the types: what a session holds at each statement (a
user and a plan that fits the policy from `purge` on, a target in `insert` and
`update`, a row to delete in `purging`). Without it `Insert` could not be typed.
Four more invariants rest on it and on each other:

- `Locks`: no two open transactions hold the same row (`Exclusive`), an idle
  process holds none, and none deletes a committed sent row or writes it back
  unsent (`Respected`). `Respected` is what `SentIsFinal` needs, and it needs
  `Exclusive`: a row that the send has marked is nobody else's until the commit, and
  every write after it looks at the latest version.
- `Identity`: an id stands for the same user, subscription and kind as long as a
  session names it (`Versions`), nobody else has read a row that is not committed,
  and what a handler writes is its user's (`Recalls`). `UPDATE` goes by id, so
  nothing about users can be said without it.
- `Recovery`, for each recompute: of users whom nobody else has handled since it began
  it knows the settings (`Touches`), and in the table it sees, those it is behind are
  repaired (`Advance`). `AtHand` is the part of the loop: after the purge only the
  policy's kind is pending, and every target the upserts are done with has one row,
  ahead, or as the plan says if the hour has turned (`lag`). Sends may commit at any
  point, which only removes pending rows (`Tamer`). At the commit everybody is
  behind, and the table becomes what the session sees.
- `Accounted`: a row of which a committed send told is in the table as sent
  (`SentRows`), until `Tick` forgets it, and a row of which an open send has told is
  marked in its transaction or is the one at hand (`Tells`). Sent rows stay sent by
  `Respected`, an id is not given again while anybody names it, and a send lists
  unsent rows only; hence `ToldOnce`. It takes no assumption about what overlaps.

### DialogsProofs

For any number of concurrent updates, dialogs, subscriptions and failures.

`TypeInv` adds to the types what a session holds at each step (`WellFormed`) and
`Room`: ids given plus add dialogs at their last step stay within the bound, which
`Arrive` alone does not show. `NewUserIsFree` is a counting argument: there is one
user more than updates.

With any overlap of updates hold `OwnersInv` (a user is inserted only while there
is none, by one session at a time; with it `OwnersExist`) and `NewRows` (the id an
add is about to insert is nobody's, so a commit that inserts revives nothing; with
it `CancelledStaysCancelled`).

`DialogInv` holds while `late = 0`. `Gathered` says for each state which keys of
`data` this dialog has filled: old keys remain from dialogs left half-way, so the
key of the next step is claimed only in the states behind it. `Faithful` says that
the update under way still meets the state that chose its handler, and that what
it took from the data was meant for its target; `Numbered` that a subscription has
the number of one dialog and each number at most once. The three properties are
its consequences.

### LlmQuotaProofs

For any numbers of users, texts and (finitely many) jobs, any limit and any length
of a day.

`WithinLimit` is about requests sent, and what bounds them is a counter that may be
gone. `IInv` ties the two together in three parts. `JobDated`: a job counts under
the date of a moment at most one step ago. `CounterLives`: a counter expires after
its date is over, and a key without one is untouched or of a past date. With both,
an INCR that finds no counter is the first of its key. `CountsAll`: the requests
sent and the jobs counted but not yet sent (`Used`) are no more than the counter
says and no more than the limit, and with the calls lost to dying jobs no fewer. A
limit of zero is a case of its own: the first call of a day is decided after
EXPIRE, so a job is counted although no call is allowed. The step lemmas are one
for each action, over the cardinality of `Counted` (`CountedStep`).

### MailScanProofs

For any mailboxes, messages, scans, requests, links, failures and length of a page.

`CursorCovers` speaks of committed cursors, and a cursor is committed from a scan.
`Held` says what a scan has in hand at each request: every relevant message up to
the cursor it read was offered, and up to the position it has listed each was
offered or is in its list or its rest. `ScanCovers` adds that an account that was
not connected over is still of the mailbox the scan reads, `AccountCovers` that its
token opens the mailbox of its address, and `Fresh` that an account not yet
inserted has no scan. So whichever of two scans commits last, an older or a newer
cursor, everything before it was offered. `LinksAreTaken` says that a request under
way has taken its state, and no two have the same; `Alone`, that without a race at
most one request is about to insert, and into an empty table.
`DisconnectedStaysAway` follows from `AccountsComeByInsert`: only the insert adds an
account, under a request's own id.

### ScreensProofs

For any days, amounts, currencies and senders, any page size and any number of
subscriptions and charges, on a calendar without an end.

The screens are sums over rows and lists of rows. The induction theorems of the
library take an operator, which the installed provers cannot instantiate, so each
induction is an argument about a smallest counterexample: the set of the values for
which a statement fails is a set like any other, and if it is not empty it has a
least element (`SmallestNumber`, on the naturals) or a smallest one (`SmallestSet`,
on the subsets of a finite set, where strict inclusion is well-founded).

- Sums. `SumFunctionOnSet` is a fold that takes out the member CHOOSE picks.
  `SumsAgree` and `SumsExist` show that its recursion defines a function, `SumStep`
  unfolds it, and `SumRemove` shows that any member may be taken out first. From it
  follow the sum of a disjoint union, of a partition (`SumPartition`: categories,
  months), of the same values in another order (`SumReindexed`: the top list), and
  the bound on roundings (`YearOfMonths`).
- The calendar. `MonthStart` is a recursive function; `MonthStartStep` shows it is
  what its definition says for every month, `MonthOfIs` and `MonthOfType` that each
  day lies in one month. `CutoffKeepsTheKeys` shows that the trend's cutoff drops no
  charge of the six months. `AddPeriodKeepsTheDay` then gives month and day of the
  month of `add_period`, and `AddPeriodMovesForward` that it never stands still;
  the second includes what `ReceiptPipeline` assumes of its `AddPeriod`
  (`CalendarAssumption`), for all days.
- Lists. `InOrderLists`: what `InOrder` returns is a bijection from the positions
  to the members, if of two members one always comes first. The pages and the top
  list rest on it.

`PagesCover`, `ScreensAgree` and `TrendIsComplete` then follow from the types: the
buttons in `offered` are in the type invariant, with the bound that survives when
the list shrinks, and that no charge lies in the future is there too. `DormantMeansSilent`
is not implied by the types: an email subscription without a charge has no latest
charge, so all its (no) charges are old and it must sleep, but `find_dormant` passes
over it. `IInv` adds that an email subscription has a charge; TLC finds it invariant
on the instance of `screens`.

The theorems about `Billing` compare with the code's own arithmetic.
`amounts_are_consistent` divides and takes a square root, `AmountsConsistent`
multiplies: `ConsistentMeansSmallVariance` shows that the squared distances from the
mean decide alike. `infer_period_from_intervals` averages the gaps between
neighbours, `AverageGapAtMost` takes the distance of the first and the last day:
`AverageGapIsOfTheGaps` shows that the gaps of the sorted charges add up to it.

### Assumptions, and what is only model-checked

The assumptions are the named ones of each module: the shapes of the constants,
for `ReceiptPipeline` that a message's key and account belong to the same user and
that manual subscriptions carry no service, for `Reminders` that processes are finite
in number and a week has two hours at least. TLC evaluates them in every run. No
theorem about a property has a hypothesis beyond them.

Only model-checked:

- liveness, which is out of the prover's reach: `EveryJobEnds`, `TransactionsEnd`,
  `PolicyPrevails`, `WeeklyComesDue`, `EveryMessageOffered`;
- the three violations, which are counterexamples.

Every other property of a run is a theorem. The pipeline's proofs use only that
`AddPeriod` yields dates, so they hold for other calendars too.

## Not modelled

- Text: the regular expressions of `parsing/rules.py`, the catalogue's domain match,
  `parse_amount`, `parse_date_input`, formatting, the bot's wording. The parser's
  verdict is a choice; an amount or a date is a number.
- Names: a renamed email subscription is found by its old name no more, and a rename
  may violate the unique index, which is one of `Dialogs`' failures.
- The composition of `MailScan` and `ReceiptPipeline` (what a reconnect does to the
  histories): two scans and two jobs of two accounts are beyond TLC.
- `one_off_spending`, the CSV export, and screens read in several statements.
- In `MailScan`: other users, a wipe between a link and its callback, the encryption
  of tokens, the one-year window of a bootstrap. In `Reminders`: users and
  subscriptions that are deleted.
- Start and shutdown of the processes, configuration, logging, Sentry, keyboards but
  for their callback data: no state of their own. What a restart does is in the
  models.

## Plan

Done: `Billing`, `Calendar`, `ReceiptPipeline` with its ledger, `Reminders`,
`MailScan`, `Dialogs`, `LlmQuota`, `Screens`; the proofs above, with which every
safety property a passing run checks is a theorem. Next:

1. `WalletSystem`: scan, parse queue, disconnect and reconnect, with abstract jobs
   in place of the pipeline's statements, so that the composition fits TLC.
