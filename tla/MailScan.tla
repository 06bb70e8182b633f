------------------------------ MODULE MailScan ------------------------------
(***************************************************************************)
(* How mail reaches the receipt pipeline: connecting a Gmail account over   *)
(* OAuth (bot/handlers/email_connect.py, main.py, mail/oauth.py,            *)
(* services/email_accounts.py) and the scan jobs of the worker              *)
(* (workers/scan.py, mail/gmail.py).  One user, who may own several         *)
(* mailboxes.  A scan keeps its account in one session from the first read  *)
(* to the commit, with many requests to Gmail and Redis in between.         *)
(*                                                                         *)
(* A message of a mailbox is its number; the newest one is the mailbox's    *)
(* history id.  The e-mail address of an account and the mailbox its token  *)
(* opens are kept apart.  Wiping the user is in ReceiptPipeline.            *)
(***************************************************************************)
EXTENDS Integers, FiniteSets, FiniteSetsExt

CONSTANTS
  Boxes,        \* the user's mailboxes
  MaxMail,      \* bound: the messages each of them receives
  Relevant,     \* <<box, n>>: messages of catalogue senders or with a keyword
  Scanners,     \* scan jobs the worker runs at a time
  Callbacks,    \* bound: requests of /oauth/callback
  NoId,         \* no account
  MaxUrls,      \* bound: authorisation links the bot hands out
  PageSize,     \* messages in a page of the history
  MaxQueue,     \* bound: queued scans of one account; more change nothing
  MaxUpsets     \* bound: failures of Gmail, Google, Telegram, Redis or a worker,
                \* tokens and links that run out, forgotten history, disconnects

Ids == Callbacks             \* an account is named by the request that opens it
NoCursor == -1               \* NULL
Urls == 1..MaxUrls

ASSUME MailScanAssumption ==
  /\ MaxMail \in [Boxes -> Nat] /\ Boxes # {}
  /\ Relevant \subseteq Boxes \X (Nat \ {0})
  /\ IsFiniteSet(Callbacks) /\ Scanners # {} /\ Callbacks # {}
  /\ NoId \notin Ids
  /\ MaxUrls \in Nat /\ PageSize \in Nat \ {0}
  /\ MaxQueue \in Nat \ {0} /\ MaxUpsets \in Nat

VARIABLES
  mail,       \* messages each mailbox has received
  forgotten,  \* history Gmail no longer lists: records up to this one
  urls,       \* links handed out so far
  states,     \* OAuth states in Redis
  accounts,   \* the committed table: a function from ids to rows
  callback,   \* what each request is doing
  leaving,    \* accounts disconnect_email is about to delete
  queue,      \* scan jobs waiting in Redis
  scan,       \* what each scan job is doing
  offered,    \* parse jobs enqueued: <<account, box, message>>
  blind,      \* messages that came between a bootstrap's list and its cursor
  moved,      \* accounts that were connected over with another address
  raced,      \* have requests for two links been about to insert at once?
  upsets

gmail == <<mail, forgotten>>
oauth == <<urls, states, callback, raced>>
rows == <<accounts, leaving, moved>>
jobs == <<queue, scan>>
vars == <<gmail, oauth, rows, jobs, offered, blind, upsets>>

Token == [box : Boxes, expired : BOOLEAN]
Row == [box : Boxes, token : Token, status : {"active", "error"},
        cursor : Nat \cup {NoCursor}]
NewRow(b) == [box |-> b, token |-> [box |-> b, expired |-> FALSE],
              status |-> "active", cursor |-> NoCursor]

(* A scan: row, the account as its session holds it; refreshed, has it a    *)
(* new token?; listed and pos, the messages listed and how far; booted, is  *)
(* this list a bootstrap's?; upto, the new cursor; left, still to enqueue.  *)
SomeBox == CHOOSE b \in Boxes : TRUE
Idle == [pc |-> "idle", id |-> NoId, row |-> NewRow(SomeBox),
         refreshed |-> FALSE, listed |-> {}, pos |-> 0, booted |-> FALSE,
         upto |-> NoCursor, left |-> {}]
Waiting == [pc |-> "idle", url |-> 0, box |-> SomeBox, into |-> NoId,
            over |-> SomeBox, was |-> "active"]

Put(f, i, v) == [x \in DOMAIN f \cup {i} |-> IF x = i THEN v ELSE f[x]]
Enqueued(S) ==
  [i \in Ids |-> IF i \in S /\ queue[i] < MaxQueue THEN queue[i] + 1 ELSE queue[i]]
Upset == upsets < MaxUpsets /\ upsets' = upsets + 1
-----------------------------------------------------------------------------
Init ==
  /\ mail \in [Boxes -> 0..1] /\ forgotten = [b \in Boxes |-> 0]
  /\ \A b \in Boxes : mail[b] <= MaxMail[b]
  /\ urls = 0 /\ states = {}
  /\ accounts = [i \in {} |-> 0]
  /\ callback = [c \in Callbacks |-> Waiting]
  /\ leaving = {} /\ moved = {} /\ raced = FALSE
  /\ queue = [i \in Ids |-> 0]
  /\ scan = [s \in Scanners |-> Idle]
  /\ offered = {} /\ blind = {} /\ upsets = 0

(* Gmail: a message arrives; old history is no longer listed; an access     *)
(* token runs out.                                                          *)
Arrive(b) == /\ mail[b] < MaxMail[b]
             /\ mail' = [mail EXCEPT ![b] = @ + 1]
             /\ UNCHANGED <<forgotten, oauth, rows, jobs, offered, blind, upsets>>

ForgetHistory(b) ==
  /\ forgotten[b] < mail[b] /\ Upset
  /\ forgotten' = [forgotten EXCEPT ![b] = mail[b]]
  /\ UNCHANGED <<mail, oauth, rows, jobs, offered, blind>>

TokenExpires(i) ==
  /\ i \in DOMAIN accounts /\ ~accounts[i].token.expired /\ Upset
  /\ accounts' = [accounts EXCEPT ![i].token.expired = TRUE]
  /\ UNCHANGED <<gmail, oauth, leaving, moved, jobs, offered, blind>>
-----------------------------------------------------------------------------
(* open_email_settings: a link, unless there is an account; with two,       *)
(* scalar_one_or_none raises.                                               *)
OpenSettings ==
  /\ DOMAIN accounts = {} /\ urls < MaxUrls
  /\ urls' = urls + 1 /\ states' = states \cup {urls + 1}
  /\ UNCHANGED <<gmail, callback, raced, rows, jobs, offered, blind, upsets>>

(* The ten minutes of a state are over.                                     *)
StateExpires(u) == /\ u \in states /\ Upset
                   /\ states' = states \ {u}
                   /\ UNCHANGED <<gmail, urls, callback, raced, rows, jobs,
                                  offered, blind>>

(* Every request ends one way or another.                                   *)
Answer(c) == callback' = [callback EXCEPT ![c] = [Waiting EXCEPT !.pc = "done"]]

(* A mutation: the state is read with GET and stays.                        *)
PeekState(c) == \E u \in 1..urls, b \in Boxes :
  /\ callback[c].pc = "idle"
  /\ IF u \in states
       THEN callback' = [callback EXCEPT
                           ![c] = [@ EXCEPT !.pc = "exchange", !.url = u, !.box = b]]
       ELSE Answer(c)
  /\ UNCHANGED <<gmail, urls, states, raced, rows, jobs, offered, blind, upsets>>

(* Google redirects the browser with the state of some link and the mailbox *)
(* the user has chosen; GETDEL takes the state, or the link has expired.    *)
PopState(c) == \E u \in 1..urls, b \in Boxes :
  /\ callback[c].pc = "idle"
  /\ IF u \in states
       THEN callback' = [callback EXCEPT
                           ![c] = [@ EXCEPT !.pc = "exchange", !.url = u, !.box = b]]
       ELSE Answer(c)
  /\ states' = states \ {u}
  /\ UNCHANGED <<gmail, urls, raced, rows, jobs, offered, blind, upsets>>

(* exchange_code_for_tokens and get_profile_email, then connect looks for   *)
(* the user's Gmail account; with two of them the lookup raises.            *)
Connect(c) ==
  /\ callback[c].pc = "exchange"
  /\ \/ /\ DOMAIN accounts = {}
        /\ callback' = [callback EXCEPT ![c].pc = "insert"]
     \/ \E i \in DOMAIN accounts :
          /\ DOMAIN accounts = {i}
          /\ callback' = [callback EXCEPT ![c] =
               [@ EXCEPT !.pc = "update", !.into = i,
                         !.over = accounts[i].box, !.was = accounts[i].status]]
     \/ Cardinality(DOMAIN accounts) > 1 /\ Answer(c)
  /\ raced' = (raced \/ /\ DOMAIN accounts = {}
                        /\ \E d \in Callbacks : /\ callback[d].pc = "insert"
                                               /\ callback[d].url # callback[c].url)
  /\ UNCHANGED <<gmail, urls, states, rows, jobs, offered, blind, upsets>>

(* UniqueConstraint("user_id", "email")                                     *)
EmailTaken(b, i) == \E j \in DOMAIN accounts \ {i} : accounts[j].box = b

(* EmailAccountRepository.create and the commit.                            *)
InsertAccount(c) == LET b == callback[c].box IN
  /\ callback[c].pc = "insert"
  /\ \/ EmailTaken(b, c) /\ Answer(c) /\ UNCHANGED accounts
     \/ /\ ~EmailTaken(b, c)
        /\ accounts' = Put(accounts, c, NewRow(b))
        /\ callback' = [callback EXCEPT ![c].pc = "enqueue", ![c].into = c]
  /\ UNCHANGED <<gmail, urls, states, raced, leaving, moved, jobs, offered, blind,
                 upsets>>

(* connect over an existing account: the cursor stays, and the commit       *)
(* writes the address and the status only if they differ from what was read.*)
Renames(c) == callback[c].box # callback[c].over
Reconnected(row, c) ==
  [row EXCEPT !.box = IF Renames(c) THEN callback[c].box ELSE @,
              !.token = NewRow(callback[c].box).token,
              !.status = IF callback[c].was = "active" THEN @ ELSE "active"]

UpdateAccount(c) == LET b == callback[c].box  i == callback[c].into IN
  /\ callback[c].pc = "update"
  /\ \/ /\ i \notin DOMAIN accounts \/ (Renames(c) /\ EmailTaken(b, i))
        /\ Answer(c) /\ UNCHANGED <<accounts, moved>>
     \/ /\ i \in DOMAIN accounts /\ ~(Renames(c) /\ EmailTaken(b, i))
        /\ accounts' = [accounts EXCEPT ![i] = Reconnected(accounts[i], c)]
        /\ moved' = IF accounts[i].box = b THEN moved ELSE moved \cup {i}
        /\ callback' = [callback EXCEPT ![c].pc = "enqueue"]
  /\ UNCHANGED <<gmail, urls, states, raced, leaving, jobs, offered, blind, upsets>>

(* The first scan of the account is queued.                                 *)
EnqueueFirst(c) ==
  /\ callback[c].pc = "enqueue"
  /\ queue' = Enqueued({callback[c].into})
  /\ Answer(c)
  /\ UNCHANGED <<gmail, urls, states, raced, rows, scan, offered, blind, upsets>>

(* Google refuses the code, returns no refresh token, or the request dies.  *)
CallbackFails(c) == /\ callback[c].pc \notin {"idle", "done"} /\ Upset
                    /\ Answer(c)
                    /\ UNCHANGED <<gmail, urls, states, raced, rows, jobs, offered,
                                   blind>>

(* disconnect_email: one lookup, the DELETE in the middleware's commit.     *)
DisconnectRead == \E i \in DOMAIN accounts :
  /\ DOMAIN accounts = {i} /\ i \notin leaving /\ Upset
  /\ leaving' = leaving \cup {i}
  /\ UNCHANGED <<gmail, oauth, accounts, moved, jobs, offered, blind>>
Disconnect(i) ==
  /\ i \in leaving
  /\ leaving' = leaving \ {i}
  /\ accounts' = [j \in DOMAIN accounts \ {i} |-> accounts[j]]
  /\ UNCHANGED <<gmail, oauth, moved, jobs, offered, blind, upsets>>
-----------------------------------------------------------------------------
(* scan_all_email_accounts, every fifteen minutes.                          *)
ScanAll ==
  /\ queue' = Enqueued({i \in DOMAIN accounts : accounts[i].status = "active"})
  /\ UNCHANGED <<gmail, oauth, rows, scan, offered, blind, upsets>>

Goto(s, pc) == scan' = [scan EXCEPT ![s].pc = pc]
Becomes(s, r) == scan' = [scan EXCEPT ![s] = r]

(* scan_email_account reads its account; only active ones are scanned.      *)
Load(s, i) ==
  /\ scan[s].pc = "idle" /\ queue[i] > 0
  /\ queue' = [queue EXCEPT ![i] = @ - 1]
  /\ IF i \in DOMAIN accounts /\ accounts[i].status = "active"
       THEN Becomes(s, [Idle EXCEPT !.pc = "token", !.id = i, !.row = accounts[i]])
       ELSE UNCHANGED scan
  /\ UNCHANGED <<gmail, oauth, rows, offered, blind, upsets>>

(* get_valid_access_token, and SCAN_STARTED before a bootstrap.             *)
GetToken(s) ==
  /\ scan[s].pc = "token"
  /\ LET row == scan[s].row IN
     Becomes(s, [scan[s] EXCEPT
       !.pc = IF row.cursor = NoCursor THEN "bootstrap" ELSE "history",
       !.row.token.expired = FALSE, !.refreshed = row.token.expired,
       !.pos = row.cursor])
  /\ UNCHANGED <<gmail, oauth, rows, queue, offered, blind, upsets>>

BoxOf(s) == scan[s].row.token.box

(* Gmail lists the history from an id it still knows.                       *)
Listable(s) == /\ scan[s].row.cursor >= forgotten[BoxOf(s)]
               /\ scan[s].row.cursor <= mail[BoxOf(s)]

(* A mutation: only the first page is read.                                 *)
FirstPageOnly(s) == LET last == Min({scan[s].pos + PageSize, mail[BoxOf(s)]}) IN
  /\ scan[s].pc = "history" /\ Listable(s)
  /\ Becomes(s, [scan[s] EXCEPT
       !.pc = "fetch", !.listed = @ \cup ((scan[s].pos + 1)..last),
       !.pos = last, !.upto = mail[BoxOf(s)]])
  /\ UNCHANGED <<gmail, oauth, rows, queue, offered, blind, upsets>>

(* _list_history_message_ids: a page, and the history id that comes with it.*)
ListHistory(s) == LET last == Min({scan[s].pos + PageSize, mail[BoxOf(s)]}) IN
  /\ scan[s].pc = "history" /\ Listable(s)
  /\ Becomes(s, [scan[s] EXCEPT
       !.pc = IF last = mail[BoxOf(s)] THEN "fetch" ELSE "history",
       !.listed = @ \cup ((scan[s].pos + 1)..last),
       !.pos = last, !.upto = mail[BoxOf(s)]])
  /\ UNCHANGED <<gmail, oauth, rows, queue, offered, blind, upsets>>

(* 404: a fresh bootstrap, with what was listed so far thrown away.         *)
HistoryGone(s) ==
  /\ scan[s].pc = "history" /\ ~Listable(s)
  /\ Becomes(s, [scan[s] EXCEPT !.pc = "bootstrap", !.listed = {}])
  /\ UNCHANGED <<gmail, oauth, rows, queue, offered, blind, upsets>>

(* _list_message_ids: the messages of the last year that fit the query.     *)
ListBootstrap(s) ==
  /\ scan[s].pc = "bootstrap"
  /\ Becomes(s, [scan[s] EXCEPT !.pc = "fetch", !.booted = TRUE,
                   !.listed = {n \in 1..mail[BoxOf(s)] : <<BoxOf(s), n>> \in Relevant},
                   !.pos = mail[BoxOf(s)]])
  /\ UNCHANGED <<gmail, oauth, rows, queue, offered, blind, upsets>>

(* _fetch_messages_metadata, then the relevant ones are kept.               *)
FetchMetadata(s) ==
  /\ scan[s].pc = "fetch"
  /\ Becomes(s, [scan[s] EXCEPT
       !.pc = IF scan[s].booted THEN "profile" ELSE "enqueue",
       !.left = {n \in scan[s].listed : <<BoxOf(s), n>> \in Relevant}])
  /\ UNCHANGED <<gmail, oauth, rows, queue, offered, blind, upsets>>

(* A mutation: the bootstrap returns no cursor.                             *)
SkipProfile(s) == /\ scan[s].pc = "profile"
                  /\ Goto(s, "enqueue")
                  /\ UNCHANGED <<gmail, oauth, rows, queue, offered, blind, upsets>>

(* _current_history_id, read after the list: what came since is skipped.    *)
ReadProfile(s) ==
  /\ scan[s].pc = "profile"
  /\ Becomes(s, [scan[s] EXCEPT !.pc = "enqueue", !.upto = mail[BoxOf(s)]])
  /\ blind' = blind \cup {<<scan[s].id, BoxOf(s), n>> :
                            n \in (scan[s].pos + 1)..mail[BoxOf(s)]}
  /\ UNCHANGED <<gmail, oauth, rows, queue, offered, upsets>>

(* The refresh or a request to Gmail fails for good, or a progress message  *)
(* is refused: the scan will mark its account.                              *)
ReadFails(s) ==
  /\ \/ scan[s].pc = "token" /\ scan[s].row.token.expired
     \/ scan[s].pc \in {"history", "bootstrap", "fetch", "profile"}
  /\ Upset /\ Becomes(s, [scan[s] EXCEPT !.pc = "error", !.left = {}])
  /\ UNCHANGED <<gmail, oauth, rows, queue, offered, blind>>

(* The history comes oldest first, a search newest first.                   *)
NextOf(s) == IF scan[s].booted THEN Max(scan[s].left) ELSE Min(scan[s].left)

Enqueue(s) ==
  /\ scan[s].pc = "enqueue" /\ scan[s].left # {}
  /\ offered' = offered \cup {<<scan[s].id, BoxOf(s), NextOf(s)>>}
  /\ scan' = [scan EXCEPT ![s].left = @ \ {NextOf(s)}]
  /\ UNCHANGED <<gmail, oauth, rows, queue, blind, upsets>>

(* The commit: an UPDATE of the changed columns, of a row that must exist.  *)
WithToken(s) == [accounts[scan[s].id] EXCEPT
                   !.token = IF scan[s].refreshed THEN scan[s].row.token ELSE @]
WithCursor(s) == [WithToken(s) EXCEPT
                    !.cursor = IF scan[s].upto = scan[s].row.cursor THEN @
                                 ELSE scan[s].upto]

(* A mutation: the row is written again if it is gone.                      *)
SaveCursorMerged(s) ==
  /\ scan[s].pc = "enqueue" /\ scan[s].left = {}
  /\ accounts' = Put(accounts, scan[s].id, [scan[s].row EXCEPT !.cursor = scan[s].upto])
  /\ Becomes(s, Idle)
  /\ UNCHANGED <<gmail, oauth, leaving, moved, queue, offered, blind, upsets>>

(* A mutation: the cursor is committed before the last message is queued.   *)
SaveCursorEarly(s) ==
  /\ scan[s].pc = "enqueue" /\ scan[s].id \in DOMAIN accounts
  /\ accounts' = [accounts EXCEPT ![scan[s].id] = WithCursor(s)]
  /\ IF scan[s].left = {} THEN Becomes(s, Idle) ELSE UNCHANGED scan
  /\ UNCHANGED <<gmail, oauth, leaving, moved, queue, offered, blind, upsets>>

SaveCursor(s) ==
  /\ scan[s].pc = "enqueue" /\ scan[s].left = {}
  /\ scan[s].id \in DOMAIN accounts
  /\ accounts' = [accounts EXCEPT ![scan[s].id] = WithCursor(s)]
  /\ Becomes(s, Idle)
  /\ UNCHANGED <<gmail, oauth, leaving, moved, queue, offered, blind, upsets>>

SaveError(s) ==
  /\ scan[s].pc = "error" /\ scan[s].id \in DOMAIN accounts
  /\ accounts' = [accounts EXCEPT ![scan[s].id] =
                    [WithToken(s) EXCEPT !.status = "error"]]
  /\ Becomes(s, Idle)
  /\ UNCHANGED <<gmail, oauth, leaving, moved, queue, offered, blind, upsets>>

(* The row is gone: StaleDataError ends the job.                            *)
RowGone(s) ==
  /\ scan[s].pc \in {"enqueue", "error"} /\ scan[s].left = {}
  /\ scan[s].id \notin DOMAIN accounts
  /\ Becomes(s, Idle)
  /\ UNCHANGED <<gmail, oauth, rows, queue, offered, blind, upsets>>

(* SCAN_STARTED is refused, Redis does not answer or the job times out: it  *)
(* raises and nothing is kept.  A job that dies with its worker is run      *)
(* again.                                                                   *)
ScanDies(s) ==
  /\ scan[s].pc # "idle" /\ Upset
  /\ Becomes(s, Idle)
  /\ queue' \in {queue, Enqueued({scan[s].id})}
  /\ UNCHANGED <<gmail, oauth, rows, offered, blind>>

Request(c) == Connect(c) \/ InsertAccount(c) \/ UpdateAccount(c) \/ EnqueueFirst(c)
Work(s) ==
  \/ GetToken(s) \/ ListHistory(s) \/ HistoryGone(s) \/ ListBootstrap(s)
  \/ FetchMetadata(s) \/ ReadProfile(s) \/ Enqueue(s) \/ SaveCursor(s)
  \/ SaveError(s) \/ RowGone(s)

Next ==
  \/ OpenSettings \/ DisconnectRead \/ ScanAll
  \/ \E b \in Boxes : Arrive(b) \/ ForgetHistory(b)
  \/ \E i \in Ids : TokenExpires(i) \/ Disconnect(i)
  \/ \E u \in Urls : StateExpires(u)
  \/ \E c \in Callbacks : PopState(c) \/ Request(c) \/ CallbackFails(c)
  \/ \E s \in Scanners : Work(s) \/ ReadFails(s) \/ ScanDies(s)
  \/ \E s \in Scanners, i \in Ids : Load(s, i)

Spec == Init /\ [][Next]_vars

(* The cron job runs every fifteen minutes, ARQ takes the oldest queued job *)
(* first, and a job carries on with what Gmail, Redis and Postgres answer;  *)
(* so do the handlers.  Nothing is asked of the user, of mail or failures.  *)
FairSpec ==
  /\ Spec
  /\ WF_vars(ScanAll)
  /\ \A s \in Scanners : WF_vars(Work(s))
  /\ \A i \in Ids : SF_vars(\E s \in Scanners : Load(s, i))
  /\ \A c \in Callbacks : WF_vars(Request(c))
  /\ \A i \in Ids : WF_vars(Disconnect(i))
-----------------------------------------------------------------------------
(* Every variable has its type, and a scan that enqueues knows its cursor.  *)
TypeOK ==
  /\ mail \in [Boxes -> Nat] /\ forgotten \in [Boxes -> Nat]
  /\ urls \in 0..MaxUrls /\ states \subseteq 1..urls
  /\ DOMAIN accounts \subseteq Ids
  /\ \A i \in DOMAIN accounts : accounts[i] \in Row
  /\ callback \in [Callbacks ->
       [pc : {"idle", "exchange", "insert", "update", "enqueue", "done"},
        url : Urls \cup {0}, box : Boxes, into : Ids \cup {NoId}, over : Boxes,
        was : {"active", "error"}]]
  /\ leaving \subseteq Ids /\ moved \subseteq Ids /\ raced \in BOOLEAN
  /\ queue \in [Ids -> 0..MaxQueue]
  /\ \A s \in Scanners :
       /\ scan[s].pc \in {"idle", "token", "history", "bootstrap", "fetch",
                          "profile", "enqueue", "error"}
       /\ scan[s].id \in Ids \cup {NoId} /\ scan[s].row \in Row
       /\ scan[s].left \subseteq scan[s].listed
       /\ scan[s].pc = "enqueue" => scan[s].upto \in Nat
  /\ upsets \in 0..MaxUpsets

(* No message is passed over: whatever scans ran at once, were repeated,    *)
(* died or lost the history, every relevant message up to an account's      *)
(* cursor was handed to the parser under that account.  The exceptions are  *)
(* messages that came while a bootstrap read its cursor, and accounts that  *)
(* another address was connected over, which keep the old one's cursor.     *)
CursorCovers ==
  \A i \in DOMAIN accounts \ moved : \A n \in 1..accounts[i].cursor :
    LET b == accounts[i].box IN
      <<b, n>> \in Relevant => <<i, b, n>> \in offered \cup blind

(* A user has one Gmail account, unless requests for two links looked for   *)
(* it before either had inserted it: a link opened twice, at any moment,    *)
(* cannot do it, because its state is taken before anything else.           *)
OneAccountPerUser == Cardinality(DOMAIN accounts) <= 1 \/ raced

(* An account that was disconnected stays away, also when a scan, a         *)
(* reconnect or another disconnect of it is still under way.                *)
DisconnectedForGood ==
  [][\A i \in Ids :
       callback[i].pc \in {"enqueue", "done"} /\ i \notin DOMAIN accounts
         => i \notin DOMAIN accounts']_vars

(* Relevant messages of the account's mailbox the parser has not been given.*)
Backlog(i) == {m \in Relevant : /\ m[1] = accounts[i].box /\ m[2] <= mail[m[1]]
                               /\ <<i, m[1], m[2]>> \notin offered \cup blind}

(* Every relevant message of a connected mailbox is handed to the parser in *)
(* the end (no more than MaxMail come), unless it fell into a bootstrap's   *)
(* gap, the account is given up after an error or disconnected, or another  *)
(* address took its place.                                                  *)
EveryMessageOffered ==
  \A i \in Ids :
    (i \in DOMAIN accounts /\ Backlog(i) # {})
      ~> (\/ i \notin DOMAIN accounts \/ i \in moved
          \/ accounts[i].status = "error" \/ Backlog(i) = {})

(* After a failed scan the account is scanned again (texts.py:162 tells the *)
(* user so: "Попробуем ещё раз при следующей проверке.").                    *)
FailedScanIsRetried ==
  \A i \in Ids :
    (i \in DOMAIN accounts /\ accounts[i].status = "error")
      ~> (i \notin DOMAIN accounts \/ \E s \in Scanners :
                                       scan[s].pc # "idle" /\ scan[s].id = i)
=============================================================================
