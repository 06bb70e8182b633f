------------------------------- MODULE Dialogs -------------------------------
(***************************************************************************)
(* The dialogs one user holds with the bot: adding a subscription, editing  *)
(* and cancelling one, onboarding and wiping (bot/handlers/manual_add.py,   *)
(* subscriptions.py, start.py, privacy.py), under the middlewares that      *)
(* commit a session per update and create the user.                         *)
(*                                                                         *)
(* The state and the data of a dialog are kept by aiogram in memory, and    *)
(* every update is a task of its own.  The state that chooses the handler   *)
(* is read when the update arrives; the handler runs after the middleware's *)
(* query, and gives way at each query and each message it sends.  An UPDATE *)
(* is taken at the commit: a second one of the row waits for it and then    *)
(* changes its own columns of the row as it is by then.                     *)
(*                                                                         *)
(* A value the user enters is represented by what it was meant for: the     *)
(* subscription that was being edited, or the number of the add dialog.     *)
(***************************************************************************)
EXTENDS Integers, FiniteSets

CONSTANTS
  Updates,      \* updates the dispatcher handles at a time
  FirstSubs,    \* subscriptions at the start are 1..FirstSubs
  MaxDialogs,   \* bound: add dialogs
  MaxSubs,      \* bound: subscriptions
  MaxLate       \* bound: updates that come from the first overlap on

None == 0
SubIds == 1..MaxSubs
Users == 1..(Cardinality(Updates) + 1)

ASSUME DialogsAssumption ==
  /\ MaxDialogs \in Nat /\ MaxSubs \in Nat /\ MaxLate \in Nat
  /\ FirstSubs \in 0..MaxSubs /\ IsFiniteSet(Updates)

VARIABLES
  user,            \* the committed users row, 0 if there is none
  subs, lastSub,   \* the committed subscriptions; ids given
  state, data,     \* of the dialog
  update,          \* what each task is doing
  dialogs, asked,  \* add dialogs begun; the subscription last asked about
  hits,            \* committed edits: <<meant subscription, edited one>>
  late             \* updates that came since one came while another was handled

database == <<user, subs, lastSub>>
fsm == <<state, data>>
prompted == <<dialogs, asked>>
vars == <<database, fsm, update, prompted, hits, late>>

OnboardingStates == {"choosing_timezone", "choosing_base_currency"}
AddSubscriptionStates ==
  {"add_name", "add_amount", "add_currency", "add_period", "add_date"}
EditSubscriptionStates ==
  {"edit_name", "edit_amount", "edit_currency", "edit_period", "edit_date"}
TextStates == {"add_name", "add_amount", "add_date",
               "edit_name", "edit_amount", "edit_date"}
States == {"none"} \cup OnboardingStates \cup AddSubscriptionStates
            \cup EditSubscriptionStates

NoData == [subscription_id |-> None, pending_amount |-> None,
           custom_name |-> None, amount |-> None, currency |-> None,
           period |-> None, timezone |-> None]
AddKeys == {"custom_name", "amount", "currency", "period"}

(* The handlers: of the text or the button that a state waits for, named     *)
(* after it, and of commands and buttons that need no state.                *)
Handlers == (States \ {"none"}) \cup {"start", "add", "field", "cancel", "wipe", "view"}
Tasks == {"nothing", "edit", "cancel", "create", "wipe"}

(* An update: arg, the subscription its button is about, and to, the state  *)
(* a field button leads to; meant, what the value in it is for; owner, the  *)
(* user of the session; fresh, did it insert that user?; target and seen,   *)
(* the subscription it loaded and its status; value, from: what it writes;  *)
(* task, what it will commit.                                               *)
Idle == [pc |-> "idle", handler |-> "view", arg |-> None, to |-> "none",
         meant |-> None, owner |-> None, fresh |-> FALSE,
         target |-> None, seen |-> "active", value |-> None, from |-> {},
         task |-> "nothing"]

Put(f, i, v) == [x \in DOMAIN f \cup {i} |-> IF x = i THEN v ELSE f[x]]
Owned(s, u) == s \in DOMAIN subs /\ subs[s].owner = u
Becomes(t, r) == update' = [update EXCEPT ![t] = r]
At(t, h) == update[t].pc = "handle" /\ update[t].handler = h
(* The handler is through but for its messages: what it will commit.        *)
Ends(t, r) == Becomes(t, [Idle EXCEPT
  !.pc = "reply", !.owner = r.owner, !.fresh = r.fresh, !.target = r.target,
  !.seen = r.seen, !.value = r.value, !.from = r.from, !.task = r.task])
Reply(t) == Ends(t, [update[t] EXCEPT !.target = None, !.seen = "active"])
-----------------------------------------------------------------------------
Init ==
  /\ user = 1
  /\ subs = [s \in 1..FirstSubs |-> [owner |-> 1, status |-> "active", from |-> {}]]
  /\ lastSub = FirstSubs
  /\ state = "none" /\ data = NoData
  /\ update = [t \in Updates |-> Idle]
  /\ dialogs = 0 /\ asked = None /\ hits = {} /\ late = 0

(* What the user can send in the present state.  A command is a name where  *)
(* a name is awaited and refused where another text is.  What no handler    *)
(* takes, or one refuses, does no more than a button that shows something.  *)
Requests ==
  [handler : {state, "add", "wipe", "view"} \ {"none"}, arg : {None}, to : {"none"}]
  \cup [handler : IF state \in TextStates THEN {} ELSE {"start"}, arg : {None},
        to : {"none"}]
  \cup [handler : {"cancel"}, arg : 1..lastSub, to : {"none"}]
  \cup [handler : {"field"}, arg : 1..lastSub,
        to : {"edit_name", "edit_amount", "edit_period", "edit_date"}]

(* Within the bounds: add dialogs, and subscriptions being added.           *)
Adding == {t \in Updates : update[t].handler = "add_date"}
Bounded(h) == /\ h = "add" => dialogs < MaxDialogs
              /\ h = "add_date" => lastSub + Cardinality(Adding) < MaxSubs

(* FSMContextMiddleware reads the state, which chooses the handler.         *)
Arrive(t) == \E b \in Requests :
  /\ update[t].pc = "idle" /\ Bounded(b.handler)
  /\ Becomes(t, [Idle EXCEPT
       !.pc = "user", !.handler = b.handler, !.arg = b.arg, !.to = b.to,
       !.meant = CASE b.handler \in EditSubscriptionStates -> asked
                   [] b.handler \in AddSubscriptionStates -> dialogs
                   [] OTHER -> None])
  /\ IF late = 0 /\ \A q \in Updates : update[q].pc = "idle"
       THEN UNCHANGED late ELSE late < MaxLate /\ late' = late + 1
  /\ UNCHANGED <<database, fsm, prompted, hits>>

(* A mutation: a wiped user is not created again.                           *)
LoadUserOnly(t) ==
  /\ update[t].pc = "user"
  /\ Becomes(t, [update[t] EXCEPT !.pc = "handle", !.owner = user])
  /\ UNCHANGED <<database, fsm, prompted, hits, late>>

(* UserContextMiddleware: the user's row, or a new one.                     *)
LoadUser(t) ==
  /\ update[t].pc = "user"
  /\ Becomes(t, IF user = None THEN [update[t] EXCEPT !.pc = "create"]
                  ELSE [update[t] EXCEPT !.pc = "handle", !.owner = user])
  /\ UNCHANGED <<database, fsm, prompted, hits, late>>

(* Any id that nothing refers to any more.                                  *)
NewUser == CHOOSE u \in Users : \A q \in Updates : update[q].owner # u

(* tg_id is unique: the INSERT waits for another's and fails if that one    *)
(* was committed.                                                           *)
CreateUser(t) ==
  /\ update[t].pc = "create" /\ \A q \in Updates : ~update[q].fresh
  /\ \/ /\ user = None
        /\ Becomes(t, [update[t] EXCEPT !.pc = "handle", !.owner = NewUser,
                                        !.fresh = TRUE])
     \/ user # None /\ Becomes(t, Idle)
  /\ UNCHANGED <<database, fsm, prompted, hits, late>>
-----------------------------------------------------------------------------
(* A handler that only moves the dialog on.                                 *)
MovesOn(t, to, d) ==
  /\ state' = to /\ data' = d /\ Reply(t)
  /\ UNCHANGED <<database, prompted, hits, late>>

(* start_add_subscription: the data of an earlier dialog stays.             *)
StartAdd(t) ==
  /\ At(t, "add")
  /\ Reply(t) /\ state' = "add_name"
  /\ dialogs' = IF dialogs < MaxDialogs THEN dialogs + 1 ELSE dialogs
  /\ UNCHANGED <<database, data, asked, hits, late>>

(* on_name_entered of the add dialog takes a command for a name.            *)
AddName(t) ==
  /\ At(t, "add_name")
  /\ MovesOn(t, "add_amount", [data EXCEPT !.custom_name = update[t].meant])

AddAmount(t) ==
  /\ At(t, "add_amount")
  /\ MovesOn(t, "add_currency", [data EXCEPT !.amount = update[t].meant])

AddCurrency(t) ==
  /\ At(t, "add_currency")
  /\ MovesOn(t, "add_period", [data EXCEPT !.currency = update[t].meant])

AddPeriod(t) ==
  /\ At(t, "add_period")
  /\ MovesOn(t, "add_date", [data EXCEPT !.period = update[t].meant])

(* apply_amount_edit                                                        *)
EditAmount(t) ==
  /\ At(t, "edit_amount")
  /\ MovesOn(t, "edit_currency", [data EXCEPT !.pending_amount = update[t].meant])

(* cmd_start is asked last: in a state that takes text it is that text.     *)
CmdStart(t) ==
  /\ At(t, "start")
  /\ MovesOn(t, "choosing_timezone", data)

OnTimezoneChosen(t) ==
  /\ At(t, "choosing_timezone")
  /\ MovesOn(t, "choosing_base_currency", [data EXCEPT !.timezone = 1])

(* Lists, cards, menus, questions: nothing but messages.                    *)
Show(t) ==
  /\ At(t, "view") /\ Reply(t)
  /\ UNCHANGED <<database, fsm, prompted, hits, late>>

(* The handler raises: nothing is committed, the dialog stays as it is.     *)
Raise(t) == Becomes(t, Idle) /\ UNCHANGED fsm
-----------------------------------------------------------------------------
(* choose_edit_field asks for the subscription ...                          *)
AskField(t) == LET s == update[t].arg IN
  /\ At(t, "field")
  /\ IF Owned(s, update[t].owner)
       THEN Becomes(t, [update[t] EXCEPT !.pc = "found", !.target = s])
       ELSE Reply(t)
  /\ UNCHANGED <<database, fsm, prompted, hits, late>>

(* ... and opens the dialog of the field.                                   *)
Prompts(t, s) ==
  /\ state' = update[t].to /\ data' = [data EXCEPT !.subscription_id = s]
  /\ asked' = update[t].target /\ Reply(t)
  /\ UNCHANGED <<database, dialogs, hits, late>>

(* A mutation: it keeps the subscription of a dialog that was left.         *)
OpenFieldOfFirst(t) ==
  /\ update[t].pc = "found" /\ update[t].handler = "field"
  /\ Prompts(t, IF data.subscription_id = None THEN update[t].target
                  ELSE data.subscription_id)

OpenField(t) ==
  /\ update[t].pc = "found" /\ update[t].handler = "field"
  /\ Prompts(t, update[t].target)

(* The handlers of the last step of each edit dialog.                       *)
Applying == EditSubscriptionStates \ {"edit_amount"}

(* _load_editing_subscription: the data, and the row they name.  Without an *)
(* amount apply_currency_edit raises; without a row the dialog is cleared.  *)
AskEdit(t) == LET s == data.subscription_id
                  amount == update[t].handler = "edit_currency" IN
  /\ update[t].pc = "handle" /\ update[t].handler \in Applying
  /\ \/ /\ amount /\ data.pending_amount = None
        /\ Raise(t)
     \/ /\ amount => data.pending_amount # None
        /\ Owned(s, update[t].owner)
        /\ Becomes(t, [update[t] EXCEPT
             !.pc = "found", !.target = s, !.seen = subs[s].status,
             !.value = IF amount THEN data.pending_amount ELSE update[t].meant])
        /\ UNCHANGED fsm
     \/ /\ amount => data.pending_amount # None
        /\ ~Owned(s, update[t].owner)
        /\ Reply(t) /\ state' = "none" /\ data' = NoData
  /\ UNCHANGED <<database, prompted, hits, late>>

(* SubscriptionService.update and state.clear, before any message.          *)
ApplyEdit(t) ==
  /\ update[t].pc = "found"
  /\ update[t].handler \in Applying
  /\ Ends(t, [update[t] EXCEPT !.task = "edit"])
  /\ state' = "none" /\ data' = NoData
  /\ UNCHANGED <<database, prompted, hits, late>>

(* on_date_entered reads what the dialog gathered and inserts.              *)
AskCreate(t) ==
  /\ At(t, "add_date")
  /\ \/ /\ \E k \in AddKeys : data[k] = None
        /\ Raise(t) /\ UNCHANGED lastSub
     \/ /\ \A k \in AddKeys : data[k] # None
        /\ lastSub' = lastSub + 1
        /\ Becomes(t, [update[t] EXCEPT
             !.pc = "inserted", !.target = lastSub + 1, !.task = "create",
             !.from = {data[k] : k \in AddKeys} \cup {update[t].meant}])
        /\ UNCHANGED fsm
  /\ UNCHANGED <<user, subs, prompted, hits, late>>

(* A mutation: the dialog is not cleared.                                   *)
CreatedKept(t) ==
  /\ update[t].pc = "inserted"
  /\ Ends(t, update[t])
  /\ UNCHANGED <<database, fsm, prompted, hits, late>>

(* A mutation: only its data are.                                           *)
CreatedUnstated(t) ==
  /\ update[t].pc = "inserted"
  /\ Ends(t, update[t]) /\ data' = NoData
  /\ UNCHANGED <<database, state, prompted, hits, late>>

(* SubscriptionService.create has flushed the row.                          *)
Created(t) ==
  /\ update[t].pc = "inserted"
  /\ Ends(t, update[t]) /\ state' = "none" /\ data' = NoData
  /\ UNCHANGED <<database, prompted, hits, late>>

(* on_currency_chosen of the onboarding: the user's settings, then clear.   *)
FinishOnboarding(t) ==
  /\ At(t, "choosing_base_currency")
  /\ \/ data.timezone = None /\ Raise(t)
     \/ data.timezone # None /\ Reply(t) /\ state' = "none" /\ data' = NoData
  /\ UNCHANGED <<database, prompted, hits, late>>

(* confirm_delete; confirm_wipe, which leaves the dialog as it is.          *)
AskCancel(t) == LET s == update[t].arg IN
  /\ At(t, "cancel")
  /\ IF Owned(s, update[t].owner)
       THEN Ends(t, [update[t] EXCEPT !.task = "cancel", !.target = s,
                                      !.seen = subs[s].status])
       ELSE Reply(t)
  /\ UNCHANGED <<database, fsm, prompted, hits, late>>

AskWipe(t) ==
  /\ At(t, "wipe")
  /\ Ends(t, [update[t] EXCEPT !.task = "wipe"])
  /\ UNCHANGED <<database, fsm, prompted, hits, late>>
-----------------------------------------------------------------------------
(* A session that inserted the user is the first to see it.                 *)
UserAfter(t) == IF update[t].fresh THEN update[t].owner ELSE user

(* A mutation: a flush writes every column of the loaded row.               *)
FlushAll(t) == LET s == update[t].target IN
  CASE update[t].task = "edit" /\ s \in DOMAIN subs ->
         [subs EXCEPT ![s].status = update[t].seen]
    [] update[t].task = "cancel" /\ s \in DOMAIN subs ->
         [subs EXCEPT ![s].status = "cancelled"]
    [] update[t].task = "create" /\ UserAfter(t) = update[t].owner ->
         Put(subs, s, [owner |-> update[t].owner, status |-> "active",
                       from |-> update[t].from])
    [] OTHER -> subs

(* A mutation: the foreign key is not checked.                              *)
FlushUnchecked(t) == LET s == update[t].target IN
  IF update[t].task = "create"
    THEN Put(subs, s, [owner |-> update[t].owner, status |-> "active",
                       from |-> update[t].from])
    ELSE subs

(* What is written to subscriptions: the changed columns of a row that      *)
(* still exists (or StaleDataError), a row whose user exists (or            *)
(* IntegrityError).                                                         *)
Flush(t) == LET s == update[t].target IN
  CASE update[t].task = "cancel" /\ s \in DOMAIN subs ->
         [subs EXCEPT ![s].status = "cancelled"]
    [] update[t].task = "create" /\ UserAfter(t) = update[t].owner ->
         Put(subs, s, [owner |-> update[t].owner, status |-> "active",
                       from |-> update[t].from])
    [] OTHER -> subs

(* All messages are sent; only then DbSessionMiddleware commits.  A wipe    *)
(* takes the user's subscriptions with it.                                  *)
Commit(t) == LET wiped == update[t].task = "wipe" /\ UserAfter(t) = update[t].owner
             IN
  /\ update[t].pc = "reply"
  /\ user' = IF wiped THEN None ELSE UserAfter(t)
  /\ subs' = IF wiped THEN [s \in {} |-> 0] ELSE Flush(t)
  /\ hits' = IF update[t].task = "edit" /\ update[t].target \in DOMAIN subs
               THEN hits \cup {<<update[t].value, update[t].target>>} ELSE hits
  /\ Becomes(t, Idle)
  /\ UNCHANGED <<lastSub, fsm, prompted, late>>

(* Telegram or Postgres refuses, or an email subscription of the user has   *)
(* the new name already: the session is rolled back, the dialog is not.     *)
Fail(t) == /\ update[t].pc # "idle"
           /\ Raise(t)
           /\ UNCHANGED <<database, prompted, hits, late>>

(* The process restarts: updates under way and all dialogs are lost.        *)
Restart == /\ update' = [t \in Updates |-> Idle]
           /\ state' = "none" /\ data' = NoData
           /\ UNCHANGED <<database, prompted, hits, late>>

Handle(t) ==
  \/ StartAdd(t) \/ AddName(t) \/ AddAmount(t) \/ AddCurrency(t) \/ AddPeriod(t)
  \/ EditAmount(t) \/ CmdStart(t) \/ OnTimezoneChosen(t) \/ Show(t)
  \/ AskField(t) \/ OpenField(t) \/ AskEdit(t) \/ ApplyEdit(t)
  \/ AskCreate(t) \/ Created(t) \/ FinishOnboarding(t) \/ AskCancel(t)
  \/ AskWipe(t)

Next ==
  \/ Restart
  \/ \E t \in Updates : \/ Arrive(t) \/ LoadUser(t) \/ CreateUser(t) \/ Handle(t)
                        \/ Commit(t) \/ Fail(t)

Spec == Init /\ [][Next]_vars
-----------------------------------------------------------------------------
(* Every variable has its type.                                             *)
TypeOK ==
  /\ user \in Users \cup {None}
  /\ DOMAIN subs \subseteq 1..lastSub /\ lastSub \in 0..MaxSubs
  /\ \A s \in DOMAIN subs :
       subs[s] \in [owner : Users, status : {"active", "cancelled"},
                    from : SUBSET (1..MaxDialogs)]
  /\ state \in States
  /\ DOMAIN data = DOMAIN NoData
  /\ data.subscription_id \in 0..MaxSubs /\ data.pending_amount \in 0..MaxSubs
  /\ \A k \in AddKeys : data[k] \in 0..MaxDialogs
  /\ \A t \in Updates :
       /\ DOMAIN update[t] = DOMAIN Idle
       /\ update[t].handler \in Handlers
       /\ update[t].pc = "handle" => update[t].owner # None
       /\ update[t].owner \in Users \cup {None} /\ update[t].target \in 0..MaxSubs
       /\ update[t].task \in Tasks
  /\ dialogs \in 0..MaxDialogs /\ asked \in 0..MaxSubs
  /\ hits \subseteq (0..MaxSubs) \X SubIds
  /\ late \in 0..MaxLate

(* As long as the user's updates were handled one after the other, an edit  *)
(* changes the subscription it was entered for, whatever dialogs were begun *)
(* and left before and whatever their data left behind.                     *)
EditsHitTheirSubscription ==
  late = 0 => \A h \in hits : h[1] = h[2]

(* So does the add dialog: a subscription has the values of one dialog, and *)
(* a dialog makes one subscription at most, also when a message or a commit *)
(* failed on the way.                                                       *)
AddedAsEntered ==
  late = 0 =>
    \A s \in DOMAIN subs :
      /\ Cardinality(subs[s].from) <= 1
      /\ \A r \in DOMAIN subs \ {s} : subs[s].from \cap subs[r].from = {}

(* And a handler never looks for data that its state does not guarantee.    *)
StatesKeepTheirData ==
  late = 0 =>
    /\ state = "edit_currency" => data.pending_amount # None
    /\ state \in EditSubscriptionStates => data.subscription_id # None
    /\ state = "add_date" => \A k \in AddKeys : data[k] # None
    /\ state = "choosing_base_currency" => data.timezone # None

(* A cancelled subscription stays cancelled, whoever edits it at the same   *)
(* time from an older card.                                                 *)
CancelledStaysCancelled ==
  [][\A s \in DOMAIN subs \cap DOMAIN subs' :
       subs[s].status = "cancelled" => subs'[s].status = "cancelled"]_vars

(* A wipe is final: a dialog under way does not bring back a subscription   *)
(* of the user who was wiped.                                               *)
OwnersExist == \A s \in DOMAIN subs : subs[s].owner = user
=============================================================================
