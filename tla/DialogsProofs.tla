---------------------------- MODULE DialogsProofs ----------------------------
(***************************************************************************)
(* Proofs about Dialogs, for any number of updates handled at a time, of    *)
(* dialogs and of subscriptions.                                            *)
(***************************************************************************)
EXTENDS Dialogs, FiniteSetTheorems, TLAPS

-----------------------------------------------------------------------------
(* Types.  What an update holds depends on how far it is.                   *)
PCs == {"idle", "user", "create", "handle", "found", "inserted", "reply"}
Session ==
  [pc : PCs, handler : Handlers, arg : 0..MaxSubs,
   to : States \ AddSubscriptionStates,
   meant : Nat, owner : Users \cup {None}, fresh : BOOLEAN,
   target : 0..MaxSubs, seen : {"active", "cancelled"}, value : 0..MaxSubs,
   from : SUBSET (1..MaxDialogs), task : Tasks]
DialogData ==
  [subscription_id : 0..MaxSubs, pending_amount : 0..MaxSubs,
   custom_name : 0..MaxDialogs, amount : 0..MaxDialogs,
   currency : 0..MaxDialogs, period : 0..MaxDialogs, timezone : {None, 1}]
Subscription ==
  [owner : Users, status : {"active", "cancelled"}, from : SUBSET (1..MaxDialogs)]

(* A session, when n add dialogs were begun and l ids given.                *)
WellFormed(r, n, l) ==
  /\ r.pc = "idle" => r = Idle
  /\ r.handler \in EditSubscriptionStates => r.meant \in 0..MaxSubs
  /\ r.handler \in AddSubscriptionStates => r.meant \in 1..n
  /\ r.handler = "add" => MaxDialogs > 0
  /\ r.pc \in {"handle", "found", "inserted", "reply"} => r.owner # None
  /\ r.pc = "found" => r.target \in 1..l
  /\ r.pc = "inserted" => r.task = "create"
  /\ r.task = "create" => r.target \in 1..l
  /\ r.task # "nothing" => r.pc \in {"inserted", "reply"}
  /\ r.fresh => r.owner # None

Undecided == {"user", "create", "handle"}
Waits(r) == r.handler = "add_date" /\ r.pc \in Undecided
Waiting == {t \in Updates : Waits(update[t])}

(* Every add dialog at its last step has an id left to give: this bounds    *)
(* the ids by MaxSubs although Arrive looks only at what was given.         *)
Room == lastSub + Cardinality(Waiting) <= MaxSubs

Typed ==
  /\ user \in Users \cup {None}
  /\ subs \in [DOMAIN subs -> Subscription] /\ DOMAIN subs \subseteq 1..lastSub
  /\ lastSub \in Nat
  /\ state \in States /\ data \in DialogData
  /\ update \in [Updates -> Session]
  /\ dialogs \in 0..MaxDialogs /\ asked \in 0..MaxSubs
  /\ hits \subseteq (0..MaxSubs) \X SubIds
  /\ late \in 0..MaxLate

TypeInv ==
  /\ Typed /\ Room
  /\ \A t \in Updates : WellFormed(update[t], dialogs, lastSub)
  /\ state \in AddSubscriptionStates => dialogs > 0

LEMMA UpdatesAreFinite ==
  /\ IsFiniteSet(Updates) /\ Cardinality(Updates) \in Nat
  /\ IsFiniteSet(Users) /\ Cardinality(Users) = Cardinality(Updates) + 1
<1>1. IsFiniteSet(Updates) /\ Cardinality(Updates) \in Nat
  BY DialogsAssumption, FS_CardinalityType
<1> QED
  BY <1>1, FS_Interval DEF Users

(* There are more users than sessions: one is free to be created.           *)
LEMMA NewUserIsFree ==
  ASSUME TypeInv
  PROVE  NewUser \in Users /\ \A q \in Updates : update[q].owner # NewUser
<1>1. \E u \in Users : \A q \in Updates : update[q].owner # u
  <2> SUFFICES ASSUME \A u \in Users : \E q \in Updates : update[q].owner = u
               PROVE  FALSE
    OBVIOUS
  <2> DEFINE f == [u \in Users |-> CHOOSE q \in Updates : update[q].owner = u]
  <2>1. \A u \in Users : f[u] \in Updates /\ update[f[u]].owner = u
    OBVIOUS
  <2>2. f \in [Users -> Updates]
    BY <2>1
  <2> HIDE DEF f
  <2>3. Cardinality(Updates) < Cardinality(Users)
    BY UpdatesAreFinite
  <2>4. \E x, y \in Users : x # y /\ f[x] = f[y]
    BY <2>2, <2>3, UpdatesAreFinite, FS_PigeonHole
  <2> QED
    BY <2>1, <2>4
<1> QED
  BY <1>1 DEF NewUser

LEMMA WaitingIsFinite ==
  /\ IsFiniteSet(Waiting) /\ Cardinality(Waiting) \in Nat
  /\ IsFiniteSet(Adding) /\ Cardinality(Adding) \in Nat
<1>1. Waiting \in SUBSET Updates /\ Adding \in SUBSET Updates
  BY DEF Waiting, Adding
<1> QED
  BY <1>1, UpdatesAreFinite, FS_Subset, FS_CardinalityType

LEMMA IdsAreBounded ==
  ASSUME TypeInv
  PROVE  /\ lastSub \in 0..MaxSubs /\ 1..lastSub \subseteq SubIds
         /\ dialogs \in Nat /\ MaxSubs \in Nat /\ MaxDialogs \in Nat
<1>1. lastSub \in Nat /\ dialogs \in 0..MaxDialogs
  BY DEF TypeInv, Typed
<1>2. lastSub + Cardinality(Waiting) <= MaxSubs
  BY DEF TypeInv, Room
<1> QED
  BY <1>1, <1>2, WaitingIsFinite, DialogsAssumption DEF SubIds

LEMMA IdleIsASession ==
  /\ Idle \in Session /\ Idle.pc = "idle" /\ Idle.handler = "view"
  /\ Idle.task = "nothing" /\ ~Idle.fresh /\ ~Waits(Idle)
<1>1. MaxSubs \in Nat /\ MaxDialogs \in Nat
  BY DialogsAssumption
<1>2. "view" \in Handlers /\ "none" \in States /\ "nothing" \in Tasks
  BY DEF Handlers, States, Tasks
<1> QED
  BY <1>1, <1>2 DEF Idle, Session, PCs, None, Waits, AddSubscriptionStates

LEMMA IdleIsWellFormed ==
  ASSUME NEW n, NEW l
  PROVE  WellFormed(Idle, n, l)
BY DEF WellFormed, Idle, EditSubscriptionStates, AddSubscriptionStates

(* More dialogs and more ids do not matter.                                 *)
LEMMA WellFormedGrows ==
  ASSUME NEW r, NEW n \in Nat, NEW l \in Nat, NEW m \in Nat, NEW k \in Nat,
         n <= m, l <= k, WellFormed(r, n, l)
  PROVE  WellFormed(r, m, k)
BY DEF WellFormed

LEMMA TypeInvInit == Init => TypeInv
<1> SUFFICES ASSUME Init PROVE TypeInv
  OBVIOUS
<1>1. MaxSubs \in Nat /\ MaxDialogs \in Nat /\ MaxLate \in Nat
      /\ FirstSubs \in 0..MaxSubs
  BY DialogsAssumption
<1>2. \A t \in Updates : update[t] = Idle
  BY DEF Init
<1>3. Waiting = {}
  BY <1>2, IdleIsASession DEF Waiting
<1>4. Room
  BY <1>1, <1>3, FS_EmptySet DEF Room, Init
<1>5. \A t \in Updates : WellFormed(update[t], dialogs, lastSub)
  BY <1>2, IdleIsWellFormed
<1>6. 1 \in Users
  BY UpdatesAreFinite DEF Users
<1>7. subs \in [DOMAIN subs -> Subscription] /\ DOMAIN subs \subseteq 1..lastSub
  BY <1>1, <1>6 DEF Init, Subscription
<1>8. data \in DialogData
  BY <1>1 DEF Init, NoData, DialogData, None
<1>9. update \in [Updates -> Session]
  BY IdleIsASession DEF Init
<1>10. state \in States /\ state \notin AddSubscriptionStates
  BY DEF Init, States, AddSubscriptionStates
<1>11. /\ user \in Users \cup {None} /\ lastSub \in Nat
       /\ dialogs \in 0..MaxDialogs /\ asked \in 0..MaxSubs
       /\ hits \subseteq (0..MaxSubs) \X SubIds /\ late \in 0..MaxLate
  BY <1>1, <1>6 DEF Init, None
<1> QED
  BY <1>4, <1>5, <1>7, <1>8, <1>9, <1>10, <1>11 DEF TypeInv, Typed

(* What the step of one update leaves of the types: its session's record    *)
(* has the type, the others keep theirs, and the ids suffice.               *)
SessionsTyped ==
  /\ update' \in [Updates -> Session]
  /\ \A q \in Updates : WellFormed(update'[q], dialogs', lastSub')
  /\ Room'

LEMMA BecomesTyped ==
  ASSUME TypeInv, NEW t \in Updates, NEW r \in Session, Becomes(t, r),
         dialogs' \in Nat, dialogs <= dialogs', lastSub' = lastSub,
         WellFormed(r, dialogs', lastSub'),
         Waits(r) => Waits(update[t])
  PROVE  SessionsTyped
<1>1. update \in [Updates -> Session] /\ lastSub \in Nat /\ dialogs \in Nat
  BY IdsAreBounded DEF TypeInv, Typed
<1>2. update'[t] = r /\ \A q \in Updates \ {t} : update'[q] = update[q]
  BY <1>1 DEF Becomes
<1>3. update' \in [Updates -> Session]
  BY <1>1 DEF Becomes
<1>4. \A q \in Updates : WellFormed(update'[q], dialogs', lastSub')
  <2> SUFFICES ASSUME NEW q \in Updates, q # t
               PROVE  WellFormed(update'[q], dialogs', lastSub')
    BY <1>2
  <2>1. WellFormed(update[q], dialogs, lastSub)
    BY DEF TypeInv
  <2> QED
    BY <1>1, <1>2, <2>1, WellFormedGrows
<1>5. Waiting' \in SUBSET Waiting
  BY <1>2 DEF Waiting
<1>6. Cardinality(Waiting') \in Nat /\ Cardinality(Waiting') <= Cardinality(Waiting)
  BY <1>5, WaitingIsFinite, FS_Subset, FS_CardinalityType
<1>7. Room'
  BY <1>1, <1>6, WaitingIsFinite, DialogsAssumption DEF Room, TypeInv
<1> QED
  BY <1>3, <1>4, <1>7 DEF SessionsTyped

LEMMA BecomesIdle ==
  ASSUME TypeInv, NEW t \in Updates, Becomes(t, Idle), UNCHANGED <<dialogs, lastSub>>
  PROVE  SessionsTyped
BY IdleIsASession, IdleIsWellFormed, BecomesTyped, IdsAreBounded

(* The record that Ends gives an update.                                    *)
LEMMA EndsTyped ==
  ASSUME TypeInv, NEW t \in Updates, NEW r \in Session, Ends(t, r),
         r.owner # None, r.task = "create" => r.target \in 1..lastSub,
         dialogs' \in Nat, dialogs <= dialogs', lastSub' = lastSub
  PROVE  SessionsTyped
<1> DEFINE e == [Idle EXCEPT
      !.pc = "reply", !.owner = r.owner, !.fresh = r.fresh, !.target = r.target,
      !.seen = r.seen, !.value = r.value, !.from = r.from, !.task = r.task]
<1>1. Becomes(t, e)
  BY DEF Ends
<1>2. e \in Session
  BY IdleIsASession DEF Session, PCs
<1>3. /\ e.pc = "reply" /\ e.handler = "view" /\ e.owner = r.owner
      /\ e.task = r.task /\ e.target = r.target
  BY DEF Idle
<1>4. WellFormed(e, dialogs', lastSub') /\ ~Waits(e)
  BY <1>3 DEF WellFormed, Waits, EditSubscriptionStates, AddSubscriptionStates
<1> HIDE DEF e
<1> QED
  BY <1>1, <1>2, <1>4, BecomesTyped

LEMMA ReplyTyped ==
  ASSUME TypeInv, NEW t \in Updates, Reply(t), update[t].owner # None,
         update[t].task = "nothing",
         dialogs' \in Nat, dialogs <= dialogs', lastSub' = lastSub
  PROVE  SessionsTyped
<1> DEFINE r == [update[t] EXCEPT !.target = None, !.seen = "active"]
<1>1. update[t] \in Session
  BY DEF TypeInv, Typed
<1>2. r \in Session /\ r.owner = update[t].owner /\ r.task = "nothing"
  <2>1. None \in 0..MaxSubs
    BY DialogsAssumption DEF None
  <2> QED
    BY <1>1, <2>1 DEF Session
<1>3. Ends(t, r)
  BY DEF Reply
<1> HIDE DEF r
<1> QED
  BY <1>2, <1>3, EndsTyped

(* Every step but a commit leaves the rows alone.                           *)
LEMMA TypedFrom ==
  ASSUME TypeInv, SessionsTyped, UNCHANGED <<user, subs, hits>>,
         lastSub' \in Nat, lastSub <= lastSub',
         state' \in States, data' \in DialogData,
         state' \in AddSubscriptionStates => dialogs' > 0,
         dialogs' \in 0..MaxDialogs, asked' \in 0..MaxSubs, late' \in 0..MaxLate
  PROVE  TypeInv'
<1>1. Typed
  BY DEF TypeInv
<1>2. DOMAIN subs' \subseteq 1..lastSub'
  BY <1>1 DEF Typed
<1>3. Typed'
  BY <1>1, <1>2 DEF Typed, SessionsTyped
<1> QED
  BY <1>3 DEF TypeInv, SessionsTyped

LEMMA StatesAndData ==
  ASSUME TypeInv
  PROVE  /\ state \in States /\ data \in DialogData
         /\ state \in AddSubscriptionStates => dialogs > 0
         /\ dialogs \in 0..MaxDialogs /\ asked \in 0..MaxSubs /\ late \in 0..MaxLate
         /\ lastSub \in 0..MaxSubs
         /\ "none" \in States \ AddSubscriptionStates /\ NoData \in DialogData
         /\ \A t \in Updates : /\ update[t] \in Session
                               /\ WellFormed(update[t], dialogs, lastSub)
<1>1. NoData \in DialogData
  BY DialogsAssumption DEF NoData, DialogData, None
<1>2. lastSub \in 0..MaxSubs
  BY IdsAreBounded
<1> QED
  BY <1>1, <1>2 DEF TypeInv, Typed, States, AddSubscriptionStates

LEMMA ArriveTyped ==
  ASSUME TypeInv, NEW t \in Updates, Arrive(t)
  PROVE  TypeInv'
<1>1. PICK b \in Requests :
        /\ update[t].pc = "idle" /\ Bounded(b.handler)
        /\ Becomes(t, [Idle EXCEPT
             !.pc = "user", !.handler = b.handler, !.arg = b.arg, !.to = b.to,
             !.meant = CASE b.handler \in EditSubscriptionStates -> asked
                         [] b.handler \in AddSubscriptionStates -> dialogs
                         [] OTHER -> None])
  BY DEF Arrive
<1>2. UNCHANGED <<database, fsm, prompted, hits>> /\ late' \in 0..MaxLate
  <2>1. late \in 0..MaxLate /\ MaxLate \in Nat
    BY StatesAndData, DialogsAssumption
  <2> QED
    BY <2>1 DEF Arrive
<1> DEFINE meant == CASE b.handler \in EditSubscriptionStates -> asked
                     [] b.handler \in AddSubscriptionStates -> dialogs
                     [] OTHER -> None
           r == [Idle EXCEPT !.pc = "user", !.handler = b.handler, !.arg = b.arg,
                             !.to = b.to, !.meant = meant]
<1>3. /\ b.handler \in Handlers /\ b.arg \in 0..MaxSubs /\ b.to \in States \ AddSubscriptionStates
      /\ b.handler \in AddSubscriptionStates => b.handler = state
  <2>1. None \in 0..MaxSubs /\ 1..lastSub \subseteq 0..MaxSubs
    BY DialogsAssumption, IdsAreBounded DEF SubIds, None
  <2>2. state \in States
    BY StatesAndData
  <2> QED
    BY <2>1, <2>2 DEF Requests, Handlers, States, OnboardingStates,
       AddSubscriptionStates, EditSubscriptionStates
<1>4. meant \in Nat
  BY StatesAndData DEF None
<1>5. r \in Session
  BY <1>3, <1>4, IdleIsASession DEF Session, PCs
<1>6. /\ r.pc = "user" /\ r.handler = b.handler /\ r.meant = meant
      /\ r.task = "nothing" /\ ~r.fresh
  BY DEF Idle
<1>7. WellFormed(r, dialogs, lastSub)
  <2>1. r.handler \in EditSubscriptionStates => r.meant \in 0..MaxSubs
    <3>1. asked \in 0..MaxSubs
      BY StatesAndData
    <3>2. b.handler \in EditSubscriptionStates => meant = asked
      BY DEF EditSubscriptionStates, AddSubscriptionStates
    <3> HIDE DEF meant, r
    <3> QED
      BY <1>6, <3>1, <3>2
  <2>2. r.handler \in AddSubscriptionStates => r.meant \in 1..dialogs
    <3>1. SUFFICES ASSUME b.handler \in AddSubscriptionStates
                   PROVE  meant \in 1..dialogs
      BY <1>6
    <3>2. b.handler \notin EditSubscriptionStates
      BY <3>1 DEF AddSubscriptionStates, EditSubscriptionStates
    <3>3. dialogs > 0 /\ dialogs \in Nat
      BY <1>3, <3>1, StatesAndData
    <3> QED
      BY <3>1, <3>2, <3>3
  <2>3. r.handler = "add" => MaxDialogs > 0
    <3>1. dialogs \in Nat /\ MaxDialogs \in Nat
      BY IdsAreBounded
    <3> QED
      BY <1>1, <1>6, <3>1 DEF Bounded
  <2> QED
    BY <1>6, <2>1, <2>2, <2>3 DEF WellFormed
<1> HIDE DEF meant
<1>8. Becomes(t, r)
  BY <1>1 DEF meant
<1> HIDE DEF r
<1>9. CASE ~Waits(r)
  <2>1. SessionsTyped
    BY <1>2, <1>5, <1>7, <1>8, <1>9, BecomesTyped, IdsAreBounded DEF database, prompted
  <2> QED
    BY <1>2, <2>1, TypedFrom, StatesAndData DEF database, fsm, prompted
<1>10. CASE Waits(r)
  <2>1. lastSub + Cardinality(Adding) < MaxSubs
    BY <1>1, <1>6, <1>10 DEF Bounded, Waits
  <2>2. update \in [Updates -> Session]
    BY DEF TypeInv, Typed
  <2>3. update'[t] = r /\ \A q \in Updates \ {t} : update'[q] = update[q]
    BY <1>8, <2>2 DEF Becomes
  <2>4. Waiting' \in SUBSET (Adding \cup {t})
    BY <2>3 DEF Waiting, Waits, Adding
  <2>5. /\ IsFiniteSet(Adding \cup {t})
        /\ Cardinality(Adding \cup {t}) <= Cardinality(Adding) + 1
        /\ Cardinality(Adding \cup {t}) \in Nat
    <3>1. IsFiniteSet(Adding) /\ Cardinality(Adding) \in Nat
      BY WaitingIsFinite
    <3>2. /\ IsFiniteSet(Adding \cup {t})
          /\ Cardinality(Adding \cup {t}) =
               IF t \in Adding THEN Cardinality(Adding) ELSE Cardinality(Adding) + 1
      BY <3>1, FS_AddElement
    <3> QED
      BY <3>1, <3>2
  <2>6. Cardinality(Waiting') \in Nat
        /\ Cardinality(Waiting') <= Cardinality(Adding) + 1
    BY <2>4, <2>5, WaitingIsFinite, FS_Subset, FS_CardinalityType
  <2>7. Room'
    BY <1>2, <2>1, <2>6, WaitingIsFinite, IdsAreBounded DEF Room, database
  <2>8. update' \in [Updates -> Session]
    BY <1>5, <1>8, <2>2 DEF Becomes
  <2>9. \A q \in Updates : WellFormed(update'[q], dialogs', lastSub')
    BY <1>2, <1>7, <2>3, StatesAndData DEF database, prompted
  <2>10. SessionsTyped
    BY <2>7, <2>8, <2>9 DEF SessionsTyped
  <2> QED
    BY <1>2, <2>10, TypedFrom, StatesAndData DEF database, fsm, prompted
<1> QED
  BY <1>9, <1>10

LEMMA LoadUserTyped ==
  ASSUME TypeInv, NEW t \in Updates, LoadUser(t)
  PROVE  TypeInv'
<1> DEFINE created == [update[t] EXCEPT !.pc = "create"]
           loaded == [update[t] EXCEPT !.pc = "handle", !.owner = user]
<1>1. /\ update[t] \in Session /\ WellFormed(update[t], dialogs, lastSub)
      /\ update[t].pc = "user" /\ user \in Users \cup {None}
  BY StatesAndData DEF LoadUser, TypeInv, Typed
<1>2. created \in Session /\ loaded \in Session
  BY <1>1 DEF Session, PCs
<1>3. update[t].task = "nothing" /\ (Waits(created) => Waits(update[t]))
      /\ (Waits(loaded) => Waits(update[t]))
  BY <1>1 DEF WellFormed, Session, Waits, Undecided
<1>4. WellFormed(created, dialogs, lastSub)
  BY <1>1, <1>3 DEF WellFormed, Session
<1>5. user # None => WellFormed(loaded, dialogs, lastSub)
  BY <1>1, <1>3 DEF WellFormed, Session
<1>6. IF user = None THEN Becomes(t, created) ELSE Becomes(t, loaded)
  BY DEF LoadUser
<1> HIDE DEF created, loaded
<1>7. SessionsTyped
  BY <1>2, <1>3, <1>4, <1>5, <1>6, BecomesTyped, IdsAreBounded
     DEF LoadUser, database, prompted
<1> QED
  BY <1>7, TypedFrom, StatesAndData DEF LoadUser, database, fsm, prompted

LEMMA CreateUserTyped ==
  ASSUME TypeInv, NEW t \in Updates, CreateUser(t)
  PROVE  TypeInv'
<1> DEFINE r == [update[t] EXCEPT !.pc = "handle", !.owner = NewUser, !.fresh = TRUE]
<1>1. /\ update[t] \in Session /\ WellFormed(update[t], dialogs, lastSub)
      /\ update[t].pc = "create" /\ NewUser \in Users
  BY StatesAndData, NewUserIsFree DEF CreateUser
<1>2. r \in Session
  BY <1>1 DEF Session, PCs
<1>3. update[t].task = "nothing" /\ (Waits(r) => Waits(update[t])) /\ NewUser # None
  BY <1>1 DEF WellFormed, Session, Waits, Undecided, Users, None
<1>4. WellFormed(r, dialogs, lastSub)
  BY <1>1, <1>3 DEF WellFormed, Session
<1>5. Becomes(t, r) \/ Becomes(t, Idle)
  BY DEF CreateUser
<1> HIDE DEF r
<1>6. SessionsTyped
  BY <1>2, <1>3, <1>4, <1>5, BecomesTyped, BecomesIdle, IdsAreBounded
     DEF CreateUser, database, prompted
<1> QED
  BY <1>6, TypedFrom, StatesAndData DEF CreateUser, database, fsm, prompted
LEMMA AtHandler ==
  ASSUME TypeInv, NEW t \in Updates, update[t].pc = "handle"
  PROVE  /\ update[t] \in Session /\ update[t].owner \in Users
         /\ update[t].task = "nothing"
         /\ WellFormed(update[t], dialogs, lastSub)
BY StatesAndData DEF WellFormed, Session, Users, None

(* Handlers that only move the dialog on, or only send messages.            *)
LEMMA MovesOnTyped ==
  ASSUME TypeInv, NEW t \in Updates, update[t].pc = "handle",
         NEW to \in States, NEW d \in DialogData, MovesOn(t, to, d),
         to \in AddSubscriptionStates => dialogs > 0
  PROVE  TypeInv'
<1>1. SessionsTyped
  BY AtHandler, ReplyTyped, IdsAreBounded DEF MovesOn, database, prompted, Users, None
<1> QED
  BY <1>1, TypedFrom, StatesAndData DEF MovesOn, database, prompted

LEMMA StartAddTyped ==
  ASSUME TypeInv, NEW t \in Updates, StartAdd(t)
  PROVE  TypeInv'
<1>1. MaxDialogs > 0 /\ update[t].owner # None /\ update[t].task = "nothing"
  BY AtHandler DEF StartAdd, At, WellFormed, Users, None
<1>2. dialogs' \in 0..MaxDialogs /\ dialogs <= dialogs' /\ dialogs' > 0
  BY <1>1, StatesAndData, IdsAreBounded DEF StartAdd
<1>3. SessionsTyped
  BY <1>1, <1>2, ReplyTyped, IdsAreBounded DEF StartAdd, database
<1>4. "add_name" \in States
  BY DEF States, AddSubscriptionStates
<1> QED
  BY <1>2, <1>3, <1>4, TypedFrom, StatesAndData DEF StartAdd, database

(* What a dialog gathers of the user's texts and buttons.                   *)
LEMMA GatherTyped ==
  ASSUME TypeInv, NEW t \in Updates, update[t].pc = "handle",
         \/ AddName(t) \/ AddAmount(t) \/ AddCurrency(t) \/ AddPeriod(t)
         \/ EditAmount(t) \/ CmdStart(t) \/ OnTimezoneChosen(t)
  PROVE  TypeInv'
<1>1. /\ update[t].handler \in AddSubscriptionStates =>
           update[t].meant \in 0..MaxDialogs /\ dialogs > 0
      /\ update[t].handler \in EditSubscriptionStates =>
           update[t].meant \in 0..MaxSubs
  BY AtHandler, IdsAreBounded, StatesAndData DEF WellFormed
<1>2. {"add_amount", "add_currency", "add_period", "add_date", "edit_currency",
       "choosing_timezone", "choosing_base_currency"} \subseteq States
  BY DEF States, AddSubscriptionStates, EditSubscriptionStates, OnboardingStates
<1>3. data \in DialogData
  BY StatesAndData
<1>a. CASE AddName(t)
  <2>1. update[t].handler \in AddSubscriptionStates
    BY <1>a DEF AddName, At, AddSubscriptionStates
  <2>2. [data EXCEPT !.custom_name = update[t].meant] \in DialogData
    BY <1>1, <1>3, <2>1 DEF DialogData
  <2> QED
    BY <1>1, <1>2, <1>a, <2>1, <2>2, MovesOnTyped DEF AddName
<1>b. CASE AddAmount(t)
  <2>1. update[t].handler \in AddSubscriptionStates
    BY <1>b DEF AddAmount, At, AddSubscriptionStates
  <2>2. [data EXCEPT !.amount = update[t].meant] \in DialogData
    BY <1>1, <1>3, <2>1 DEF DialogData
  <2> QED
    BY <1>1, <1>2, <1>b, <2>1, <2>2, MovesOnTyped DEF AddAmount
<1>c. CASE AddCurrency(t)
  <2>1. update[t].handler \in AddSubscriptionStates
    BY <1>c DEF AddCurrency, At, AddSubscriptionStates
  <2>2. [data EXCEPT !.currency = update[t].meant] \in DialogData
    BY <1>1, <1>3, <2>1 DEF DialogData
  <2> QED
    BY <1>1, <1>2, <1>c, <2>1, <2>2, MovesOnTyped DEF AddCurrency
<1>d. CASE AddPeriod(t)
  <2>1. update[t].handler \in AddSubscriptionStates
    BY <1>d DEF AddPeriod, At, AddSubscriptionStates
  <2>2. [data EXCEPT !.period = update[t].meant] \in DialogData
    BY <1>1, <1>3, <2>1 DEF DialogData
  <2> QED
    BY <1>1, <1>2, <1>d, <2>1, <2>2, MovesOnTyped DEF AddPeriod
<1>e. CASE EditAmount(t)
  <2>1. update[t].handler \in EditSubscriptionStates
    BY <1>e DEF EditAmount, At, EditSubscriptionStates
  <2>2. [data EXCEPT !.pending_amount = update[t].meant] \in DialogData
    BY <1>1, <1>3, <2>1 DEF DialogData
  <2>3. "edit_currency" \notin AddSubscriptionStates
    BY DEF AddSubscriptionStates
  <2> QED
    BY <1>1, <1>2, <1>e, <2>1, <2>2, <2>3, MovesOnTyped DEF EditAmount
<1>f. CASE CmdStart(t)
  <2>1. "choosing_timezone" \notin AddSubscriptionStates
    BY DEF AddSubscriptionStates
  <2> QED
    BY <1>2, <1>3, <1>f, <2>1, MovesOnTyped DEF CmdStart
<1>g. CASE OnTimezoneChosen(t)
  <2>1. [data EXCEPT !.timezone = 1] \in DialogData
    BY <1>3 DEF DialogData
  <2>2. "choosing_base_currency" \notin AddSubscriptionStates
    BY DEF AddSubscriptionStates
  <2> QED
    BY <1>2, <1>g, <2>1, <2>2, MovesOnTyped DEF OnTimezoneChosen
<1> QED
  BY <1>a, <1>b, <1>c, <1>d, <1>e, <1>f, <1>g

(* Steps that leave the rows, the prompts and the ids, and either leave the *)
(* dialog or clear it.                                                      *)
LEMMA ClearOrKeep ==
  ASSUME TypeInv, SessionsTyped,
         UNCHANGED <<user, subs, lastSub, dialogs, asked, hits, late>>,
         \/ UNCHANGED <<state, data>>
         \/ state' = "none" /\ data' = NoData
  PROVE  TypeInv'
BY TypedFrom, StatesAndData

LEMMA FindTyped ==
  ASSUME TypeInv, NEW t \in Updates, update[t].pc = "handle",
         UNCHANGED <<dialogs, lastSub>>,
         NEW s \in 1..lastSub, NEW status \in {"active", "cancelled"},
         NEW v \in 0..MaxSubs,
         Becomes(t, [update[t] EXCEPT !.pc = "found", !.target = s,
                                      !.seen = status, !.value = v])
  PROVE  SessionsTyped
<1> DEFINE r == [update[t] EXCEPT !.pc = "found", !.target = s,
                                  !.seen = status, !.value = v]
<1>1. /\ update[t] \in Session /\ WellFormed(update[t], dialogs, lastSub)
      /\ update[t].task = "nothing"
  BY AtHandler
<1>2. s \in 0..MaxSubs
  BY IdsAreBounded
<1>3. r \in Session
  BY <1>1, <1>2 DEF Session, PCs
<1>4. /\ r.pc = "found" /\ r.target = s /\ r.task = "nothing"
      /\ r.handler = update[t].handler /\ r.meant = update[t].meant
      /\ r.owner = update[t].owner /\ r.fresh = update[t].fresh
  BY <1>1 DEF Session
<1> HIDE DEF r
<1>5. WellFormed(r, dialogs, lastSub) /\ ~Waits(r)
  BY <1>1, <1>4, AtHandler DEF WellFormed, Waits, Undecided, Users, None
<1>6. Becomes(t, r)
  BY DEF r
<1> QED
  BY <1>3, <1>5, <1>6, BecomesTyped, IdsAreBounded

LEMMA OwnedIsAnId ==
  ASSUME TypeInv, NEW s, NEW u, Owned(s, u)
  PROVE  s \in 1..lastSub /\ s \in DOMAIN subs /\ subs[s] \in Subscription
BY DEF Owned, TypeInv, Typed

LEMMA AskFieldTyped ==
  ASSUME TypeInv, NEW t \in Updates, AskField(t)
  PROVE  TypeInv'
<1>1. /\ update[t].pc = "handle" /\ update[t].owner # None
      /\ update[t] \in Session /\ update[t].task = "nothing"
  BY AtHandler DEF AskField, At, Users, None
<1> DEFINE s == update[t].arg
           r == [update[t] EXCEPT !.pc = "found", !.target = s]
<1>2. CASE Owned(s, update[t].owner)
  <2>1. Becomes(t, r)
    BY <1>2 DEF AskField
  <2>2. r = [update[t] EXCEPT !.pc = "found", !.target = s,
                    !.seen = update[t].seen, !.value = update[t].value]
    BY <1>1 DEF Session
  <2>3. update[t].seen \in {"active", "cancelled"} /\ update[t].value \in 0..MaxSubs
    BY <1>1 DEF Session
  <2>4. s \in 1..lastSub
    BY <1>2, OwnedIsAnId
  <2> HIDE DEF r, s
  <2>5. SessionsTyped
    BY <1>1, <2>1, <2>2, <2>3, <2>4, FindTyped DEF AskField, database, prompted
  <2> QED
    BY <2>5, ClearOrKeep DEF AskField, database, fsm, prompted
<1>3. CASE ~Owned(s, update[t].owner)
  <2>1. SessionsTyped
    BY <1>1, <1>3, ReplyTyped, IdsAreBounded DEF AskField, database, prompted
  <2> QED
    BY <2>1, ClearOrKeep DEF AskField, database, fsm, prompted
<1> QED
  BY <1>2, <1>3

LEMMA OpenFieldTyped ==
  ASSUME TypeInv, NEW t \in Updates, OpenField(t)
  PROVE  TypeInv'
<1>1. /\ update[t] \in Session /\ update[t].owner # None
      /\ update[t].task = "nothing" /\ update[t].target \in 0..MaxSubs
      /\ update[t].to \in States \ AddSubscriptionStates
  BY StatesAndData DEF OpenField, WellFormed, Session
<1>2. [data EXCEPT !.subscription_id = update[t].target] \in DialogData
  BY <1>1, StatesAndData DEF DialogData
<1>3. SessionsTyped
  BY <1>1, ReplyTyped, IdsAreBounded DEF OpenField, Prompts, database
<1> QED
  BY <1>1, <1>2, <1>3, TypedFrom, StatesAndData DEF OpenField, Prompts, database
LEMMA AskEditTyped ==
  ASSUME TypeInv, NEW t \in Updates, AskEdit(t)
  PROVE  TypeInv'
<1> DEFINE s == data.subscription_id
           amount == update[t].handler = "edit_currency"
           v == IF amount THEN data.pending_amount ELSE update[t].meant
<1>1. /\ update[t].pc = "handle" /\ update[t].handler \in EditSubscriptionStates
      /\ UNCHANGED <<user, subs, lastSub, dialogs, asked, hits, late>>
  BY DEF AskEdit, Applying, database, prompted
<1>2. /\ update[t].owner # None /\ update[t].meant \in 0..MaxSubs
      /\ update[t].task = "nothing"
  BY <1>1, AtHandler DEF WellFormed, Users, None
<1>3. v \in 0..MaxSubs
  BY <1>2, StatesAndData DEF DialogData
<1>4. UNCHANGED <<dialogs, lastSub>>
  BY <1>1
<1>5. CASE Raise(t)
  <2>1. SessionsTyped
    BY <1>4, <1>5, BecomesIdle DEF Raise
  <2> QED
    BY <1>1, <1>5, <2>1, ClearOrKeep DEF Raise, fsm
<1>6. CASE /\ Owned(s, update[t].owner) /\ UNCHANGED fsm
           /\ Becomes(t, [update[t] EXCEPT
                !.pc = "found", !.target = s, !.seen = subs[s].status, !.value = v])
  <2>1. s \in 1..lastSub /\ subs[s].status \in {"active", "cancelled"}
    BY <1>6, OwnedIsAnId DEF Subscription
  <2> HIDE DEF s, v
  <2>2. SessionsTyped
    BY <1>1, <1>3, <1>4, <1>6, <2>1, FindTyped
  <2> QED
    BY <1>1, <1>6, <2>2, ClearOrKeep DEF fsm
<1>7. CASE Reply(t) /\ state' = "none" /\ data' = NoData
  <2>1. SessionsTyped
    BY <1>2, <1>4, <1>7, ReplyTyped, IdsAreBounded
  <2> QED
    BY <1>1, <1>7, <2>1, ClearOrKeep
<1> QED
  BY <1>5, <1>6, <1>7 DEF AskEdit

(* The last step of a handler, with what it will commit.                    *)
LEMMA TaskTyped ==
  ASSUME TypeInv, NEW t \in Updates, update[t].owner # None,
         NEW task \in Tasks \ {"create"}, NEW s \in 0..MaxSubs,
         NEW status \in {"active", "cancelled"},
         Ends(t, [update[t] EXCEPT !.task = task, !.target = s, !.seen = status]),
         UNCHANGED <<dialogs, lastSub>>
  PROVE  SessionsTyped
<1> DEFINE r == [update[t] EXCEPT !.task = task, !.target = s, !.seen = status]
<1>1. update[t] \in Session
  BY StatesAndData
<1>2. r \in Session /\ r.owner # None /\ r.task # "create"
  BY <1>1 DEF Session
<1>3. Ends(t, r)
  OBVIOUS
<1> HIDE DEF r
<1> QED
  BY <1>2, <1>3, EndsTyped, IdsAreBounded

LEMMA SameTargetTyped ==
  ASSUME TypeInv, NEW t \in Updates, update[t].owner # None,
         NEW task \in Tasks \ {"create"},
         Ends(t, [update[t] EXCEPT !.task = task]), UNCHANGED <<dialogs, lastSub>>
  PROVE  SessionsTyped
<1> DEFINE r == [update[t] EXCEPT !.task = task]
<1>1. update[t] \in Session
  BY StatesAndData
<1>2. r \in Session /\ r.owner # None /\ r.task # "create"
  BY <1>1 DEF Session
<1>3. Ends(t, r)
  OBVIOUS
<1> HIDE DEF r
<1> QED
  BY <1>2, <1>3, EndsTyped, IdsAreBounded

LEMMA EndTyped ==
  ASSUME TypeInv, NEW t \in Updates,
         update[t].pc \in {"handle", "found", "inserted"},
         \/ ApplyEdit(t) \/ Created(t) \/ AskCancel(t) \/ AskWipe(t)
         \/ FinishOnboarding(t) \/ Show(t)
  PROVE  TypeInv'
<1>1. /\ update[t].owner # None
      /\ {"edit", "cancel", "wipe"} \subseteq Tasks
      /\ update[t].pc = "handle" => update[t].task = "nothing"
      /\ update[t].task = "create" => update[t].target \in 1..lastSub
  BY StatesAndData DEF WellFormed, Tasks
<1>2. /\ UNCHANGED <<user, subs, lastSub, dialogs, asked, hits, late>>
      /\ \/ UNCHANGED <<state, data>>
         \/ state' = "none" /\ data' = NoData
  BY DEF ApplyEdit, Created, AskCancel, AskWipe, FinishOnboarding, Show, Raise,
         database, fsm, prompted
<1>3. UNCHANGED <<dialogs, lastSub>>
  BY <1>2
<1> SUFFICES SessionsTyped
  BY <1>2, ClearOrKeep
<1>a. CASE ApplyEdit(t)
  <2>1. Ends(t, [update[t] EXCEPT !.task = "edit"])
    BY <1>a DEF ApplyEdit
  <2> QED
    BY <1>1, <1>3, <2>1, SameTargetTyped
<1>b. CASE Created(t)
  <2>1. Ends(t, update[t]) /\ update[t] \in Session
    BY <1>b, StatesAndData DEF Created
  <2> QED
    BY <1>1, <1>3, <2>1, EndsTyped, IdsAreBounded
<1>c. CASE AskCancel(t)
  <2>1. CASE Owned(update[t].arg, update[t].owner)
    <3>1. /\ update[t].arg \in 0..MaxSubs
          /\ subs[update[t].arg].status \in {"active", "cancelled"}
      BY <2>1, OwnedIsAnId, IdsAreBounded DEF Subscription
    <3>2. Ends(t, [update[t] EXCEPT !.task = "cancel", !.target = update[t].arg,
                                    !.seen = subs[update[t].arg].status])
      BY <1>c, <2>1 DEF AskCancel
    <3> QED
      BY <1>1, <1>3, <3>1, <3>2, TaskTyped
  <2>2. CASE ~Owned(update[t].arg, update[t].owner)
    BY <1>1, <1>3, <1>c, <2>2, ReplyTyped, IdsAreBounded DEF AskCancel, At
  <2> QED
    BY <2>1, <2>2
<1>d. CASE AskWipe(t)
  <2>1. Ends(t, [update[t] EXCEPT !.task = "wipe"])
    BY <1>d DEF AskWipe
  <2> QED
    BY <1>1, <1>3, <2>1, SameTargetTyped
<1>e. CASE FinishOnboarding(t)
  BY <1>1, <1>3, <1>e, ReplyTyped, BecomesIdle, IdsAreBounded
     DEF FinishOnboarding, At, Raise
<1>f. CASE Show(t)
  BY <1>1, <1>3, <1>f, ReplyTyped, IdsAreBounded DEF Show, At
<1> QED
  BY <1>a, <1>b, <1>c, <1>d, <1>e, <1>f

LEMMA AskCreateTyped ==
  ASSUME TypeInv, NEW t \in Updates, AskCreate(t)
  PROVE  TypeInv'
<1>1. /\ update[t].pc = "handle" /\ update[t].handler = "add_date"
      /\ UNCHANGED <<user, subs, prompted, hits, late>>
  BY DEF AskCreate, At
<1>2. CASE Raise(t) /\ UNCHANGED lastSub
  <2>1. SessionsTyped
    BY <1>1, <1>2, BecomesIdle DEF Raise, prompted
  <2> QED
    BY <1>1, <1>2, <2>1, TypedFrom, StatesAndData DEF Raise, prompted, fsm
<1> DEFINE from == {data[k] : k \in AddKeys} \cup {update[t].meant}
           r == [update[t] EXCEPT !.pc = "inserted", !.target = lastSub + 1,
                                  !.task = "create", !.from = from]
<1>3. CASE /\ \A k \in AddKeys : data[k] # None
           /\ lastSub' = lastSub + 1 /\ Becomes(t, r) /\ UNCHANGED fsm
  <2>1. /\ update[t] \in Session /\ update[t].owner # None
        /\ update[t].meant \in 1..dialogs
    BY <1>1, AtHandler DEF WellFormed, Users, None, AddSubscriptionStates
  <2>2. from \subseteq 1..MaxDialogs
    <3>1. \A k \in AddKeys : data[k] \in 1..MaxDialogs
      BY <1>3, StatesAndData DEF AddKeys, DialogData, None
    <3>2. update[t].meant \in 1..MaxDialogs
      BY <2>1, StatesAndData, IdsAreBounded
    <3> SUFFICES ASSUME NEW x \in from PROVE x \in 1..MaxDialogs
      OBVIOUS
    <3>3. x = update[t].meant \/ \E k \in AddKeys : x = data[k]
      OBVIOUS
    <3> QED
      BY <3>1, <3>2, <3>3
  <2> HIDE DEF from
  <2>3. Waits(update[t]) /\ t \in Waiting
    BY <1>1 DEF Waits, Waiting, Undecided
  <2>4. /\ Cardinality(Waiting \ {t}) = Cardinality(Waiting) - 1
        /\ IsFiniteSet(Waiting \ {t}) /\ Cardinality(Waiting \ {t}) \in Nat
    BY <2>3, WaitingIsFinite, FS_RemoveElement, FS_CardinalityType
  <2>5. lastSub + Cardinality(Waiting) <= MaxSubs /\ lastSub \in Nat /\ MaxSubs \in Nat
    BY IdsAreBounded DEF TypeInv, Room
  <2>6. lastSub + 1 \in 0..MaxSubs
    BY <2>4, <2>5, WaitingIsFinite
  <2>7. r \in Session
    <3>1. "create" \in Tasks /\ "inserted" \in PCs
      BY DEF Tasks, PCs
    <3>2. from \in SUBSET (1..MaxDialogs)
      BY <2>2
    <3> QED
      BY <2>1, <2>6, <3>1, <3>2 DEF Session
  <2>8. /\ r.pc = "inserted" /\ r.task = "create" /\ r.handler = update[t].handler
        /\ r.meant = update[t].meant /\ r.owner = update[t].owner
        /\ r.target = lastSub'
    BY <1>3, <2>1 DEF Session
  <2> HIDE DEF r
  <2>9. WellFormed(r, dialogs', lastSub') /\ ~Waits(r) /\ dialogs' = dialogs
    BY <1>1, <1>3, <2>1, <2>5, <2>8 DEF WellFormed, Waits, Undecided, prompted,
       EditSubscriptionStates, AddSubscriptionStates
  <2>10. update'[t] = r /\ \A q \in Updates \ {t} : update'[q] = update[q]
    BY <1>3 DEF Becomes, TypeInv, Typed
  <2>11. Waiting' \in SUBSET (Waiting \ {t})
    BY <2>9, <2>10 DEF Waiting
  <2>12. Cardinality(Waiting') \in Nat
         /\ Cardinality(Waiting') <= Cardinality(Waiting \ {t})
    BY <2>4, <2>11, FS_Subset, FS_CardinalityType
  <2>13. Room'
    BY <1>3, <2>4, <2>5, <2>12, WaitingIsFinite DEF Room
  <2>14. update' \in [Updates -> Session]
    BY <1>3, <2>7 DEF Becomes, TypeInv, Typed
  <2>15. \A q \in Updates : WellFormed(update'[q], dialogs', lastSub')
    <3> SUFFICES ASSUME NEW q \in Updates, q # t
                 PROVE  WellFormed(update'[q], dialogs', lastSub')
      BY <2>9, <2>10
    <3>1. WellFormed(update[q], dialogs, lastSub)
      BY StatesAndData
    <3> QED
      BY <1>3, <2>5, <2>9, <2>10, <3>1, WellFormedGrows, IdsAreBounded
  <2>16. SessionsTyped
    BY <2>13, <2>14, <2>15 DEF SessionsTyped
  <2> QED
    BY <1>1, <1>3, <2>5, <2>16, TypedFrom, StatesAndData DEF prompted, fsm
<1> QED
  BY <1>2, <1>3 DEF AskCreate
LEMMA FailTyped ==
  ASSUME TypeInv, NEW t \in Updates, Fail(t)
  PROVE  TypeInv'
<1>1. Becomes(t, Idle)
      /\ UNCHANGED <<user, subs, lastSub, dialogs, asked, hits, late, state, data>>
  BY DEF Fail, Raise, database, prompted, fsm
<1> QED
  BY <1>1, BecomesIdle, ClearOrKeep

LEMMA RestartTyped ==
  ASSUME TypeInv, Restart
  PROVE  TypeInv'
<1>1. /\ update' = [t \in Updates |-> Idle] /\ state' = "none" /\ data' = NoData
      /\ UNCHANGED <<user, subs, lastSub, dialogs, asked, hits, late>>
  BY DEF Restart, database, prompted
<1>2. Waiting' = {}
  BY <1>1, IdleIsASession DEF Waiting
<1>3. Room'
  BY <1>1, <1>2, IdsAreBounded, FS_EmptySet DEF Room
<1>4. update' \in [Updates -> Session]
  BY <1>1, IdleIsASession
<1>5. \A q \in Updates : WellFormed(update'[q], dialogs', lastSub')
  BY <1>1, IdleIsWellFormed
<1>6. SessionsTyped
  BY <1>3, <1>4, <1>5 DEF SessionsTyped
<1> QED
  BY <1>1, <1>6, ClearOrKeep

LEMMA StutterTyped ==
  ASSUME TypeInv, UNCHANGED vars
  PROVE  TypeInv'
<1>1. /\ UNCHANGED <<user, subs, lastSub, dialogs, asked, hits, late, state, data>>
      /\ update' = update
  BY DEF vars, database, prompted, fsm
<1>2. Waiting' = Waiting
  BY <1>1 DEF Waiting
<1>3. SessionsTyped
  BY <1>1, <1>2 DEF SessionsTyped, TypeInv, Typed, Room
<1> QED
  BY <1>1, <1>3, ClearOrKeep

(* What a commit writes: nothing of the rows, a status, or a new row.       *)
CancelsRow(t) ==
  /\ update[t].task = "cancel" /\ update[t].target \in DOMAIN subs
  /\ subs' = [subs EXCEPT ![update[t].target].status = "cancelled"]
AddsRow(t) ==
  /\ update[t].task = "create" /\ UserAfter(t) = update[t].owner
  /\ subs' = Put(subs, update[t].target,
                 [owner |-> update[t].owner, status |-> "active",
                  from |-> update[t].from])

LEMMA CommitWrites ==
  ASSUME NEW t \in Updates, Commit(t)
  PROVE  /\ update[t].pc = "reply" /\ Becomes(t, Idle)
         /\ UNCHANGED <<lastSub, state, data, dialogs, asked, late>>
         /\ \/ user' = None /\ subs' = [s \in {} |-> 0]
            \/ /\ user' = UserAfter(t)
               /\ subs' = subs \/ CancelsRow(t) \/ AddsRow(t)
         /\ \/ hits' = hits
            \/ /\ update[t].task = "edit" /\ update[t].target \in DOMAIN subs
               /\ hits' = hits \cup {<<update[t].value, update[t].target>>}
<1>1. Flush(t) = subs
      \/ /\ update[t].task = "cancel" /\ update[t].target \in DOMAIN subs
         /\ Flush(t) = [subs EXCEPT ![update[t].target].status = "cancelled"]
      \/ /\ update[t].task = "create" /\ UserAfter(t) = update[t].owner
         /\ Flush(t) = Put(subs, update[t].target,
                          [owner |-> update[t].owner, status |-> "active",
                           from |-> update[t].from])
  BY DEF Flush
<1> QED
  BY <1>1 DEF Commit, CancelsRow, AddsRow, fsm, prompted

LEMMA CommitTyped ==
  ASSUME TypeInv, NEW t \in Updates, Commit(t)
  PROVE  TypeInv'
<1>1. /\ update[t] \in Session /\ update[t].owner \in Users
      /\ subs \in [DOMAIN subs -> Subscription] /\ DOMAIN subs \subseteq 1..lastSub
      /\ user \in Users \cup {None} /\ hits \subseteq (0..MaxSubs) \X SubIds
  BY StatesAndData, CommitWrites DEF WellFormed, Session, TypeInv, Typed
<1>2. UNCHANGED <<lastSub, state, data, dialogs, asked, late>>
  BY CommitWrites
<1>3. user' \in Users \cup {None}
  BY <1>1, CommitWrites DEF UserAfter
<1>4. SessionsTyped
  BY <1>2, CommitWrites, BecomesIdle
<1>5. hits' \subseteq (0..MaxSubs) \X SubIds
  <2>1. update[t].value \in 0..MaxSubs
    BY <1>1 DEF Session
  <2> QED
    BY <1>1, <2>1, CommitWrites, IdsAreBounded
<1>6. subs' \in [DOMAIN subs' -> Subscription] /\ DOMAIN subs' \subseteq 1..lastSub'
  <2>1. CASE subs' = [s \in {} |-> 0]
    BY <2>1
  <2>2. CASE subs' = subs
    BY <1>1, <1>2, <2>2
  <2>3. CASE CancelsRow(t)
    BY <1>1, <1>2, <2>3 DEF CancelsRow, Subscription
  <2>4. CASE AddsRow(t)
    <3> DEFINE row == [owner |-> update[t].owner, status |-> "active",
                       from |-> update[t].from]
    <3>1. row \in Subscription /\ update[t].target \in 1..lastSub
      BY <1>1, <2>4, StatesAndData DEF AddsRow, Subscription, Session, WellFormed
    <3>2. subs' = Put(subs, update[t].target, row)
      BY <2>4 DEF AddsRow
    <3> HIDE DEF row
    <3> QED
      BY <1>1, <1>2, <3>1, <3>2 DEF Put
  <2> QED
    BY <2>1, <2>2, <2>3, <2>4, CommitWrites
<1>7. Typed'
  BY <1>2, <1>3, <1>4, <1>5, <1>6, StatesAndData, IdsAreBounded DEF Typed, SessionsTyped
<1> QED
  BY <1>2, <1>4, <1>7, StatesAndData DEF TypeInv, SessionsTyped
LEMMA TypeInvNext == TypeInv /\ [Next]_vars => TypeInv'
<1> SUFFICES ASSUME TypeInv, [Next]_vars PROVE TypeInv'
  OBVIOUS
<1>1. CASE UNCHANGED vars
  BY <1>1, StutterTyped
<1>2. CASE Restart
  BY <1>2, RestartTyped
<1>3. ASSUME NEW t \in Updates,
             Arrive(t) \/ LoadUser(t) \/ CreateUser(t) \/ Commit(t) \/ Fail(t)
      PROVE  TypeInv'
  BY <1>3, ArriveTyped, LoadUserTyped, CreateUserTyped, CommitTyped, FailTyped
<1>4. ASSUME NEW t \in Updates, Handle(t)
      PROVE  TypeInv'
  <2>1. CASE \/ AddName(t) \/ AddAmount(t) \/ AddCurrency(t) \/ AddPeriod(t)
             \/ EditAmount(t) \/ CmdStart(t) \/ OnTimezoneChosen(t)
    <3>1. update[t].pc = "handle"
      BY <2>1 DEF AddName, AddAmount, AddCurrency, AddPeriod, EditAmount, CmdStart,
         OnTimezoneChosen, At
    <3> QED
      BY <2>1, <3>1, GatherTyped
  <2>2. CASE \/ ApplyEdit(t) \/ Created(t) \/ AskCancel(t) \/ AskWipe(t)
             \/ FinishOnboarding(t) \/ Show(t)
    <3>1. update[t].pc \in {"handle", "found", "inserted"}
      BY <2>2 DEF ApplyEdit, Created, AskCancel, AskWipe, FinishOnboarding, Show, At
    <3> QED
      BY <2>2, <3>1, EndTyped
  <2>3. CASE \/ StartAdd(t) \/ AskField(t) \/ OpenField(t) \/ AskEdit(t) \/ AskCreate(t)
    BY <2>3, StartAddTyped, AskFieldTyped, OpenFieldTyped, AskEditTyped, AskCreateTyped
  <2> QED
    BY <1>4, <2>1, <2>2, <2>3 DEF Handle
<1> QED
  BY <1>1, <1>2, <1>3, <1>4 DEF Next

(* The strengthened types hold throughout.                                  *)
THEOREM DialogTypesHold == Spec => []TypeInv
<1>1. Init => TypeInv
  BY TypeInvInit
<1>2. TypeInv /\ [Next]_vars => TypeInv'
  BY TypeInvNext
<1> QED
  BY <1>1, <1>2, PTL DEF Spec

LEMMA TypeInvImpliesTypeOK == TypeInv => TypeOK
<1> SUFFICES ASSUME TypeInv PROVE TypeOK
  OBVIOUS
<1>1. /\ user \in Users \cup {None} /\ DOMAIN subs \subseteq 1..lastSub
      /\ lastSub \in 0..MaxSubs
      /\ subs \in [DOMAIN subs -> Subscription]
      /\ dialogs \in 0..MaxDialogs /\ asked \in 0..MaxSubs
      /\ hits \subseteq (0..MaxSubs) \X SubIds /\ late \in 0..MaxLate
      /\ state \in States
  BY IdsAreBounded DEF TypeInv, Typed
<1>2. /\ DOMAIN data = DOMAIN NoData
      /\ data.subscription_id \in 0..MaxSubs /\ data.pending_amount \in 0..MaxSubs
      /\ \A k \in AddKeys : data[k] \in 0..MaxDialogs
  BY StatesAndData DEF DialogData, NoData, AddKeys
<1>3. \A t \in Updates :
        /\ DOMAIN update[t] = DOMAIN Idle /\ update[t].handler \in Handlers
        /\ update[t].pc = "handle" => update[t].owner # None
        /\ update[t].owner \in Users \cup {None} /\ update[t].target \in 0..MaxSubs
        /\ update[t].task \in Tasks
  BY StatesAndData, IdleIsASession DEF Session, WellFormed
<1>4. \A s \in DOMAIN subs :
        subs[s] \in [owner : Users, status : {"active", "cancelled"},
                    from : SUBSET (1..MaxDialogs)]
  BY <1>1 DEF Subscription
<1> QED
  BY <1>1, <1>2, <1>3, <1>4 DEF TypeOK

(* The dialogs keep their types: whatever updates overlap, no more ids are  *)
(* given than there are subscriptions, a handler has a user (the middleware *)
(* gives it one), and every value is one that was meant for a subscription  *)
(* or belongs to a dialog that was begun.                                   *)
THEOREM DialogsAreTyped == Spec => []TypeOK
BY DialogTypesHold, TypeInvImpliesTypeOK, PTL

-----------------------------------------------------------------------------
(***************************************************************************)
(* The rows.  Before a commit nothing of them changes; a session may insert *)
(* the user or a subscription.                                              *)
(***************************************************************************)
Others(t) == \A q \in Updates \ {t} : update'[q] = update[q]

(* The steps that insert nothing and commit nothing.                        *)
Quiet(t) ==
  /\ UNCHANGED <<user, subs, lastSub, hits>> /\ Others(t)
  /\ update'[t].fresh => update[t].fresh
  /\ update'[t].task = "create" =>
       /\ update[t].task = "create" /\ update'[t].target = update[t].target
       /\ update'[t].from = update[t].from

LEMMA BecomesIs ==
  ASSUME TypeInv, NEW t \in Updates, NEW r, Becomes(t, r)
  PROVE  update'[t] = r /\ Others(t)
BY DEF Becomes, Others, TypeInv, Typed

LEMMA EndsIs ==
  ASSUME TypeInv, NEW t \in Updates, NEW r, Ends(t, r)
  PROVE  /\ update'[t].pc = "reply" /\ update'[t].handler = "view"
         /\ update'[t].owner = r.owner /\ update'[t].fresh = r.fresh
         /\ update'[t].target = r.target /\ update'[t].value = r.value
         /\ update'[t].from = r.from /\ update'[t].task = r.task
         /\ Others(t)
<1> DEFINE e == [Idle EXCEPT
      !.pc = "reply", !.owner = r.owner, !.fresh = r.fresh, !.target = r.target,
      !.seen = r.seen, !.value = r.value, !.from = r.from, !.task = r.task]
<1>1. update'[t] = e /\ Others(t)
  BY BecomesIs DEF Ends
<1> QED
  BY <1>1 DEF Idle

LEMMA ReplyIs ==
  ASSUME TypeInv, NEW t \in Updates, Reply(t)
  PROVE  /\ update'[t].pc = "reply" /\ update'[t].handler = "view"
         /\ update'[t].owner = update[t].owner /\ update'[t].fresh = update[t].fresh
         /\ update'[t].task = update[t].task
         /\ Others(t)
<1> DEFINE r == [update[t] EXCEPT !.target = None, !.seen = "active"]
<1>1. Ends(t, r)
  BY DEF Reply
<1>2. r.owner = update[t].owner /\ r.fresh = update[t].fresh /\ r.task = update[t].task
  BY StatesAndData DEF Session
<1> HIDE DEF r
<1> QED
  BY <1>1, <1>2, EndsIs

LEMMA ReplyIsQuiet ==
  ASSUME TypeInv, NEW t \in Updates, Reply(t), update[t].task = "nothing",
         UNCHANGED <<user, subs, lastSub, hits>>
  PROVE  Quiet(t)
BY ReplyIs DEF Quiet

LEMMA IdleIsQuiet ==
  ASSUME TypeInv, NEW t \in Updates, Becomes(t, Idle),
         UNCHANGED <<user, subs, lastSub, hits>>
  PROVE  Quiet(t)
BY BecomesIs, IdleIsASession DEF Quiet

LEMMA QuietArrive ==
  ASSUME TypeInv, NEW t \in Updates, Arrive(t) \/ LoadUser(t)
  PROVE  Quiet(t)
<1>1. UNCHANGED <<user, subs, lastSub, hits>>
  BY DEF Arrive, LoadUser, database
<1>2. CASE Arrive(t)
  <2>1. PICK h, a, to, m :
          Becomes(t, [Idle EXCEPT !.pc = "user", !.handler = h, !.arg = a,
                                  !.to = to, !.meant = m])
    BY <1>2 DEF Arrive
  <2> DEFINE r == [Idle EXCEPT !.pc = "user", !.handler = h, !.arg = a,
                               !.to = to, !.meant = m]
  <2>3. r.task = "nothing" /\ ~r.fresh /\ Becomes(t, r)
    BY <2>1 DEF Idle
  <2> HIDE DEF r
  <2>2. update'[t].task = "nothing" /\ ~update'[t].fresh /\ Others(t)
    BY <2>3, BecomesIs
  <2> QED
    BY <1>1, <2>2 DEF Quiet
<1>3. CASE LoadUser(t)
  <2>1. PICK pc, u : Becomes(t, [update[t] EXCEPT !.pc = pc, !.owner = u])
    <3>1. [update[t] EXCEPT !.pc = "create"] =
             [update[t] EXCEPT !.pc = "create", !.owner = update[t].owner]
      BY StatesAndData DEF Session
    <3> QED
      BY <1>3, <3>1 DEF LoadUser
  <2>2. /\ update'[t].task = update[t].task /\ update'[t].fresh = update[t].fresh
        /\ update'[t].target = update[t].target /\ update'[t].from = update[t].from
        /\ Others(t)
    <3> DEFINE r == [update[t] EXCEPT !.pc = pc, !.owner = u]
    <3>1. /\ r.task = update[t].task /\ r.fresh = update[t].fresh
          /\ r.target = update[t].target /\ r.from = update[t].from
          /\ Becomes(t, r)
      BY <2>1, StatesAndData DEF Session
    <3> HIDE DEF r
    <3> QED
      BY <3>1, BecomesIs
  <2> QED
    BY <1>1, <2>2 DEF Quiet
<1> QED
  BY <1>2, <1>3
LEMMA QuietMoves ==
  ASSUME TypeInv, NEW t \in Updates,
         \/ StartAdd(t) \/ AddName(t) \/ AddAmount(t) \/ AddCurrency(t) \/ AddPeriod(t)
         \/ EditAmount(t) \/ CmdStart(t) \/ OnTimezoneChosen(t) \/ Show(t)
  PROVE  Quiet(t)
<1>1. /\ Reply(t) /\ update[t].pc = "handle"
      /\ UNCHANGED <<user, subs, lastSub, hits>>
  BY DEF StartAdd, AddName, AddAmount, AddCurrency, AddPeriod, EditAmount, CmdStart,
     OnTimezoneChosen, Show, MovesOn, At, database
<1> QED
  BY <1>1, AtHandler, ReplyIsQuiet

(* A handler that found a row holds it, and is no nearer to a commit.       *)
LEMMA FoundIs ==
  ASSUME TypeInv, NEW t \in Updates, NEW s, NEW status, NEW v,
         Becomes(t, [update[t] EXCEPT !.pc = "found", !.target = s,
                                      !.seen = status, !.value = v])
  PROVE  /\ update'[t].pc = "found" /\ update'[t].target = s
         /\ update'[t].value = v
         /\ update'[t].handler = update[t].handler /\ update'[t].to = update[t].to
         /\ update'[t].meant = update[t].meant /\ update'[t].task = update[t].task
         /\ update'[t].fresh = update[t].fresh /\ update'[t].from = update[t].from
         /\ Others(t)
<1> DEFINE r == [update[t] EXCEPT !.pc = "found", !.target = s,
                                  !.seen = status, !.value = v]
<1>1. /\ r.pc = "found" /\ r.target = s /\ r.value = v
      /\ r.handler = update[t].handler /\ r.to = update[t].to
      /\ r.meant = update[t].meant /\ r.task = update[t].task
      /\ r.fresh = update[t].fresh /\ r.from = update[t].from
  BY StatesAndData DEF Session
<1>2. Becomes(t, r)
  OBVIOUS
<1> HIDE DEF r
<1> QED
  BY <1>1, <1>2, BecomesIs

LEMMA AskFieldFinds ==
  ASSUME TypeInv, NEW t \in Updates, AskField(t)
  PROVE  /\ At(t, "field") /\ UNCHANGED <<database, fsm, prompted, hits, late>>
         /\ \/ Reply(t)
            \/ /\ Owned(update[t].arg, update[t].owner)
               /\ Becomes(t, [update[t] EXCEPT
                    !.pc = "found", !.target = update[t].arg,
                    !.seen = update[t].seen, !.value = update[t].value])
<1>1. [update[t] EXCEPT !.pc = "found", !.target = update[t].arg] =
        [update[t] EXCEPT !.pc = "found", !.target = update[t].arg,
                          !.seen = update[t].seen, !.value = update[t].value]
  BY StatesAndData DEF Session
<1> QED
  BY <1>1 DEF AskField

LEMMA QuietSearches ==
  ASSUME TypeInv, NEW t \in Updates,
         AskField(t) \/ AskEdit(t) \/ OpenField(t) \/ FinishOnboarding(t)
  PROVE  Quiet(t)
<1>1. /\ update[t].pc \in {"handle", "found"}
      /\ UNCHANGED <<user, subs, lastSub, hits>>
  BY DEF AskField, AskEdit, OpenField, FinishOnboarding, Prompts, At, database
<1>2. update[t].task = "nothing"
  BY <1>1, StatesAndData DEF WellFormed
<1>3. ASSUME NEW s, NEW status, NEW v,
             Becomes(t, [update[t] EXCEPT !.pc = "found", !.target = s,
                                          !.seen = status, !.value = v])
      PROVE  Quiet(t)
  BY <1>1, <1>2, <1>3, FoundIs DEF Quiet
<1>4. \/ Reply(t) \/ Becomes(t, Idle)
      \/ \E s, status, v :
           Becomes(t, [update[t] EXCEPT !.pc = "found", !.target = s,
                                        !.seen = status, !.value = v])
  BY AskFieldFinds DEF AskEdit, OpenField, Prompts, FinishOnboarding, Raise
<1> QED
  BY <1>1, <1>2, <1>3, <1>4, ReplyIsQuiet, IdleIsQuiet

LEMMA QuietEnds ==
  ASSUME TypeInv, NEW t \in Updates,
         ApplyEdit(t) \/ Created(t) \/ AskCancel(t) \/ AskWipe(t) \/ Fail(t)
  PROVE  Quiet(t)
<1>1. UNCHANGED <<user, subs, lastSub, hits>>
  BY DEF ApplyEdit, Created, AskCancel, AskWipe, Fail, database
<1>2. ASSUME NEW r, Ends(t, r), r.fresh = update[t].fresh, r.task # "create"
      PROVE  Quiet(t)
  BY <1>1, <1>2, EndsIs DEF Quiet
<1>3. CASE ApplyEdit(t)
  <2> DEFINE r == [update[t] EXCEPT !.task = "edit"]
  <2>1. Ends(t, r) /\ r.fresh = update[t].fresh /\ r.task # "create"
    BY <1>3, StatesAndData DEF ApplyEdit, Session
  <2> HIDE DEF r
  <2> QED
    BY <1>2, <2>1
<1>4. CASE Created(t)
  BY <1>1, <1>4, EndsIs DEF Created, Quiet
<1>5. CASE AskCancel(t)
  <2> DEFINE r == [update[t] EXCEPT !.task = "cancel", !.target = update[t].arg,
                                    !.seen = subs[update[t].arg].status]
  <2>1. CASE Ends(t, r)
    <3>1. r.fresh = update[t].fresh /\ r.task # "create"
      BY StatesAndData DEF Session
    <3> HIDE DEF r
    <3> QED
      BY <1>2, <2>1, <3>1
  <2>2. CASE Reply(t)
    BY <1>1, <1>5, <2>2, AtHandler, ReplyIsQuiet DEF AskCancel, At
  <2> QED
    BY <1>5, <2>1, <2>2 DEF AskCancel
<1>6. CASE AskWipe(t)
  <2> DEFINE r == [update[t] EXCEPT !.task = "wipe"]
  <2>1. Ends(t, r) /\ r.fresh = update[t].fresh /\ r.task # "create"
    BY <1>6, StatesAndData DEF AskWipe, Session
  <2> HIDE DEF r
  <2> QED
    BY <1>2, <2>1
<1>7. CASE Fail(t)
  BY <1>1, <1>7, IdleIsQuiet DEF Fail, Raise
<1> QED
  BY <1>3, <1>4, <1>5, <1>6, <1>7

(* The other steps of an update: it inserts the user, or a subscription.    *)
Inserts(t) ==
  /\ update'[t].task = "create" /\ update'[t].target = lastSub + 1
  /\ update'[t].fresh = update[t].fresh /\ lastSub' = lastSub + 1
  /\ UNCHANGED <<user, subs, hits>> /\ Others(t)
InsertsUser(t) ==
  /\ user = None /\ \A q \in Updates : ~update[q].fresh
  /\ update'[t].task = "nothing"
  /\ UNCHANGED <<user, subs, lastSub, hits>> /\ Others(t)

LEMMA InsertingSteps ==
  ASSUME TypeInv, NEW t \in Updates
  PROVE  /\ AskCreate(t) => Quiet(t) \/ Inserts(t)
         /\ CreateUser(t) => Quiet(t) \/ InsertsUser(t)
<1>1. ASSUME AskCreate(t) PROVE Quiet(t) \/ Inserts(t)
  <2> DEFINE r == [update[t] EXCEPT
             !.pc = "inserted", !.target = lastSub + 1, !.task = "create",
             !.from = {data[k] : k \in AddKeys} \cup {update[t].meant}]
  <2>1. UNCHANGED <<user, subs, hits>>
    BY <1>1 DEF AskCreate
  <2>2. CASE Becomes(t, Idle) /\ UNCHANGED lastSub
    BY <2>1, <2>2, IdleIsQuiet
  <2>3. CASE Becomes(t, r) /\ lastSub' = lastSub + 1
    <3>1. r.task = "create" /\ r.target = lastSub + 1 /\ r.fresh = update[t].fresh
      BY StatesAndData DEF Session
    <3> HIDE DEF r
    <3> QED
      BY <2>1, <2>3, <3>1, BecomesIs DEF Inserts
  <2> QED
    BY <1>1, <2>2, <2>3 DEF AskCreate, Raise
<1>2. ASSUME CreateUser(t) PROVE Quiet(t) \/ InsertsUser(t)
  <2> DEFINE r == [update[t] EXCEPT !.pc = "handle", !.owner = NewUser, !.fresh = TRUE]
  <2>1. UNCHANGED <<user, subs, lastSub, hits>> /\ \A q \in Updates : ~update[q].fresh
    BY <1>2 DEF CreateUser, database
  <2>2. CASE Becomes(t, Idle)
    BY <2>1, <2>2, IdleIsQuiet
  <2>3. CASE Becomes(t, r) /\ user = None
    <3>1. r.task = "nothing"
      BY <1>2, StatesAndData DEF Session, WellFormed, CreateUser
    <3> HIDE DEF r
    <3> QED
      BY <2>1, <2>3, <3>1, BecomesIs DEF InsertsUser
  <2> QED
    BY <1>2, <2>2, <2>3 DEF CreateUser
<1> QED
  BY <1>1, <1>2

(* Every step of the system, as far as the rows are concerned.              *)
LEMMA RowSteps ==
  ASSUME TypeInv, [Next]_vars
  PROVE  \/ UNCHANGED vars \/ Restart
         \/ \E t \in Updates : Quiet(t) \/ Inserts(t) \/ InsertsUser(t) \/ Commit(t)
<1> SUFFICES ASSUME NEW t \in Updates,
                    \/ Arrive(t) \/ LoadUser(t) \/ CreateUser(t) \/ Handle(t) \/ Fail(t)
             PROVE  Quiet(t) \/ Inserts(t) \/ InsertsUser(t)
  BY DEF Next
<1>1. CASE Arrive(t) \/ LoadUser(t) \/ CreateUser(t) \/ Fail(t)
  BY <1>1, QuietArrive, QuietEnds, InsertingSteps
<1>2. CASE Handle(t)
  BY <1>2, QuietMoves, QuietSearches, QuietEnds, InsertingSteps DEF Handle
<1> QED
  BY <1>1, <1>2
-----------------------------------------------------------------------------
(***************************************************************************)
(* Owners.  A user is inserted only while there is none, and by one session *)
(* at a time: the rows of a wiped user are gone before the next user is     *)
(* committed.                                                               *)
(***************************************************************************)
OwnersInv ==
  /\ OwnersExist
  /\ \A p \in Updates : update[p].fresh => user = None
  /\ \A p, q \in Updates : update[p].fresh /\ update[q].fresh => p = q

LEMMA NoUserNoRows ==
  ASSUME TypeInv, OwnersExist, user = None
  PROVE  DOMAIN subs = {}
<1> SUFFICES ASSUME NEW s \in DOMAIN subs PROVE FALSE
  OBVIOUS
<1>1. subs[s] \in Subscription /\ subs[s].owner = None
  BY DEF TypeInv, Typed, OwnersExist
<1>2. subs[s].owner \in Users
  BY <1>1 DEF Subscription
<1> QED
  BY <1>1, <1>2 DEF Users, None

LEMMA OwnersInvInit == Init => OwnersInv
BY IdleIsASession DEF Init, OwnersInv, OwnersExist

LEMMA QuietOwners ==
  ASSUME TypeInv, OwnersInv, NEW t \in Updates,
         Quiet(t) \/ Inserts(t) \/ InsertsUser(t)
  PROVE  OwnersInv'
<1>1. user' = user /\ subs' = subs /\ Others(t)
  BY DEF Quiet, Inserts, InsertsUser
<1>2. OwnersExist'
  BY <1>1 DEF OwnersInv, OwnersExist
<1>3. CASE Quiet(t) \/ Inserts(t)
  <2>1. \A q \in Updates : update'[q].fresh => update[q].fresh
    BY <1>1, <1>3 DEF Quiet, Inserts, Others
  <2> QED
    BY <1>1, <1>2, <2>1 DEF OwnersInv
<1>4. CASE InsertsUser(t)
  <2>1. \A q \in Updates \ {t} : ~update'[q].fresh
    BY <1>1, <1>4 DEF InsertsUser, Others
  <2> QED
    BY <1>1, <1>2, <1>4, <2>1 DEF OwnersInv, InsertsUser
<1> QED
  BY <1>3, <1>4

LEMMA CommitOwners ==
  ASSUME TypeInv, OwnersInv, NEW t \in Updates, Commit(t)
  PROVE  OwnersInv'
<1>1. /\ ~update'[t].fresh /\ \A q \in Updates \ {t} : update'[q] = update[q]
  BY CommitWrites, BecomesIs, IdleIsASession DEF Others
<1>2. \A p, q \in Updates : update'[p].fresh /\ update'[q].fresh => p = q
  BY <1>1 DEF OwnersInv
<1>4. \A q \in Updates : update'[q].fresh => user' = None
  BY <1>1, CommitWrites DEF OwnersInv, UserAfter
<1>5. CASE user' = None /\ subs' = [s \in {} |-> 0]
  BY <1>2, <1>4, <1>5 DEF OwnersInv, OwnersExist
<1>6. CASE user' = UserAfter(t)
  <2>1. \A s \in DOMAIN subs : subs[s].owner = user'
    <3>1. CASE update[t].fresh
      BY <3>1, NoUserNoRows DEF OwnersInv
    <3>2. CASE ~update[t].fresh
      BY <1>6, <3>2 DEF OwnersInv, OwnersExist, UserAfter
    <3> QED
      BY <3>1, <3>2
  <2>2. CASE subs' = subs
    BY <1>2, <1>4, <2>1, <2>2 DEF OwnersInv, OwnersExist
  <2>3. CASE CancelsRow(t)
    <3>1. DOMAIN subs' = DOMAIN subs
          /\ \A s \in DOMAIN subs : subs'[s].owner = subs[s].owner
      BY <2>3 DEF CancelsRow, TypeInv, Typed, Subscription
    <3> QED
      BY <1>2, <1>4, <2>1, <3>1 DEF OwnersInv, OwnersExist
  <2>4. CASE AddsRow(t)
    <3>1. \A s \in DOMAIN subs' : \/ s = update[t].target /\ subs'[s].owner = user'
                                  \/ s \in DOMAIN subs /\ subs'[s] = subs[s]
      BY <1>6, <2>4 DEF AddsRow, Put
    <3> QED
      BY <1>2, <1>4, <2>1, <3>1 DEF OwnersInv, OwnersExist
  <2>5. CASE subs' = [s \in {} |-> 0]
    BY <1>2, <1>4, <2>5 DEF OwnersInv, OwnersExist
  <2> QED
    BY <2>2, <2>3, <2>4, <2>5, CommitWrites
<1> QED
  BY <1>5, <1>6, CommitWrites

LEMMA OwnersInvNext == TypeInv /\ OwnersInv /\ [Next]_vars => OwnersInv'
<1> SUFFICES ASSUME TypeInv, OwnersInv, [Next]_vars PROVE OwnersInv'
  OBVIOUS
<1>1. CASE UNCHANGED vars
  BY <1>1 DEF vars, database, OwnersInv, OwnersExist
<1>2. CASE Restart
  <2>1. \A q \in Updates : ~update'[q].fresh
    BY <1>2, IdleIsASession DEF Restart
  <2> QED
    BY <1>2, <2>1 DEF Restart, database, OwnersInv, OwnersExist
<1> QED
  BY <1>1, <1>2, RowSteps, QuietOwners, CommitOwners

(* Every subscription belongs to the user there is: a dialog that outlives  *)
(* a wipe, or that meets the user who came after, brings none back.         *)
THEOREM WipeIsFinal == Spec => []OwnersExist
<1>1. Init => OwnersInv
  BY OwnersInvInit
<1>2. TypeInv /\ OwnersInv /\ [Next]_vars => OwnersInv'
  BY OwnersInvNext
<1>3. OwnersInv => OwnersExist
  BY DEF OwnersInv
<1> QED
  BY <1>1, <1>2, <1>3, DialogTypesHold, PTL DEF Spec

-----------------------------------------------------------------------------
(***************************************************************************)
(* New rows.  What is being inserted has an id of its own, so a commit      *)
(* never writes over a row.                                                 *)
(***************************************************************************)
Creating(t) == update[t].task = "create"
NewRows ==
  /\ \A t \in Updates : Creating(t) =>
       update[t].target \in (1..lastSub) \ DOMAIN subs
  /\ \A p, q \in Updates :
       Creating(p) /\ Creating(q) /\ p # q => update[p].target # update[q].target

LEMMA NewRowsInit == Init => NewRows
BY IdleIsASession DEF Init, NewRows, Creating

LEMMA NewRowsNext == TypeInv /\ NewRows /\ [Next]_vars => NewRows'
<1> SUFFICES ASSUME TypeInv, NewRows, [Next]_vars PROVE NewRows'
  OBVIOUS
<1>1. CASE UNCHANGED vars
  BY <1>1 DEF vars, database, NewRows, Creating
<1>2. CASE Restart
  <2>1. \A q \in Updates : ~Creating(q)'
    BY <1>2, IdleIsASession DEF Restart, Creating
  <2> QED
    BY <2>1 DEF NewRows
<1>3. ASSUME NEW t \in Updates, Quiet(t) PROVE NewRows'
  BY <1>3 DEF Quiet, Others, NewRows, Creating
<1>4. ASSUME NEW t \in Updates, InsertsUser(t) PROVE NewRows'
  BY <1>4 DEF InsertsUser, Others, NewRows, Creating
<1>5. ASSUME NEW t \in Updates, Inserts(t) PROVE NewRows'
  <2>1. DOMAIN subs \subseteq 1..lastSub /\ lastSub \in Nat
    BY DEF TypeInv, Typed
  <2>2. lastSub + 1 \in (1..lastSub') \ DOMAIN subs'
    BY <1>5, <2>1 DEF Inserts
  <2>3. \A q \in Updates \ {t} : Creating(q)' =>
          update'[q].target \in (1..lastSub) \ DOMAIN subs'
    BY <1>5 DEF Inserts, Others, NewRows, Creating
  <2>4. \A q \in Updates \ {t} : Creating(q)' =>
          update'[q].target \in 1..lastSub' /\ update'[q].target # lastSub + 1
    BY <1>5, <2>1, <2>3 DEF Inserts
  <2> QED
    BY <1>5, <2>2, <2>3, <2>4 DEF Inserts, Others, NewRows, Creating
<1>6. ASSUME NEW t \in Updates, Commit(t) PROVE NewRows'
  <2>1. ~Creating(t)' /\ \A q \in Updates \ {t} : update'[q] = update[q]
    BY <1>6, CommitWrites, BecomesIs, IdleIsASession DEF Others, Creating
  <2>2. lastSub' = lastSub
    BY <1>6, CommitWrites
  <2>3. \/ DOMAIN subs' \subseteq DOMAIN subs
        \/ /\ Creating(t)
           /\ DOMAIN subs' = DOMAIN subs \cup {update[t].target}
    <3>1. CASE CancelsRow(t)
      BY <3>1 DEF CancelsRow
    <3>2. CASE AddsRow(t)
      BY <3>2 DEF AddsRow, Put, Creating
    <3> QED
      BY <1>6, <3>1, <3>2, CommitWrites
  <2> QED
    BY <2>1, <2>2, <2>3 DEF NewRows, Creating
<1> QED
  BY <1>1, <1>2, <1>3, <1>4, <1>5, <1>6, RowSteps

(* A cancelled subscription stays cancelled as long as it exists, whatever  *)
(* edits, cancels and creates of other sessions are committed after it.     *)
THEOREM CancelledForGood == Spec => CancelledStaysCancelled
<1> DEFINE Kept == \A s \in DOMAIN subs \cap DOMAIN subs' :
                     subs[s].status = "cancelled" => subs'[s].status = "cancelled"
<1>1. Init => NewRows
  BY NewRowsInit
<1>2. TypeInv /\ NewRows /\ [Next]_vars => NewRows'
  BY NewRowsNext
<1>3. TypeInv /\ NewRows /\ [Next]_vars => [Kept]_vars
  <2> SUFFICES ASSUME TypeInv, NewRows, [Next]_vars PROVE Kept
    OBVIOUS
  <2>1. CASE subs' = subs
    BY <2>1
  <2>2. ASSUME NEW t \in Updates, Commit(t) PROVE Kept
    <3>1. CASE CancelsRow(t)
      BY <3>1 DEF CancelsRow, TypeInv, Typed, Subscription
    <3>2. CASE AddsRow(t)
      <4>1. update[t].target \notin DOMAIN subs
        BY <3>2 DEF AddsRow, NewRows, Creating
      <4>2. \A s \in DOMAIN subs : subs'[s] = subs[s]
        BY <3>2, <4>1 DEF AddsRow, Put
      <4> QED
        BY <4>2
    <3> QED
      BY <2>1, <2>2, <3>1, <3>2, CommitWrites
  <2>3. \/ subs' = subs \/ \E t \in Updates : Commit(t)
    BY RowSteps DEF Quiet, Inserts, InsertsUser, Restart, vars, database
  <2> QED
    BY <2>1, <2>2, <2>3
<1> QED
  BY <1>1, <1>2, <1>3, DialogTypesHold, PTL DEF Spec, CancelledStaysCancelled
-----------------------------------------------------------------------------
(***************************************************************************)
(* Updates handled one after the other: what the dialog's data hold in each *)
(* of its states, and what the update under way has taken of them.          *)
(***************************************************************************)
Busy(t) == update[t].pc # "idle"
Alone == \A p, q \in Updates : Busy(p) /\ Busy(q) => p = q

Gathered ==
  /\ state \in EditSubscriptionStates => asked # None /\ data.subscription_id = asked
  /\ state = "edit_currency" => data.pending_amount = asked
  /\ state \in {"add_amount", "add_currency", "add_period", "add_date"} =>
       data.custom_name = dialogs
  /\ state \in {"add_currency", "add_period", "add_date"} => data.amount = dialogs
  /\ state \in {"add_period", "add_date"} => data.currency = dialogs
  /\ state = "add_date" => data.period = dialogs
  /\ state = "choosing_base_currency" => data.timezone # None

(* Each add dialog has a number, and a subscription the number of its own.  *)
Unused == \A s \in DOMAIN subs : dialogs \notin subs[s].from
Numbered ==
  /\ \A s \in DOMAIN subs :
       subs[s].from = {} \/ \E n \in 1..dialogs : subs[s].from = {n}
  /\ \A r, s \in DOMAIN subs : r # s => subs[r].from \cap subs[s].from = {}
  /\ state \in AddSubscriptionStates => Unused

Faithful(t) ==
  /\ /\ update[t].handler \in States
     /\ update[t].pc \in Undecided \cup {"found", "inserted"}
     => state = update[t].handler
  /\ update[t].handler \in EditSubscriptionStates =>
       /\ update[t].meant = asked
       /\ update[t].pc = "found" => update[t].value = update[t].target
  /\ update[t].handler \in AddSubscriptionStates => update[t].meant = dialogs
  /\ update[t].handler = "add" => dialogs < MaxDialogs
  /\ update[t].handler = "field" =>
       update[t].to \in EditSubscriptionStates \ {"edit_currency"}
  /\ update[t].task = "edit" => update[t].value = update[t].target
  /\ update[t].task = "create" =>
       /\ update[t].from = {dialogs} /\ Unused
       /\ update[t].pc = "reply" => state \notin AddSubscriptionStates

Hit == \A h \in hits : h[1] = h[2]
Dialog == Alone /\ Gathered /\ Numbered /\ (\A t \in Updates : Faithful(t)) /\ Hit
DialogInv == late = 0 => Dialog

LEMMA IdleIsFaithful ==
  ASSUME NEW q \in Updates, update[q].handler = "view", update[q].task = "nothing"
  PROVE  Faithful(q)
BY DEF Faithful, States, OnboardingStates, AddSubscriptionStates, EditSubscriptionStates

(* Beside the update under way all are idle, and stay so.                   *)
LEMMA OthersStayIdle ==
  ASSUME TypeInv, Dialog, NEW t \in Updates, Busy(t), Others(t)
  PROVE  /\ \A q \in Updates \ {t} : update'[q] = Idle
         /\ Alone' /\ \A q \in Updates \ {t} : Faithful(q)'
<1>1. \A q \in Updates \ {t} : update'[q] = Idle
  BY StatesAndData DEF Dialog, Alone, Busy, WellFormed, Others
<1>2. Alone'
  BY <1>1, IdleIsASession DEF Alone, Busy
<1>3. \A q \in Updates \ {t} : Faithful(q)'
  BY <1>1, IdleIsASession DEF Faithful, States, OnboardingStates,
     AddSubscriptionStates, EditSubscriptionStates
<1> QED
  BY <1>1, <1>2, <1>3

LEMMA DialogInit == Init => Dialog
<1> SUFFICES ASSUME Init PROVE Dialog
  OBVIOUS
<1>1. \A t \in Updates : update[t] = Idle
  BY DEF Init
<1>2. Alone
  BY <1>1, IdleIsASession DEF Alone, Busy
<1>3. Gathered
  BY DEF Gathered, Init, EditSubscriptionStates
<1>4. Numbered
  BY DEF Numbered, Init, AddSubscriptionStates
<1>5. \A t \in Updates : Faithful(t)
  BY <1>1, IdleIsASession, IdleIsFaithful
<1>6. Hit
  BY DEF Hit, Init
<1> QED
  BY <1>2, <1>3, <1>4, <1>5, <1>6 DEF Dialog

(* The first update to come takes the state as it is.                       *)
LEMMA ArriveAlone ==
  ASSUME TypeInv, Dialog, late = 0, late' = 0, NEW t \in Updates, Arrive(t)
  PROVE  Dialog'
<1>1. PICK b \in Requests :
        /\ update[t].pc = "idle" /\ Bounded(b.handler)
        /\ Becomes(t, [Idle EXCEPT
             !.pc = "user", !.handler = b.handler, !.arg = b.arg, !.to = b.to,
             !.meant = CASE b.handler \in EditSubscriptionStates -> asked
                         [] b.handler \in AddSubscriptionStates -> dialogs
                         [] OTHER -> None])
  BY DEF Arrive
<1>2. UNCHANGED <<user, subs, lastSub, state, data, dialogs, asked, hits>>
      /\ \A q \in Updates : update[q].pc = "idle"
  BY DEF Arrive, database, fsm, prompted
<1> DEFINE meant == CASE b.handler \in EditSubscriptionStates -> asked
                     [] b.handler \in AddSubscriptionStates -> dialogs
                     [] OTHER -> None
           r == [Idle EXCEPT !.pc = "user", !.handler = b.handler, !.arg = b.arg,
                             !.to = b.to, !.meant = meant]
<1>3. /\ r.pc = "user" /\ r.handler = b.handler /\ r.to = b.to
      /\ r.meant = meant /\ r.task = "nothing" /\ Becomes(t, r)
  BY <1>1 DEF Idle
<1>4. /\ b.handler \in EditSubscriptionStates => meant = asked
      /\ b.handler \in AddSubscriptionStates => meant = dialogs
  BY DEF EditSubscriptionStates, AddSubscriptionStates
<1> HIDE DEF r, meant
<1>5. update'[t] = r /\ \A q \in Updates \ {t} : update'[q] = Idle
  BY <1>2, <1>3, BecomesIs, StatesAndData DEF Others, WellFormed
<1>6. /\ b.handler \in States => b.handler = state
      /\ b.handler = "add" => dialogs < MaxDialogs
      /\ b.handler = "field" => b.to \in EditSubscriptionStates \ {"edit_currency"}
  <2>1. \/ b.handler \in {state, "add", "wipe", "view"} \ {"none"}
        \/ b.handler \in {"start", "cancel"}
        \/ /\ b.handler = "field"
           /\ b.to \in {"edit_name", "edit_amount", "edit_period", "edit_date"}
    BY <1>1 DEF Requests
  <2>2. {"add", "wipe", "view", "start", "cancel", "field"} \cap States = {}
    BY DEF States, OnboardingStates, AddSubscriptionStates, EditSubscriptionStates
  <2>3. state \in States
    BY StatesAndData
  <2>4. b.handler \in States => b.handler = state
    BY <2>1, <2>2
  <2>5. b.handler = "add" => dialogs < MaxDialogs
    BY <1>1 DEF Bounded
  <2>6. b.handler = "field" => b.to \in EditSubscriptionStates \ {"edit_currency"}
    BY <2>1, <2>2, <2>3 DEF EditSubscriptionStates
  <2> QED
    BY <2>4, <2>5, <2>6
<1>7. Faithful(t)'
  BY <1>2, <1>3, <1>4, <1>5, <1>6 DEF Faithful
<1>8. \A q \in Updates \ {t} : Faithful(q)'
  BY <1>5, IdleIsASession DEF Faithful, States, OnboardingStates,
     AddSubscriptionStates, EditSubscriptionStates
<1>9. Alone'
  BY <1>5, IdleIsASession DEF Alone, Busy
<1>10. Gathered' /\ Numbered' /\ Hit'
  BY <1>2 DEF Dialog, Gathered, Numbered, Unused, Hit
<1> QED
  BY <1>7, <1>8, <1>9, <1>10 DEF Dialog

(* A reply to nothing more than a step of the dialog.                       *)
LEMMA ReplyAlone ==
  ASSUME TypeInv, Dialog, NEW t \in Updates, Busy(t), Reply(t),
         update[t].task = "nothing"
  PROVE  Alone' /\ \A q \in Updates : Faithful(q)'
<1>1. update'[t].handler = "view" /\ update'[t].task = "nothing" /\ Others(t)
  BY ReplyIs
<1>2. Faithful(t)'
  BY <1>1 DEF Faithful, States, OnboardingStates, AddSubscriptionStates,
     EditSubscriptionStates
<1> QED
  BY <1>1, <1>2, OthersStayIdle

LEMMA IdleAlone ==
  ASSUME TypeInv, Dialog, NEW t \in Updates, Busy(t), Becomes(t, Idle)
  PROVE  Alone' /\ \A q \in Updates : Faithful(q)'
<1>1. update'[t] = Idle /\ Others(t)
  BY BecomesIs
<1>2. Faithful(t)'
  BY <1>1, IdleIsASession DEF Faithful, States, OnboardingStates,
     AddSubscriptionStates, EditSubscriptionStates
<1> QED
  BY <1>1, <1>2, OthersStayIdle
(* The user's row is loaded or inserted: the dialog waits.                  *)
LEMMA UserAlone ==
  ASSUME TypeInv, Dialog, NEW t \in Updates, LoadUser(t) \/ CreateUser(t)
  PROVE  Dialog'
<1>1. /\ UNCHANGED <<subs, state, data, dialogs, asked, hits>>
      /\ Busy(t) /\ update[t].pc \in {"user", "create"}
  BY DEF LoadUser, CreateUser, database, fsm, prompted, Busy
<1>2. Gathered' /\ Numbered' /\ Hit'
  BY <1>1 DEF Dialog, Gathered, Numbered, Unused, Hit
<1>3. ASSUME NEW r \in Session, Becomes(t, r), r.pc \in Undecided,
             r.handler = update[t].handler, r.to = update[t].to,
             r.meant = update[t].meant, r.task = "nothing"
      PROVE  Alone' /\ \A q \in Updates : Faithful(q)'
  <2>1. update'[t] = r /\ Others(t)
    BY <1>3, BecomesIs
  <2>2. Faithful(t)'
    BY <1>1, <1>3, <2>1 DEF Dialog, Faithful, Undecided
  <2> QED
    BY <1>1, <2>1, <2>2, OthersStayIdle
<1>4. update[t] \in Session /\ update[t].task = "nothing"
  BY <1>1, StatesAndData DEF WellFormed
<1>5. ASSUME NEW pc \in {"create", "handle"}, NEW u \in Users \cup {None},
             NEW f \in BOOLEAN,
             Becomes(t, [update[t] EXCEPT !.pc = pc, !.owner = u, !.fresh = f])
      PROVE  Alone' /\ \A q \in Updates : Faithful(q)'
  <2> DEFINE r == [update[t] EXCEPT !.pc = pc, !.owner = u, !.fresh = f]
  <2>1. r \in Session
    BY <1>4 DEF Session, PCs
  <2>2. /\ r.pc \in Undecided /\ r.handler = update[t].handler /\ r.to = update[t].to
        /\ r.meant = update[t].meant /\ r.task = "nothing" /\ Becomes(t, r)
    BY <1>4, <1>5 DEF Session, Undecided
  <2> HIDE DEF r
  <2> QED
    BY <1>3, <2>1, <2>2
<1>6. CASE LoadUser(t)
  <2>1. /\ user \in Users \cup {None} /\ update[t].fresh \in BOOLEAN
        /\ update[t].owner \in Users \cup {None}
    BY <1>4 DEF TypeInv, Typed, Session
  <2>2. /\ [update[t] EXCEPT !.pc = "create"] =
             [update[t] EXCEPT !.pc = "create", !.owner = update[t].owner,
                               !.fresh = update[t].fresh]
        /\ [update[t] EXCEPT !.pc = "handle", !.owner = user] =
             [update[t] EXCEPT !.pc = "handle", !.owner = user,
                               !.fresh = update[t].fresh]
    BY <1>4 DEF Session
  <2>3. \/ Becomes(t, [update[t] EXCEPT !.pc = "create"])
        \/ Becomes(t, [update[t] EXCEPT !.pc = "handle", !.owner = user])
    BY <1>6 DEF LoadUser
  <2>4. Alone' /\ \A q \in Updates : Faithful(q)'
    BY <1>5, <2>1, <2>2, <2>3
  <2> QED
    BY <1>2, <2>4 DEF Dialog
<1>7. CASE CreateUser(t)
  <2>1. \/ Becomes(t, [update[t] EXCEPT !.pc = "handle", !.owner = NewUser, !.fresh = TRUE])
        \/ Becomes(t, Idle)
    BY <1>7 DEF CreateUser
  <2>2. NewUser \in Users \cup {None}
    BY NewUserIsFree
  <2>3. Alone' /\ \A q \in Updates : Faithful(q)'
    BY <1>1, <1>5, <2>1, <2>2, IdleAlone
  <2> QED
    BY <1>2, <2>3 DEF Dialog
<1> QED
  BY <1>6, <1>7

(* The handler of a state finds the dialog in that state.                   *)
LEMMA InItsState ==
  ASSUME TypeInv, Dialog, NEW t \in Updates, NEW h \in States, At(t, h)
  PROVE  /\ state = h /\ Busy(t) /\ update[t].task = "nothing"
         /\ h \in EditSubscriptionStates => update[t].meant = asked
         /\ h \in AddSubscriptionStates => update[t].meant = dialogs
BY AtHandler DEF Dialog, Faithful, Undecided, Busy, At

LEMMA AllStates ==
  /\ AddSubscriptionStates \subseteq States /\ EditSubscriptionStates \subseteq States
  /\ OnboardingStates \subseteq States
  /\ AddSubscriptionStates \cap EditSubscriptionStates = {}
BY DEF States, AddSubscriptionStates, EditSubscriptionStates

LEMMA GatherAlone ==
  ASSUME TypeInv, Dialog, NEW t \in Updates,
         \/ AddName(t) \/ AddAmount(t) \/ AddCurrency(t) \/ AddPeriod(t)
         \/ EditAmount(t) \/ CmdStart(t) \/ OnTimezoneChosen(t)
  PROVE  Dialog'
<1>1. /\ Reply(t) /\ Busy(t) /\ update[t].pc = "handle"
      /\ UNCHANGED <<subs, dialogs, asked, hits>>
  BY DEF AddName, AddAmount, AddCurrency, AddPeriod, EditAmount, CmdStart,
     OnTimezoneChosen, At, MovesOn, database, prompted, Busy
<1>2. Alone' /\ \A q \in Updates : Faithful(q)'
  BY <1>1, AtHandler, ReplyAlone
<1>3. data \in DialogData
  BY StatesAndData
<1>4. ASSUME NEW h \in AddSubscriptionStates, At(t, h)
      PROVE  state = h /\ update[t].meant = dialogs
  BY <1>4, InItsState, AllStates
<1>5. Gathered'
  <2>1. CASE AddName(t)
    BY <1>1, <1>3, <1>4, <2>1 DEF AddName, MovesOn, Dialog, Gathered, DialogData,
       AddSubscriptionStates, EditSubscriptionStates
  <2>2. CASE AddAmount(t)
    BY <1>1, <1>3, <1>4, <2>2 DEF AddAmount, MovesOn, Dialog, Gathered, DialogData,
       AddSubscriptionStates, EditSubscriptionStates
  <2>3. CASE AddCurrency(t)
    BY <1>1, <1>3, <1>4, <2>3 DEF AddCurrency, MovesOn, Dialog, Gathered, DialogData,
       AddSubscriptionStates, EditSubscriptionStates
  <2>4. CASE AddPeriod(t)
    BY <1>1, <1>3, <1>4, <2>4 DEF AddPeriod, MovesOn, Dialog, Gathered, DialogData,
       AddSubscriptionStates, EditSubscriptionStates
  <2>5. CASE EditAmount(t)
    <3>1. "edit_amount" \in States /\ "edit_amount" \in EditSubscriptionStates
      BY DEF EditSubscriptionStates, States
    <3>2. state = "edit_amount" /\ update[t].meant = asked
      BY <2>5, <3>1, InItsState DEF EditAmount
    <3> QED
      BY <1>1, <1>3, <2>5, <3>1, <3>2 DEF EditAmount, MovesOn, Dialog, Gathered,
         DialogData
  <2>6. CASE CmdStart(t)
    BY <1>1, <2>6 DEF CmdStart, MovesOn, Gathered, EditSubscriptionStates
  <2>7. CASE OnTimezoneChosen(t)
    BY <1>1, <1>3, <2>7 DEF OnTimezoneChosen, MovesOn, Gathered, DialogData, None,
       EditSubscriptionStates
  <2> QED
    BY <2>1, <2>2, <2>3, <2>4, <2>5, <2>6, <2>7
<1>6. Numbered'
  <2>1. state' \in AddSubscriptionStates => state \in AddSubscriptionStates
    <3>1. CASE AddName(t) \/ AddAmount(t) \/ AddCurrency(t) \/ AddPeriod(t)
      <4>1. PICK h \in AddSubscriptionStates : At(t, h)
        BY <3>1 DEF AddName, AddAmount, AddCurrency, AddPeriod, AddSubscriptionStates
      <4> QED
        BY <4>1, <1>4
    <3>2. CASE EditAmount(t) \/ CmdStart(t) \/ OnTimezoneChosen(t)
      BY <3>2 DEF EditAmount, CmdStart, OnTimezoneChosen, MovesOn, AddSubscriptionStates
    <3> QED
      BY <3>1, <3>2
  <2> QED
    BY <1>1, <2>1 DEF Dialog, Numbered, Unused
<1>7. Hit'
  BY <1>1 DEF Dialog, Hit
<1> QED
  BY <1>2, <1>5, <1>6, <1>7 DEF Dialog

(* A new dialog has a number that no subscription has.                      *)
LEMMA StartAddAlone ==
  ASSUME TypeInv, Dialog, NEW t \in Updates, StartAdd(t)
  PROVE  Dialog'
<1>1. /\ Reply(t) /\ Busy(t) /\ update[t].pc = "handle" /\ update[t].handler = "add"
      /\ UNCHANGED <<subs, asked, hits, data>> /\ state' = "add_name"
  BY DEF StartAdd, At, database, Busy
<1>2. Alone' /\ \A q \in Updates : Faithful(q)'
  BY <1>1, AtHandler, ReplyAlone
<1>3. dialogs' = dialogs + 1 /\ dialogs \in Nat
  BY <1>1, IdsAreBounded DEF Dialog, Faithful, StartAdd
<1>4. Gathered' /\ Hit'
  BY <1>1 DEF Dialog, Gathered, Hit, EditSubscriptionStates
<1>5. \A s \in DOMAIN subs :
        subs[s].from = {} \/ \E n \in 1..dialogs : subs[s].from = {n}
  BY DEF Dialog, Numbered
<1>6. \A s \in DOMAIN subs :
        /\ dialogs + 1 \notin subs[s].from
        /\ (subs[s].from = {} \/ \E n \in 1..(dialogs + 1) : subs[s].from = {n})
  BY <1>3, <1>5
<1>7. Numbered'
  BY <1>1, <1>3, <1>6 DEF Dialog, Numbered, Unused
<1> QED
  BY <1>2, <1>4, <1>7 DEF Dialog
(* Steps that leave the rows and the prompts, and the dialog or clear it.   *)
LEMMA ClearedOrKept ==
  ASSUME TypeInv, Dialog, Alone' /\ \A q \in Updates : Faithful(q)',
         UNCHANGED <<subs, dialogs, asked, hits>>,
         \/ UNCHANGED <<state, data>>
         \/ state' = "none" /\ data' = NoData
  PROVE  Dialog'
<1>1. Gathered'
  BY DEF Dialog, Gathered, EditSubscriptionStates
<1>2. Numbered' /\ Hit'
  BY DEF Dialog, Numbered, Unused, Hit, AddSubscriptionStates
<1> QED
  BY <1>1, <1>2 DEF Dialog

LEMMA ShowAlone ==
  ASSUME TypeInv, Dialog, NEW t \in Updates, Show(t) \/ FinishOnboarding(t) \/ Fail(t)
  PROVE  Dialog'
<1>1. /\ UNCHANGED <<subs, dialogs, asked, hits>> /\ Busy(t)
      /\ UNCHANGED <<state, data>> \/ (state' = "none" /\ data' = NoData)
      /\ Becomes(t, Idle) \/ (Reply(t) /\ update[t].pc = "handle")
  BY DEF Show, FinishOnboarding, Fail, Raise, At, database, prompted, fsm, Busy
<1> QED
  BY <1>1, IdleAlone, ReplyAlone, AtHandler, ClearedOrKept

LEMMA AskFieldAlone ==
  ASSUME TypeInv, Dialog, NEW t \in Updates, AskField(t)
  PROVE  Dialog'
<1>1. /\ UNCHANGED <<subs, dialogs, asked, hits, state, data>> /\ Busy(t)
      /\ update[t].pc = "handle" /\ update[t].handler = "field"
  BY DEF AskField, At, database, prompted, fsm, Busy
<1>2. CASE Reply(t)
  BY <1>1, <1>2, ReplyAlone, AtHandler, ClearedOrKept
<1>3. CASE Becomes(t, [update[t] EXCEPT
                    !.pc = "found", !.target = update[t].arg,
                    !.seen = update[t].seen, !.value = update[t].value])
  <2>1. /\ update'[t].handler = "field" /\ update'[t].to = update[t].to
        /\ update'[t].task = "nothing" /\ Others(t)
    BY <1>1, <1>3, FoundIs, AtHandler
  <2>2. Faithful(t)'
    BY <1>1, <2>1 DEF Dialog, Faithful, States, OnboardingStates,
       AddSubscriptionStates, EditSubscriptionStates
  <2> QED
    BY <1>1, <2>1, <2>2, OthersStayIdle, ClearedOrKept
<1> QED
  BY <1>2, <1>3, AskFieldFinds

LEMMA OpenFieldAlone ==
  ASSUME TypeInv, Dialog, NEW t \in Updates, OpenField(t)
  PROVE  Dialog'
<1>1. /\ UNCHANGED <<subs, dialogs, hits>> /\ Busy(t) /\ Reply(t)
      /\ update[t].pc = "found" /\ update[t].handler = "field"
      /\ state' = update[t].to /\ asked' = update[t].target
      /\ data' = [data EXCEPT !.subscription_id = update[t].target]
  BY DEF OpenField, Prompts, database, Busy
<1>2. update[t].task = "nothing" /\ update[t].target # None
  BY <1>1, StatesAndData DEF WellFormed, None
<1>3. update[t].to \in EditSubscriptionStates \ {"edit_currency"}
  BY <1>1 DEF Dialog, Faithful
<1>4. Gathered'
  BY <1>1, <1>2, <1>3, StatesAndData DEF Gathered, DialogData, EditSubscriptionStates
<1>5. Numbered' /\ Hit'
  BY <1>1, <1>3, AllStates DEF Dialog, Numbered, Unused, Hit
<1> QED
  BY <1>1, <1>2, <1>4, <1>5, ReplyAlone DEF Dialog

(* What the handler that looks for the edited row finds.                    *)
LEMMA AskEditFinds ==
  ASSUME TypeInv, NEW t \in Updates, NEW i, NEW status, NEW w, AskEdit(t),
         Becomes(t, [update[t] EXCEPT !.pc = "found", !.target = i,
                                      !.seen = status, !.value = w])
  PROVE  /\ update'[t].pc = "found" /\ update'[t].target = i /\ update'[t].value = w
         /\ update'[t].handler = update[t].handler
         /\ update'[t].meant = update[t].meant /\ update'[t].task = "nothing"
         /\ Others(t)
<1> DEFINE r == [update[t] EXCEPT !.pc = "found", !.target = i,
                                  !.seen = status, !.value = w]
<1>1. update[t].task = "nothing"
  BY AtHandler DEF AskEdit
<1>2. /\ r.pc = "found" /\ r.target = i /\ r.value = w
      /\ r.handler = update[t].handler /\ r.meant = update[t].meant
      /\ r.task = "nothing" /\ Becomes(t, r)
  BY <1>1, StatesAndData DEF Session
<1> HIDE DEF r
<1> QED
  BY <1>2, BecomesIs

(* The row that is edited is the one last asked about, and so is the value. *)
LEMMA AskEditAlone ==
  ASSUME TypeInv, Dialog, NEW t \in Updates, AskEdit(t)
  PROVE  Dialog'
<1> DEFINE s == data.subscription_id
           amount == update[t].handler = "edit_currency"
           v == IF amount THEN data.pending_amount ELSE update[t].meant
<1>1. /\ UNCHANGED <<subs, dialogs, asked, hits>> /\ Busy(t)
      /\ update[t].pc = "handle" /\ update[t].handler \in EditSubscriptionStates
  BY DEF AskEdit, Applying, database, prompted, Busy
<1>2. state = update[t].handler /\ update[t].meant = asked
  BY <1>1, InItsState, AllStates DEF At
<1>3. s = asked /\ v = asked
  BY <1>1, <1>2 DEF Dialog, Gathered
<1>4. CASE Raise(t)
  BY <1>1, <1>4, IdleAlone, ClearedOrKept DEF Raise, fsm
<1>5. CASE Reply(t) /\ state' = "none" /\ data' = NoData
  BY <1>1, <1>5, AtHandler, ReplyAlone, ClearedOrKept
<1>6. CASE /\ UNCHANGED fsm
           /\ Becomes(t, [update[t] EXCEPT
                !.pc = "found", !.target = s, !.seen = subs[s].status, !.value = v])
  <2>4. PICK i, status, w :
          /\ i = s /\ w = v
          /\ Becomes(t, [update[t] EXCEPT !.pc = "found", !.target = i,
                                          !.seen = status, !.value = w])
    BY <1>6
  <2> HIDE DEF s, v
  <2>1. /\ update'[t].pc = "found" /\ update'[t].target = s /\ update'[t].value = v
        /\ update'[t].handler = update[t].handler
        /\ update'[t].meant = update[t].meant /\ update'[t].task = "nothing"
        /\ Others(t)
    BY <2>4, AskEditFinds
  <2>2. UNCHANGED <<state, data>>
    BY <1>6 DEF fsm
  <2>3. Faithful(t)'
    BY <1>1, <1>2, <1>3, <2>1, <2>2 DEF Faithful, AddSubscriptionStates,
       EditSubscriptionStates
  <2> QED
    BY <1>1, <2>1, <2>2, <2>3, OthersStayIdle, ClearedOrKept
<1> QED
  BY <1>4, <1>5, <1>6 DEF AskEdit

LEMMA ApplyEditAlone ==
  ASSUME TypeInv, Dialog, NEW t \in Updates, ApplyEdit(t)
  PROVE  Dialog'
<1> DEFINE r == [update[t] EXCEPT !.task = "edit"]
<1>1. /\ UNCHANGED <<subs, dialogs, asked, hits>> /\ Busy(t) /\ Ends(t, r)
      /\ update[t].pc = "found" /\ update[t].handler \in EditSubscriptionStates
      /\ state' = "none" /\ data' = NoData
  BY DEF ApplyEdit, Applying, database, prompted, Busy
<1>2. /\ r.task = "edit" /\ r.value = update[t].value /\ r.target = update[t].target
  BY StatesAndData DEF Session
<1> HIDE DEF r
<1>3. /\ update'[t].handler = "view" /\ update'[t].task = "edit"
      /\ update'[t].value = update[t].value /\ update'[t].target = update[t].target
      /\ Others(t)
  BY <1>1, <1>2, EndsIs
<1>4. update[t].value = update[t].target
  BY <1>1 DEF Dialog, Faithful
<1>5. Faithful(t)'
  BY <1>3, <1>4 DEF Faithful, States, OnboardingStates, AddSubscriptionStates,
     EditSubscriptionStates
<1> QED
  BY <1>1, <1>3, <1>5, OthersStayIdle, ClearedOrKept

LEMMA TasksAlone ==
  ASSUME TypeInv, Dialog, NEW t \in Updates, AskCancel(t) \/ AskWipe(t)
  PROVE  Dialog'
<1>1. /\ UNCHANGED <<subs, dialogs, asked, hits, state, data>> /\ Busy(t)
      /\ update[t].pc = "handle"
  BY DEF AskCancel, AskWipe, At, database, prompted, fsm, Busy
<1>2. ASSUME NEW r, Ends(t, r), r.task \in {"cancel", "wipe"}
      PROVE  Dialog'
  <2>1. /\ update'[t].handler = "view" /\ update'[t].task \in {"cancel", "wipe"}
        /\ Others(t)
    BY <1>2, EndsIs
  <2>2. Faithful(t)'
    BY <2>1 DEF Faithful, States, OnboardingStates, AddSubscriptionStates,
       EditSubscriptionStates
  <2> QED
    BY <1>1, <2>1, <2>2, OthersStayIdle, ClearedOrKept
<1>3. CASE Reply(t)
  BY <1>1, <1>3, AtHandler, ReplyAlone, ClearedOrKept
<1>4. CASE AskWipe(t)
  <2> DEFINE r == [update[t] EXCEPT !.task = "wipe"]
  <2>1. Ends(t, r) /\ r.task = "wipe"
    BY <1>4, StatesAndData DEF AskWipe, Session
  <2> HIDE DEF r
  <2> QED
    BY <1>2, <2>1
<1>5. CASE AskCancel(t) /\ ~Reply(t)
  <2> DEFINE r == [update[t] EXCEPT !.task = "cancel", !.target = update[t].arg,
                                    !.seen = subs[update[t].arg].status]
  <2>1. Ends(t, r) /\ r.task = "cancel"
    BY <1>5, StatesAndData DEF AskCancel, Session
  <2> HIDE DEF r
  <2> QED
    BY <1>2, <2>1
<1> QED
  BY <1>3, <1>4, <1>5

(* What is inserted has the one number the dialog gathered, its own.        *)
LEMMA AskCreateAlone ==
  ASSUME TypeInv, Dialog, NEW t \in Updates, AskCreate(t)
  PROVE  Dialog'
<1> DEFINE from == {data[k] : k \in AddKeys} \cup {update[t].meant}
           r == [update[t] EXCEPT !.pc = "inserted", !.target = lastSub + 1,
                                  !.task = "create", !.from = from]
<1>1. /\ UNCHANGED <<subs, dialogs, asked, hits, state, data>> /\ Busy(t)
      /\ At(t, "add_date")
  BY DEF AskCreate, At, Raise, prompted, fsm, Busy
<1>2. CASE Becomes(t, Idle)
  BY <1>1, <1>2, IdleAlone, ClearedOrKept
<1>3. CASE Becomes(t, r)
  <2>1. "add_date" \in AddSubscriptionStates
    BY DEF AddSubscriptionStates
  <2>2. state = "add_date" /\ update[t].meant = dialogs
    BY <1>1, <2>1, InItsState, AllStates
  <2>3. \A k \in AddKeys : data[k] = dialogs
    BY <2>2 DEF Dialog, Gathered, AddKeys
  <2>4. from = {dialogs}
    BY <2>2, <2>3
  <2>5. /\ r.pc = "inserted" /\ r.task = "create" /\ r.from = from
        /\ r.handler = "add_date" /\ r.meant = update[t].meant
    BY <1>1, StatesAndData DEF Session, At
  <2> HIDE DEF r, from
  <2>6. update'[t] = r /\ Others(t)
    BY <1>3, BecomesIs
  <2>7. Unused
    BY <2>1, <2>2 DEF Dialog, Numbered
  <2>8. Faithful(t)'
    BY <1>1, <2>1, <2>2, <2>4, <2>5, <2>6, <2>7, AllStates DEF Faithful, Unused
  <2> QED
    BY <1>1, <2>6, <2>8, OthersStayIdle, ClearedOrKept
<1> QED
  BY <1>2, <1>3 DEF AskCreate, Raise

LEMMA CreatedAlone ==
  ASSUME TypeInv, Dialog, NEW t \in Updates, Created(t)
  PROVE  Dialog'
<1>1. /\ UNCHANGED <<subs, dialogs, asked, hits>> /\ Busy(t) /\ Ends(t, update[t])
      /\ state' = "none" /\ data' = NoData /\ update[t].pc = "inserted"
  BY DEF Created, database, prompted, Busy
<1>2. /\ update'[t].handler = "view" /\ update'[t].task = update[t].task
      /\ update'[t].from = update[t].from /\ update[t].task = "create" /\ Others(t)
  BY <1>1, EndsIs, StatesAndData DEF WellFormed
<1>3. Faithful(t)'
  BY <1>1, <1>2 DEF Dialog, Faithful, Unused, States, OnboardingStates,
     AddSubscriptionStates, EditSubscriptionStates
<1> QED
  BY <1>1, <1>2, <1>3, OthersStayIdle, ClearedOrKept

LEMMA CommitAlone ==
  ASSUME TypeInv, NewRows, Dialog, NEW t \in Updates, Commit(t)
  PROVE  Dialog'
<1>1. /\ UNCHANGED <<state, data, dialogs, asked>> /\ Busy(t) /\ Becomes(t, Idle)
      /\ update[t].pc = "reply"
  BY CommitWrites DEF Busy
<1>2. Alone' /\ \A q \in Updates : Faithful(q)'
  BY <1>1, IdleAlone
<1>3. Gathered'
  BY <1>1 DEF Dialog, Gathered
<1>4. Hit'
  BY CommitWrites DEF Dialog, Hit, Faithful
<1>5. Numbered'
  <2>1. CASE subs' = [s \in {} |-> 0]
    BY <2>1 DEF Numbered, Unused
  <2>2. CASE subs' = subs
    BY <1>1, <2>2 DEF Dialog, Numbered, Unused
  <2>3. CASE CancelsRow(t)
    <3>1. DOMAIN subs' = DOMAIN subs
          /\ \A s \in DOMAIN subs : subs'[s].from = subs[s].from
      BY <2>3 DEF CancelsRow, TypeInv, Typed, Subscription
    <3> QED
      BY <1>1, <3>1 DEF Dialog, Numbered, Unused
  <2>4. CASE AddsRow(t)
    <3>1. /\ update[t].from = {dialogs} /\ Unused
          /\ state \notin AddSubscriptionStates
      BY <1>1, <2>4 DEF AddsRow, Dialog, Faithful
    <3>2. dialogs \in 1..dialogs
      BY <3>1, StatesAndData, IdsAreBounded DEF Session
    <3>3. /\ DOMAIN subs' = DOMAIN subs \cup {update[t].target}
          /\ update[t].target \notin DOMAIN subs
          /\ subs'[update[t].target].from = {dialogs}
          /\ \A s \in DOMAIN subs : subs'[s].from = subs[s].from
      BY <2>4, <3>1 DEF AddsRow, Put, NewRows, Creating
    <3>4. \A s \in DOMAIN subs' :
            subs'[s].from = {} \/ \E n \in 1..dialogs : subs'[s].from = {n}
      BY <3>2, <3>3 DEF Dialog, Numbered
    <3>5. \A r, s \in DOMAIN subs' : r # s => subs'[r].from \cap subs'[s].from = {}
      BY <3>1, <3>3 DEF Dialog, Numbered, Unused
    <3> QED
      BY <1>1, <3>1, <3>4, <3>5 DEF Numbered
  <2> QED
    BY <2>1, <2>2, <2>3, <2>4, CommitWrites
<1> QED
  BY <1>2, <1>3, <1>4, <1>5 DEF Dialog

LEMMA RestartAlone ==
  ASSUME TypeInv, Dialog, Restart
  PROVE  Dialog'
<1>1. /\ \A q \in Updates : update'[q] = Idle
      /\ UNCHANGED <<subs, dialogs, asked, hits>> /\ state' = "none" /\ data' = NoData
  BY DEF Restart, database, prompted
<1>2. Alone'
  BY <1>1, IdleIsASession DEF Alone, Busy
<1>3. \A q \in Updates : Faithful(q)'
  BY <1>1, IdleIsASession DEF Faithful, States, OnboardingStates,
     AddSubscriptionStates, EditSubscriptionStates
<1> QED
  BY <1>1, <1>2, <1>3, ClearedOrKept

LEMMA StutterAlone ==
  ASSUME TypeInv, Dialog, UNCHANGED vars
  PROVE  Dialog'
BY DEF vars, database, fsm, prompted, Dialog, Alone, Busy, Gathered, Numbered, Unused,
   Faithful, Hit

LEMMA DialogInvNext == TypeInv /\ NewRows /\ DialogInv /\ [Next]_vars => DialogInv'
<1> SUFFICES ASSUME TypeInv, NewRows, DialogInv, [Next]_vars, late' = 0
             PROVE  Dialog'
  BY DEF DialogInv
<1>1. late = 0
  <2>1. late \in Nat
    BY StatesAndData
  <2>2. CASE UNCHANGED vars \/ Restart
    BY <2>2 DEF vars, Restart
  <2>3. CASE \E t \in Updates : Arrive(t)
    BY <2>1, <2>3 DEF Arrive
  <2>4. CASE \E t \in Updates : LoadUser(t) \/ CreateUser(t) \/ Fail(t) \/ Commit(t)
    BY <2>4 DEF LoadUser, CreateUser, Fail, Commit
  <2>5. CASE \E t \in Updates : Handle(t)
    BY <2>5 DEF Handle, StartAdd, AddName, AddAmount, AddCurrency, AddPeriod,
       EditAmount, CmdStart, OnTimezoneChosen, MovesOn, Show, AskField, OpenField,
       Prompts, AskEdit, ApplyEdit, AskCreate, Created, FinishOnboarding, AskCancel,
       AskWipe
  <2> QED
    BY <2>2, <2>3, <2>4, <2>5 DEF Next
<1>2. Dialog
  BY <1>1 DEF DialogInv
<1>3. CASE UNCHANGED vars \/ Restart
  BY <1>2, <1>3, StutterAlone, RestartAlone
<1>4. ASSUME NEW t \in Updates,
             \/ Arrive(t) \/ LoadUser(t) \/ CreateUser(t) \/ Commit(t) \/ Fail(t)
      PROVE  Dialog'
  BY <1>1, <1>2, <1>4, ArriveAlone, UserAlone, CommitAlone, ShowAlone
<1>5. ASSUME NEW t \in Updates, Handle(t)
      PROVE  Dialog'
  <2>1. CASE \/ AddName(t) \/ AddAmount(t) \/ AddCurrency(t) \/ AddPeriod(t)
             \/ EditAmount(t) \/ CmdStart(t) \/ OnTimezoneChosen(t)
    BY <1>2, <2>1, GatherAlone
  <2>2. CASE \/ StartAdd(t) \/ Show(t) \/ FinishOnboarding(t) \/ AskField(t) \/ OpenField(t)
    BY <1>2, <2>2, StartAddAlone, ShowAlone, AskFieldAlone, OpenFieldAlone
  <2>3. CASE \/ AskEdit(t) \/ ApplyEdit(t) \/ AskCreate(t) \/ Created(t)
             \/ AskCancel(t) \/ AskWipe(t)
    BY <1>2, <2>3, AskEditAlone, ApplyEditAlone, AskCreateAlone, CreatedAlone, TasksAlone
  <2> QED
    BY <1>5, <2>1, <2>2, <2>3 DEF Handle
<1> QED
  BY <1>3, <1>4, <1>5 DEF Next

THEOREM DialogsGather == Spec => []DialogInv
<1>1. Init => NewRows /\ DialogInv
  BY NewRowsInit, DialogInit DEF DialogInv
<1>2. TypeInv /\ NewRows /\ [Next]_vars => NewRows'
  BY NewRowsNext
<1>3. TypeInv /\ NewRows /\ DialogInv /\ [Next]_vars => DialogInv'
  BY DialogInvNext
<1> QED
  BY <1>1, <1>2, <1>3, DialogTypesHold, PTL DEF Spec

(* As long as updates come one after the other, an edit changes the         *)
(* subscription it was entered for.                                         *)
THEOREM EditsHit == Spec => []EditsHitTheirSubscription
<1>1. DialogInv => EditsHitTheirSubscription
  BY DEF DialogInv, Dialog, Hit, EditsHitTheirSubscription
<1> QED
  BY <1>1, DialogsGather, PTL

(* And an added subscription has the values of one dialog, which added no   *)
(* other.                                                                   *)
THEOREM DialogsAddOnce == Spec => []AddedAsEntered
<1>1. DialogInv => AddedAsEntered
  <2> SUFFICES ASSUME DialogInv, late = 0, NEW s \in DOMAIN subs
               PROVE  /\ Cardinality(subs[s].from) <= 1
                      /\ \A r \in DOMAIN subs \ {s} : subs[s].from \cap subs[r].from = {}
    BY DEF AddedAsEntered
  <2>1. /\ subs[s].from = {} \/ \E n \in 1..dialogs : subs[s].from = {n}
        /\ \A r \in DOMAIN subs \ {s} : subs[s].from \cap subs[r].from = {}
    BY DEF DialogInv, Dialog, Numbered
  <2>2. Cardinality(subs[s].from) \in {0, 1}
    BY <2>1, FS_EmptySet, FS_Singleton
  <2> QED
    BY <2>1, <2>2
<1> QED
  BY <1>1, DialogsGather, PTL

(* A handler finds in the dialog's data what its state stands for.          *)
THEOREM StatesKeepData == Spec => []StatesKeepTheirData
<1>1. TypeInv /\ DialogInv => StatesKeepTheirData
  <2> SUFFICES ASSUME TypeInv, DialogInv, late = 0
               PROVE  /\ state = "edit_currency" => data.pending_amount # None
                      /\ state \in EditSubscriptionStates => data.subscription_id # None
                      /\ state = "add_date" => \A k \in AddKeys : data[k] # None
                      /\ state = "choosing_base_currency" => data.timezone # None
    BY DEF StatesKeepTheirData
  <2>1. Gathered
    BY DEF DialogInv, Dialog
  <2>2. state = "add_date" => dialogs # None
    BY StatesAndData DEF AddSubscriptionStates, None
  <2> QED
    BY <2>1, <2>2 DEF Gathered, AddKeys, EditSubscriptionStates
<1> QED
  BY <1>1, DialogsGather, DialogTypesHold, PTL
=============================================================================
