------------------------ MODULE ReceiptEvidenceProofs ------------------------
(***************************************************************************)
(* What stands behind the rows of the receipt pipeline: a subscription has  *)
(* a charge, a job that ended has its receipt recorded, a flag and a date   *)
(* come from recorded charges.  For any jobs, users, accounts and receipts. *)
(***************************************************************************)
EXTENDS ReceiptPipelineProofs

(* The statements before the commit, and a rerun, show nobody anything.     *)
LEMMA QuietSteps ==
  ASSUME NEW j \in Jobs, (Step(j) /\ ~Commit(j)) \/ Rerun(j)
  PROVE  UNCHANGED <<subs, txns, users, accounts>>
BY DEF Step, Start, Check, Parse, Recheck, FindService, AddService, FindSub,
       AddSub, InsertSub, RereadSub, Adopt, AddTxn, Leave, Refine, Rerun, session,
       database, owners

(* The key of a subscription and the user and account of a job are fixed.   *)
LEMMA KeysAreFixed ==
  /\ \A s : KeyOfSub(s)' = KeyOfSub(s)
  /\ \A j : /\ Key(j)' = Key(j) /\ User(j)' = User(j)
            /\ Account(j)' = Account(j) /\ Slug(j)' = Slug(j)
BY DEF KeyOfSub, Key, User, Account, Slug

(* The account of a job belongs to the job's user.                          *)
LEMMA AccountOfUser ==
  ASSUME NEW j \in Jobs
  PROVE  /\ MsgOf[j] \in Messages /\ Key(j) \in Keys
         /\ Account(j) \in Accounts /\ OwnerOf[Account(j)] = User(j)
         /\ Account(j) \in AccountsOf(User(j))
BY MessagesAssumption, OwnersAssumption DEF Key, User, Account, AccountsOf

-----------------------------------------------------------------------------
(***************************************************************************)
(* A subscription taken from mail was committed together with the charge of *)
(* the job that opened it.  That charge can only leave with its account, or *)
(* with the subscription.                                                   *)
(***************************************************************************)
OpenedWithCharge ==
  \A s \in DOMAIN subs \ Manual :
    Account(s[1]) \in accounts => [job |-> s[1], sub |-> s] \in txns

LEMMA NextOpened == IInv /\ OpenedWithCharge /\ [Next]_vars => OpenedWithCharge'
<1> SUFFICES ASSUME IInv, OpenedWithCharge, [Next]_vars
             PROVE  OpenedWithCharge'
  OBVIOUS
<1> USE DEF OpenedWithCharge
<1>1. CASE UNCHANGED <<subs, txns, users, accounts>>
  BY <1>1, KeysAreFixed
<1>2. ASSUME NEW j \in Jobs, Commit(j)
      PROVE  OpenedWithCharge'
  <2>1. /\ DOMAIN subs' = DOMAIN subs \cup {sub[j]}
        /\ txns' = txns \cup {[job |-> j, sub |-> sub[j]]}
        /\ accounts' = accounts
    BY <1>2 DEF Commit, owners
  <2>2. sub[j] = <<j, attempt[j]>> \/ sub[j] \in DOMAIN subs
    BY <1>2 DEF Commit, IInv, SessionInv, HoldsTxn, ReferencesExist, OwnSub, NewId
  <2> QED
    BY <2>1, <2>2, KeysAreFixed
<1>3. ASSUME NEW a \in Accounts, DisconnectRead(a) \/ DisconnectDelete(a)
      PROVE  OpenedWithCharge'
  <2>1. CASE DisconnectRead(a)
    BY <1>1, <2>1 DEF DisconnectRead, database
  <2>2. CASE DisconnectDelete(a)
    <3>1. ASSUME NEW s \in DOMAIN subs \ Manual, Account(s[1]) \in accounts \ {a}
          PROVE  [job |-> s[1], sub |-> s] \in txns'
      BY <2>2, <3>1 DEF DisconnectDelete, Account
    <3> QED
      BY <2>2, <3>1, KeysAreFixed DEF DisconnectDelete
  <2> QED
    BY <1>3, <2>1, <2>2
<1>4. ASSUME NEW u \in Users, Wipe(u)
      PROVE  OpenedWithCharge'
  <2>1. ASSUME NEW s \in DOMAIN subs' \ Manual, Account(s[1]) \in accounts'
        PROVE  [job |-> s[1], sub |-> s] \in txns'
    BY <1>4, <2>1 DEF Wipe, Forget, SubsOf
  <2> QED
    BY <2>1, KeysAreFixed
<1>5. ASSUME NEW j \in Jobs, Step(j) \/ Rerun(j)
      PROVE  OpenedWithCharge'
  BY <1>1, <1>2, <1>5, QuietSteps
<1>6. CASE UNCHANGED vars
  BY <1>1, <1>6 DEF vars, database, owners
<1> HIDE DEF OpenedWithCharge
<1> QED
  BY <1>3, <1>4, <1>5, <1>6 DEF Next, Drained

(* A job that fails half-way leaves no subscription without a receipt.      *)
THEOREM NoEmptySubscription == Spec => []EmailSubscriptionsHaveCharges
<1>1. Init => OpenedWithCharge
  BY InitSubs DEF Init, OpenedWithCharge
<1>2. OpenedWithCharge => EmailSubscriptionsHaveCharges
  <2> SUFFICES ASSUME OpenedWithCharge, NEW s \in DOMAIN subs \ Manual,
                      Account(s[1]) \in accounts
               PROVE  ChargesOf(s) # {}
    BY DEF EmailSubscriptionsHaveCharges
  <2>1. [job |-> s[1], sub |-> s] \in {t \in txns : t.sub = s}
    BY DEF OpenedWithCharge
  <2> QED
    BY <2>1 DEF ChargesOf
<1> QED
  BY <1>1, <1>2, NextOpened, SpecIInv, PTL DEF Spec

-----------------------------------------------------------------------------
(***************************************************************************)
(* No receipt is lost.  Unless the user is gone, the insert of a            *)
(* subscription does not fail, and the subscription a job is about to refer *)
(* to is there; so an INSERT only fails because the account is gone or the  *)
(* message is recorded.                                                     *)
(***************************************************************************)
RowIsThere(j) ==
  User(j) \in users =>
    /\ pc[j] # "rereadSub"
    /\ pc[j] = "addTxn" => OwnSub(j) \/ sub[j] \in DOMAIN subs

RowsAreThere == \A j \in Jobs : RowIsThere(j)

(* A row disappears only when its user wipes everything.                    *)
LEMMA SubsStay ==
  ASSUME IInv, [Next]_vars, NEW s \in DOMAIN subs, UserOf[KeyOfSub(s)] \in users'
  PROVE  s \in DOMAIN subs'
<1>1. CASE UNCHANGED <<subs, txns, users, accounts>>
  BY <1>1
<1>2. ASSUME NEW j \in Jobs, Commit(j) PROVE s \in DOMAIN subs'
  BY <1>2 DEF Commit
<1>3. ASSUME NEW a \in Accounts, DisconnectRead(a) \/ DisconnectDelete(a)
      PROVE  s \in DOMAIN subs'
  BY <1>3 DEF DisconnectRead, DisconnectDelete, database
<1>4. ASSUME NEW u \in Users, Wipe(u) PROVE s \in DOMAIN subs'
  BY <1>4 DEF Wipe, Forget, SubsOf
<1> QED
  BY <1>1, <1>2, <1>3, <1>4, QuietSteps DEF Next, Drained, vars, database, owners

LEMMA UsersShrink == [Next]_vars => users' \subseteq users /\ accounts' \subseteq accounts
BY DEF Next, Step, Start, Check, Parse, Recheck, FindService, AddService, FindSub,
       AddSub, InsertSub, RereadSub, Adopt, AddTxn, Leave, Refine, Commit, Rerun,
       DisconnectRead, DisconnectDelete, Wipe, Forget, Drained, vars, session,
       database, owners

(* The other jobs of a step stay where they are, unless a wipe fails them.  *)
LEMMA OthersStay ==
  ASSUME IInv, NEW j \in Jobs, Step(j) \/ Rerun(j), NEW i \in Jobs \ {j}
  PROVE  /\ pc'[i] = pc[i] /\ attempt'[i] = attempt[i]
         /\ sub'[i] = sub[i] /\ loaded'[i] = loaded[i] /\ mem'[i] = mem[i]
<1> USE DEF IInv, TypeOK, Goto, Adopt, Leave, ForgetSession, InsertSub, session
<1>1. CASE Start(j) \/ Check(j) \/ Parse(j) \/ Recheck(j) \/ FindService(j) \/ AddService(j)
  BY <1>1 DEF Start, Check, Parse, Recheck, FindService, AddService
<1>2. CASE FindSub(j) \/ AddSub(j) \/ RereadSub(j)
  BY <1>2 DEF FindSub, AddSub, RereadSub
<1>3. CASE AddTxn(j) \/ Refine(j) \/ Commit(j) \/ Rerun(j)
  BY <1>3 DEF AddTxn, Refine, Commit, Rerun
<1> QED
  BY <1>1, <1>2, <1>3 DEF Step

LEMMA RowThereStays ==
  ASSUME IInv, [Next]_vars, NEW i \in Jobs, RowIsThere(i),
         pc'[i] = pc[i], sub'[i] = sub[i], attempt'[i] = attempt[i]
  PROVE  RowIsThere(i)'
<1>1. SUFFICES ASSUME User(i) \in users'
               PROVE  /\ pc[i] # "rereadSub"
                      /\ pc[i] = "addTxn" => OwnSub(i)' \/ sub[i] \in DOMAIN subs'
  BY KeysAreFixed DEF RowIsThere
<1>2. User(i) \in users
  BY <1>1, UsersShrink
<1>3. pc[i] # "rereadSub"
  BY <1>2 DEF RowIsThere
<1>4. CASE pc[i] = "addTxn"
  <2>1. KeyOfSub(sub[i]) = Key(i)
    BY <1>4 DEF IInv, SessionInv
  <2>2. CASE OwnSub(i)
    BY <1>4, <2>2 DEF OwnSub, NewId
  <2>3. CASE sub[i] \in DOMAIN subs
    BY <1>1, <1>4, <2>1, <2>3, SubsStay DEF User
  <2> QED
    BY <1>2, <1>4, <2>2, <2>3 DEF RowIsThere
<1> QED
  BY <1>3, <1>4

(* The statements that make a job look again, or refer to a row.            *)
LEMMA StepRowThere ==
  ASSUME IInv, NEW j \in Jobs, Step(j) \/ Rerun(j)
  PROVE  RowIsThere(j)'
<1> USE DEF IInv, TypeOK, Goto
<1>1. CASE Start(j) \/ Check(j) \/ Parse(j) \/ Recheck(j) \/ FindService(j) \/ AddService(j)
           \/ Refine(j) \/ Commit(j) \/ Rerun(j)
  BY <1>1 DEF Start, Check, Parse, Recheck, FindService, AddService, Refine, Commit,
       Rerun, RowIsThere
<1>2. ASSUME NEW s \in SubsWithKey(Key(j)), Adopt(j, s)
      PROVE  RowIsThere(j)'
  BY <1>2 DEF Adopt, SubsWithKey, RowIsThere, database, owners
<1>3. CASE FindSub(j)
  <2>1. CASE Goto(j, "addSub")
    BY <2>1 DEF RowIsThere
  <2> QED
    BY <1>2, <1>3, <2>1 DEF FindSub
<1>4. CASE AddSub(j)
  <2>1. CASE InsertSub(j)
    BY <2>1 DEF InsertSub, RowIsThere, OwnSub, NewId
  <2>2. CASE ~SubFits(j) /\ Goto(j, "rereadSub")
             /\ UNCHANGED <<session, database, owners>>
    <3>1. users' = users /\ User(j) \notin users
      BY <2>2 DEF SubFits, owners
    <3> QED
      BY <3>1, KeysAreFixed DEF RowIsThere
  <2> QED
    BY <1>4, <2>1, <2>2 DEF AddSub
<1>5. CASE RereadSub(j)
  <2>1. CASE Leave(j, "failed")
    BY <2>1 DEF Leave, RowIsThere
  <2> QED
    BY <1>2, <1>5, <2>1 DEF RereadSub
<1>6. CASE AddTxn(j)
  BY <1>6 DEF AddTxn, Leave, RowIsThere
<1> QED
  BY <1>1, <1>3, <1>4, <1>5, <1>6 DEF Step

LEMMA NextRowsThere == IInv /\ RowsAreThere /\ [Next]_vars => RowsAreThere'
<1> SUFFICES ASSUME IInv, RowsAreThere, [Next]_vars, NEW i \in Jobs
             PROVE  RowIsThere(i)'
  BY DEF RowsAreThere
<1>0. RowIsThere(i)
  BY DEF RowsAreThere
<1>1. ASSUME NEW j \in Jobs, Step(j) \/ Rerun(j)
      PROVE  RowIsThere(i)'
  <2>1. CASE i = j
    BY <1>1, <2>1, StepRowThere
  <2>2. CASE i # j
    BY <1>0, <1>1, <2>2, OthersStay, RowThereStays
  <2> QED
    BY <2>1, <2>2
<1>2. ASSUME NEW a \in Accounts, DisconnectRead(a) \/ DisconnectDelete(a)
      PROVE  RowIsThere(i)'
  BY <1>0, <1>2, RowThereStays DEF DisconnectRead, DisconnectDelete, session
<1>3. ASSUME NEW u \in Users, Wipe(u)
      PROVE  RowIsThere(i)'
  <2>1. CASE i \in Blocked(u)
    <3>1. pc'[i] = "failed"
      BY <1>3, <2>1 DEF Wipe, Forget
    <3> QED
      BY <3>1 DEF RowIsThere
  <2>2. CASE i \notin Blocked(u)
    <3>1. pc'[i] = pc[i] /\ sub'[i] = sub[i] /\ attempt'[i] = attempt[i]
      BY <1>3, <2>2 DEF Wipe, Forget
    <3> QED
      BY <1>0, <3>1, RowThereStays
  <2> QED
    BY <2>1, <2>2
<1>4. CASE UNCHANGED vars
  BY <1>0, <1>4, RowThereStays DEF vars, session
<1> QED
  BY <1>1, <1>2, <1>3, <1>4 DEF Next, Drained

(* A recorded message stays recorded as long as its account exists.         *)
LEMMA RecordedStays ==
  ASSUME IInv, ChargesHaveTheirSubscription, [Next]_vars,
         NEW m \in Messages, Recorded(m), AccountOf[m] \in accounts'
  PROVE  Recorded(m)'
<1>1. PICK t \in txns : MsgOf[t.job] = m
  BY DEF Recorded
<1>2. SUFFICES t \in txns'
  BY <1>1 DEF Recorded
<1>3. ASSUME NEW j \in Jobs, Commit(j) PROVE t \in txns'
  BY <1>3 DEF Commit
<1>4. ASSUME NEW a \in Accounts, DisconnectRead(a) \/ DisconnectDelete(a)
      PROVE  t \in txns'
  BY <1>1, <1>4 DEF DisconnectRead, DisconnectDelete, database
<1>5. ASSUME NEW u \in Users, Wipe(u) PROVE t \in txns'
  <2>1. KeyOfSub(t.sub) = KeyOf[m]
    BY <1>1 DEF ChargesHaveTheirSubscription, Key
  <2>2. OwnerOf[AccountOf[m]] # u
    BY <1>5, OwnersAssumption DEF Wipe, Forget, AccountsOf
  <2>3. UserOf[KeyOfSub(t.sub)] # u
    BY <2>1, <2>2, OwnersAssumption
  <2> QED
    BY <1>5, <2>3 DEF Wipe, SubsOf
<1>6. CASE UNCHANGED <<subs, txns, users, accounts>>
  BY <1>6
<1> QED
  BY <1>3, <1>4, <1>5, <1>6, QuietSteps DEF Next, Drained, vars, database, owners

NothingLost == IInv /\ ChargesHaveTheirSubscription /\ WipeLeavesNothing
                 /\ RowsAreThere /\ NoReceiptLost

(* What happened to the message of one job.                                 *)
Kept(j) ==
  Account(j) \in accounts /\ pc[j] \in {"recorded", "duplicate", "failed"}
    => Recorded(MsgOf[j])

LEMMA StepKept ==
  ASSUME NothingLost, NEW j \in Jobs, Step(j) \/ Rerun(j)
  PROVE  Kept(j)'
<1> USE DEF Goto
<1>0. /\ pc \in [Jobs -> {"queued"} \cup InFlight \cup Ended]
      /\ Account(j) \in accounts => User(j) \in users
  BY AccountOfUser DEF NothingLost, IInv, TypeOK, WipeLeavesNothing
<1>1. CASE Start(j) \/ Parse(j) \/ FindService(j) \/ AddService(j) \/ FindSub(j)
           \/ AddSub(j) \/ Refine(j) \/ Rerun(j)
  BY <1>0, <1>1 DEF Start, Parse, FindService, AddService, FindSub, AddSub, InsertSub,
       Adopt, Refine, Rerun, Kept
<1>2. CASE Check(j) \/ Recheck(j)
  <2>1. txns' = txns /\ accounts' = accounts
    BY <1>2 DEF Check, Recheck, database, owners
  <2>2. \/ pc'[j] = "duplicate" /\ Recorded(MsgOf[j])
        \/ pc'[j] \in {"parsing", "findSub", "findService"}
    BY <1>0, <1>2 DEF Check, Recheck
  <2> QED
    BY <2>1, <2>2 DEF Kept, Recorded
<1>3. CASE RereadSub(j)
  <2>1. CASE SubsWithKey(Key(j)) = {} /\ UNCHANGED owners
    <3>1. User(j) \notin users
      BY <1>3, <2>1 DEF RereadSub, NothingLost, RowsAreThere, RowIsThere
    <3> QED
      BY <1>0, <2>1, <3>1, KeysAreFixed DEF Kept, owners
  <2>2. CASE \E s \in SubsWithKey(Key(j)) : Adopt(j, s)
    BY <1>0, <2>2 DEF Adopt, Kept
  <2> QED
    BY <1>3, <2>1, <2>2 DEF RereadSub
<1>4. CASE AddTxn(j)
  <2>1. CASE Goto(j, "refine")
    BY <1>0, <2>1 DEF Kept
  <2>2. CASE (Recorded(MsgOf[j]) \/ ~ReferencesExist(j)) /\ Leave(j, "failed")
             /\ UNCHANGED owners
    <3>1. Account(j) \in accounts => Recorded(MsgOf[j])
      <4>1. Account(j) \in accounts => OwnSub(j) \/ sub[j] \in DOMAIN subs
        BY <1>0, <1>4 DEF AddTxn, NothingLost, RowsAreThere, RowIsThere
      <4> QED
        BY <2>2, <4>1 DEF ReferencesExist
    <3>2. txns' = txns /\ accounts' = accounts
      BY <2>2 DEF Leave, database, owners
    <3> QED
      BY <3>1, <3>2, KeysAreFixed DEF Kept, Recorded
  <2> QED
    BY <1>4, <2>1, <2>2 DEF AddTxn
<1>5. CASE Commit(j)
  <2>1. [job |-> j, sub |-> sub[j]] \in txns'
    BY <1>5 DEF Commit
  <2> QED
    BY <2>1 DEF Kept, Recorded, Account
<1> QED
  BY <1>1, <1>2, <1>3, <1>4, <1>5 DEF Step

LEMMA NextLost == NothingLost /\ [Next]_vars => NoReceiptLost'
<1> SUFFICES ASSUME NothingLost, [Next]_vars, NEW i \in Jobs
             PROVE  Kept(i)'
  BY DEF NoReceiptLost, Kept
<1>0. Kept(i)
  BY DEF NothingLost, NoReceiptLost, Kept
<1>1. ASSUME pc'[i] = pc[i]
      PROVE  Kept(i)'
  <2> SUFFICES ASSUME Account(i) \in accounts', Kept(i),
                      pc[i] \in {"recorded", "duplicate", "failed"}
               PROVE  Recorded(MsgOf[i])'
    BY <1>0, <1>1, KeysAreFixed DEF Kept
  <2>1. Recorded(MsgOf[i])
    BY UsersShrink DEF Kept
  <2> QED
    BY <2>1, RecordedStays, AccountOfUser DEF NothingLost, Account
<1>2. ASSUME NEW j \in Jobs, Step(j) \/ Rerun(j)
      PROVE  Kept(i)'
  BY <1>1, <1>2, OthersStay, StepKept DEF NothingLost
<1>3. ASSUME NEW a \in Accounts, DisconnectRead(a) \/ DisconnectDelete(a)
      PROVE  Kept(i)'
  BY <1>1, <1>3 DEF DisconnectRead, DisconnectDelete
<1>4. ASSUME NEW u \in Users, Wipe(u)
      PROVE  Kept(i)'
  <2>1. CASE i \in Blocked(u)
    <3>1. Account(i) \notin accounts'
      BY <1>4, <2>1, AccountOfUser DEF Blocked, Wipe, Forget
    <3> QED
      BY <3>1, KeysAreFixed DEF Kept
  <2>2. CASE i \notin Blocked(u)
    BY <1>1, <1>4, <2>2 DEF Wipe, Forget
  <2> QED
    BY <2>1, <2>2
<1>5. CASE UNCHANGED vars
  BY <1>1, <1>5 DEF vars
<1> QED
  BY <1>2, <1>3, <1>4, <1>5 DEF Next, Drained

(* While its account is connected, a receipt that was parsed is recorded    *)
(* when its job has ended, whichever races the job lost.                    *)
THEOREM EveryReceiptKept == Spec => []NoReceiptLost
<1>1. Init => RowsAreThere /\ NoReceiptLost
  BY DEF Init, RowsAreThere, RowIsThere, NoReceiptLost
<1>2. IInv /\ ChargesHaveTheirSubscription /\ WipeLeavesNothing
        /\ RowsAreThere /\ NoReceiptLost => NothingLost
  BY DEF NothingLost
<1> QED
  BY <1>1, <1>2, NextRowsThere, NextLost, SpecIInv, NoOrphanCharges, WipedForGood, PTL
  DEF Spec

-----------------------------------------------------------------------------
(***************************************************************************)
(* What a job may write.  The row in its session was dated by receipts of   *)
(* the key; a period it changed comes with the date of a charge it saw, and *)
(* a flag it set with three of them.                                        *)
(***************************************************************************)
ReceiptsOf(k) == {m \in Messages : KeyOf[m] = k}
SeenBy(j) == ChargesOf(sub[j]) \cup {MsgOf[j]}
OneOffAmong(S) ==
  \E T \in SUBSET S : Cardinality(T) >= 3 /\ LooksOneOff(Day, Amount, T)

Refined(j, S) ==
  /\ \/ mem[j].period = loaded[j].period /\ mem[j].next = loaded[j].next
     \/ /\ mem[j].period # loaded[j].period
        /\ \E m \in S : mem[j].next = AddPeriod(Day[m], mem[j].period)
  /\ mem[j].recurring = loaded[j].recurring \/ OneOffAmong(S)

(* The session of a job whose email subscription is still complete.         *)
HasEvidence(j) ==
  pc[j] \in {"addTxn", "refine", "commit"} /\ sub[j] \notin Manual /\ Connected(Key(j)) =>
    /\ Dated(loaded[j], Key(j), ReceiptsOf(Key(j)))
    /\ OwnSub(j) => loaded[j] = NewRow(MsgOf[j])
    /\ pc[j] # "commit" => mem[j] = loaded[j]
    /\ pc[j] = "commit" => Refined(j, SeenBy(j))

(* A committed row: FlagHasEvidence and ScheduleIsCoherent, row by row.     *)
RowHasEvidence(s) ==
  Connected(KeyOfSub(s)) =>
    /\ ~subs[s].recurring => OneOffAmong(ChargesOf(s))
    /\ Dated(subs[s], KeyOfSub(s), ChargesOf(s))

EvidenceInv ==
  /\ \A j \in Jobs : HasEvidence(j)
  /\ \A s \in DOMAIN subs \ Manual : RowHasEvidence(s)

(* More charges are more evidence.                                          *)
LEMMA EvidenceGrows ==
  ASSUME NEW S, NEW T, S \subseteq T
  PROVE  /\ OneOffAmong(S) => OneOffAmong(T)
         /\ \A r, k : Dated(r, k, S) => Dated(r, k, T)
         /\ \A j : Refined(j, S) => Refined(j, T)
BY DEF OneOffAmong, Dated, Refined

(* The charges of a subscription are receipts of its key.                   *)
LEMMA ChargesAreReceipts ==
  ASSUME IInv, ChargesHaveTheirSubscription, NEW s
  PROVE  ChargesOf(s) \subseteq ReceiptsOf(KeyOfSub(s)) /\ ChargesOf(s) \subseteq Messages
BY MessagesAssumption
DEF ChargesOf, ReceiptsOf, ChargesHaveTheirSubscription, Key, IInv, TypeOK, Txn

(* While all accounts of its user stay connected, a subscription loses no   *)
(* charge.                                                                  *)
LEMMA ChargesStay ==
  ASSUME IInv, ChargesHaveTheirSubscription, [Next]_vars,
         NEW s, Connected(KeyOfSub(s))'
  PROVE  Connected(KeyOfSub(s)) /\ ChargesOf(s) \subseteq ChargesOf(s)'
<1>1. Connected(KeyOfSub(s))
  BY KeysAreFixed, UsersShrink DEF Connected, AccountsOf
<1>2. ASSUME NEW t \in txns, t.sub = s
      PROVE  t \in txns'
  <2>1. /\ t.job \in Jobs /\ KeyOfSub(s) = Key(t.job)
        /\ Account(t.job) \in AccountsOf(UserOf[KeyOfSub(s)])
    BY <1>2, AccountOfUser
    DEF IInv, TypeOK, Txn, ChargesHaveTheirSubscription, User
  <2>2. Account(t.job) \in accounts'
    BY <2>1, KeysAreFixed DEF Connected, AccountsOf
  <2>3. ASSUME NEW j \in Jobs, Commit(j) PROVE t \in txns'
    BY <2>3 DEF Commit
  <2>4. ASSUME NEW a \in Accounts, DisconnectRead(a) \/ DisconnectDelete(a)
        PROVE  t \in txns'
    BY <2>2, <2>4 DEF DisconnectRead, DisconnectDelete, database, Account
  <2>5. ASSUME NEW u \in Users, Wipe(u) PROVE t \in txns'
    BY <1>2, <2>1, <2>2, <2>5 DEF Wipe, Forget, SubsOf, AccountsOf
  <2>6. CASE UNCHANGED <<subs, txns, users, accounts>>
    BY <2>6
  <2> QED
    BY <2>3, <2>4, <2>5, <2>6, QuietSteps DEF Next, Drained, vars, database, owners
<1> QED
  BY <1>1, <1>2 DEF ChargesOf

(* A session nobody touched keeps its evidence.                             *)
LEMMA EvidenceStays ==
  ASSUME IInv, ChargesHaveTheirSubscription, [Next]_vars, NEW i \in Jobs, HasEvidence(i),
         pc'[i] = pc[i], sub'[i] = sub[i], attempt'[i] = attempt[i],
         loaded'[i] = loaded[i], mem'[i] = mem[i]
  PROVE  HasEvidence(i)'
<1> SUFFICES ASSUME pc[i] \in {"addTxn", "refine", "commit"}, sub[i] \notin Manual,
                    Connected(Key(i))'
             PROVE  HasEvidence(i)'
  BY DEF HasEvidence
<1>1. KeyOfSub(sub[i]) = Key(i)
  BY DEF IInv, SessionInv
<1>2. Connected(KeyOfSub(sub[i]))'
  <2>1. KeyOfSub(sub[i])' = Key(i)
    BY <1>1, KeysAreFixed DEF KeyOfSub, Key
  <2> QED
    BY <2>1, KeysAreFixed DEF Connected, AccountsOf
<1>3. Connected(Key(i)) /\ ChargesOf(sub[i]) \subseteq ChargesOf(sub[i])'
  BY <1>1, <1>2, ChargesStay DEF ChargesOf, Connected, AccountsOf
<1>4. SeenBy(i) \subseteq SeenBy(i)'
  BY <1>3 DEF SeenBy, ChargesOf
<1>5. /\ Dated(loaded[i], Key(i), ReceiptsOf(Key(i)))
      /\ OwnSub(i) => loaded[i] = NewRow(MsgOf[i])
      /\ pc[i] # "commit" => mem[i] = loaded[i]
      /\ pc[i] = "commit" => Refined(i, SeenBy(i))
  BY <1>3 DEF HasEvidence
<1>6. pc[i] = "commit" => Refined(i, SeenBy(i)')
  BY <1>4, <1>5, EvidenceGrows
<1>7. pc[i] = "commit" => Refined(i, SeenBy(i))'
  BY <1>6 DEF Refined, OneOffAmong
<1> QED
  BY <1>5, <1>7 DEF HasEvidence, Dated, ReceiptsOf, DatesCoincide, OwnSub, NewId, Key, NewRow

(* Nor does a row nobody wrote to lose any.                                 *)
LEMMA RowStays ==
  ASSUME IInv, ChargesHaveTheirSubscription, [Next]_vars,
         NEW s \in DOMAIN subs, RowHasEvidence(s), subs'[s] = subs[s]
  PROVE  RowHasEvidence(s)'
<1> SUFFICES ASSUME Connected(KeyOfSub(s))'
             PROVE  RowHasEvidence(s)'
  BY DEF RowHasEvidence
<1>1. Connected(KeyOfSub(s)) /\ ChargesOf(s) \subseteq ChargesOf(s)'
  BY ChargesStay
<1>2. /\ ~subs[s].recurring => OneOffAmong(ChargesOf(s)')
      /\ Dated(subs[s], KeyOfSub(s), ChargesOf(s)')
  BY <1>1, EvidenceGrows DEF RowHasEvidence
<1> QED
  BY <1>2, KeysAreFixed DEF RowHasEvidence, OneOffAmong, Dated, DatesCoincide

(* A new row is dated by its own receipt.                                   *)
LEMMA NewRowDated ==
  ASSUME NEW j \in Jobs, NEW S, MsgOf[j] \in S
  PROVE  Dated(NewRow(MsgOf[j]), Key(j), S) /\ NewRow(MsgOf[j]).recurring
<1>1. (IF Stated[MsgOf[j]] = NoPeriod THEN "monthly" ELSE Stated[MsgOf[j]]) \in Periods
  BY MessagesAssumption DEF Periods
<1> QED
  BY <1>1 DEF Dated, NewRow

EvidenceFacts == IInv /\ ChargesHaveTheirSubscription /\ EvidenceInv

(* Reading a row takes its evidence along.                                  *)
LEMMA AdoptEvidence ==
  ASSUME EvidenceFacts, NEW j \in Jobs, pc[j] # "recorded",
         NEW s \in SubsWithKey(Key(j)), Adopt(j, s)
  PROVE  HasEvidence(j)'
<1>1. /\ s \in DOMAIN subs /\ KeyOfSub(s) = Key(j) /\ attempt[j] \in Nat
      /\ s # NewId(j)
  <2>1. s \in DOMAIN subs /\ KeyOfSub(s) = Key(j) /\ attempt[j] \in Nat
    BY BoundsAssumption DEF SubsWithKey, EvidenceFacts, IInv, TypeOK
  <2> QED
    BY <2>1 DEF EvidenceFacts, IInv, FreshIds, NewId
<1>2. /\ pc'[j] = "addTxn" /\ sub'[j] = s /\ attempt' = attempt
      /\ loaded'[j] = subs[s] /\ mem'[j] = subs[s] /\ accounts' = accounts
  BY DEF Adopt, Goto, EvidenceFacts, IInv, TypeOK, owners
<1>3. ~OwnSub(j)'
  BY <1>1, <1>2 DEF OwnSub, NewId
<1>4. ASSUME s \notin Manual, Connected(Key(j))
      PROVE  Dated(subs[s], Key(j), ReceiptsOf(Key(j)))
  <2>1. Dated(subs[s], Key(j), ChargesOf(s))
    BY <1>1, <1>4 DEF EvidenceFacts, EvidenceInv, RowHasEvidence
  <2>2. ChargesOf(s) \subseteq ReceiptsOf(Key(j))
    BY <1>1, ChargesAreReceipts DEF EvidenceFacts
  <2> QED
    BY <2>1, <2>2, EvidenceGrows
<1>5. Connected(Key(j))' = Connected(Key(j))
  BY <1>2 DEF Connected, AccountsOf, Key
<1> QED
  BY <1>2, <1>3, <1>4, <1>5 DEF HasEvidence, Dated, ReceiptsOf, DatesCoincide, Key

(* The measurement takes it from the charges the job sees.                  *)
LEMMA RefineEvidence ==
  ASSUME EvidenceFacts, NEW j \in Jobs, Refine(j)
  PROVE  HasEvidence(j)'
<1> DEFINE S == SeenBy(j)
           refined == RefineFlag(RefinePeriod(mem[j], S), S)
<1>1. S \in SUBSET Messages /\ S # {}
  BY MessagesAssumption DEF SeenBy, ChargesOf, EvidenceFacts, IInv, TypeOK, Txn
<1>2. /\ pc[j] = "refine" /\ pc'[j] = "commit" /\ mem'[j] = refined
      /\ UNCHANGED <<sub, loaded, attempt, txns, accounts>>
  BY DEF Refine, Goto, EvidenceFacts, IInv, TypeOK, database, owners, SeenBy
<1>3. mem[j] \in Row
  BY DEF EvidenceFacts, IInv, TypeOK
<1>4. \/ refined.period = mem[j].period /\ refined.next = mem[j].next
      \/ /\ refined.period # mem[j].period
         /\ \E m \in S : refined.next = AddPeriod(Day[m], refined.period)
  <2>1. PICK m \in S : LastDay(Day, S) = Day[m]
    BY <1>1, LastDayIsADay
  <2>2. RefinePeriod(mem[j], S) \in Row
    BY <1>1, <1>3, <2>1, InferPeriodType, CalendarAssumption DEF RefinePeriod, Row
  <2>4. \/ RefinePeriod(mem[j], S) = mem[j]
        \/ /\ RefinePeriod(mem[j], S).period # mem[j].period
           /\ RefinePeriod(mem[j], S).next =
                AddPeriod(Day[m], RefinePeriod(mem[j], S).period)
    BY <1>3, <2>1 DEF RefinePeriod, Row
  <2>3. /\ refined.period = RefinePeriod(mem[j], S).period
        /\ refined.next = RefinePeriod(mem[j], S).next
    BY <2>2 DEF RefineFlag, Row
  <2> QED
    BY <2>3, <2>4
<1>5. refined.recurring = mem[j].recurring \/ OneOffAmong(S)
  BY <1>3 DEF RefineFlag, RefinePeriod, OneOffAmong, Row
<1>6. SeenBy(j)' = S
  BY <1>2 DEF SeenBy, ChargesOf
<1> HIDE DEF S, refined
<1>7. ASSUME sub[j] \notin Manual, Connected(Key(j))
      PROVE  /\ Dated(loaded[j], Key(j), ReceiptsOf(Key(j)))
             /\ OwnSub(j) => loaded[j] = NewRow(MsgOf[j])
             /\ mem[j] = loaded[j]
  BY <1>2, <1>7 DEF EvidenceFacts, EvidenceInv, HasEvidence
<1>8. ASSUME sub[j] \notin Manual, Connected(Key(j))
      PROVE  Refined(j, SeenBy(j))'
  BY <1>2, <1>4, <1>5, <1>6, <1>7, <1>8 DEF Refined, OneOffAmong
<1>9. Connected(Key(j))' = Connected(Key(j))
  BY <1>2 DEF Connected, AccountsOf, Key
<1> QED
  BY <1>2, <1>7, <1>8, <1>9
  DEF HasEvidence, Dated, ReceiptsOf, DatesCoincide, Key, OwnSub, NewId, NewRow

LEMMA StepEvidence ==
  ASSUME EvidenceFacts, NEW j \in Jobs, Step(j) \/ Rerun(j)
  PROVE  HasEvidence(j)'
<1> USE DEF Goto
<1>0. pc \in [Jobs -> {"queued"} \cup InFlight \cup Ended]
  BY DEF EvidenceFacts, IInv, TypeOK
<1>1. ASSUME pc'[j] \notin {"addTxn", "refine", "commit"}
      PROVE  HasEvidence(j)'
  BY <1>1 DEF HasEvidence
<1>2. CASE Start(j) \/ Check(j) \/ Parse(j) \/ Recheck(j) \/ FindService(j) \/ AddService(j)
           \/ Commit(j) \/ Rerun(j)
  BY <1>0, <1>1, <1>2 DEF Start, Check, Parse, Recheck, FindService, AddService, Commit,
       Rerun
<1>3. CASE FindSub(j) \/ RereadSub(j)
  BY <1>0, <1>1, <1>3, AdoptEvidence DEF FindSub, RereadSub, Leave
<1>4. CASE AddSub(j)
  <2>1. CASE Goto(j, "rereadSub")
    BY <1>0, <1>1, <2>1
  <2>2. CASE InsertSub(j)
    <3>1. /\ pc'[j] = "addTxn" /\ loaded'[j] = NewRow(MsgOf[j])
          /\ mem'[j] = NewRow(MsgOf[j])
      BY <1>0, <2>2 DEF InsertSub, EvidenceFacts, IInv, TypeOK
    <3>2. Dated(NewRow(MsgOf[j]), Key(j), ReceiptsOf(Key(j)))
      BY NewRowDated, MessagesAssumption DEF ReceiptsOf, Key
    <3> QED
      BY <3>1, <3>2 DEF HasEvidence, Dated, ReceiptsOf, DatesCoincide, Key, NewRow
  <2> QED
    BY <1>4, <2>1, <2>2 DEF AddSub
<1>5. CASE AddTxn(j)
  <2>1. CASE Leave(j, "failed")
    BY <1>0, <1>1, <2>1 DEF Leave
  <2>2. CASE Goto(j, "refine") /\ UNCHANGED <<session, database, owners>>
    <3>1. /\ pc[j] = "addTxn" /\ pc'[j] = "refine"
          /\ UNCHANGED <<sub, loaded, mem, attempt, accounts>>
      BY <1>0, <1>5, <2>2 DEF AddTxn, session, owners
    <3>2. HasEvidence(j)
      BY DEF EvidenceFacts, EvidenceInv
    <3> QED
      BY <3>1, <3>2 DEF HasEvidence, Dated, ReceiptsOf, DatesCoincide, Connected, AccountsOf,
           Key, OwnSub, NewId, NewRow
  <2> QED
    BY <1>5, <2>1, <2>2 DEF AddTxn
<1>6. CASE Refine(j)
  BY <1>6, RefineEvidence
<1> QED
  BY <1>2, <1>3, <1>4, <1>5, <1>6 DEF Step

(* The columns a commit writes leave the row with evidence.  If the period  *)
(* changed and the date did not, two dates of the key coincide.             *)
LEMMA CommitEvidence ==
  ASSUME EvidenceFacts, NEW j \in Jobs, Commit(j),
         NEW s, s = sub[j], s \notin Manual
  PROVE  RowHasEvidence(s)'
<1> DEFINE k == Key(j)
           S == SeenBy(j)
           row == IF OwnSub(j) THEN loaded[j] ELSE subs[s]
<1>1. /\ pc[j] = "commit" /\ KeyOfSub(s) = k /\ MsgOf[j] \in S
      /\ OwnSub(j) \/ s \in DOMAIN subs
  BY DEF Commit, EvidenceFacts, IInv, SessionInv, HoldsTxn, ReferencesExist, SeenBy
<1>2. /\ subs'[s] = Flush(row, j) /\ txns' = txns \cup {[job |-> j, sub |-> s]}
      /\ accounts' = accounts
  BY DEF Commit, owners
<1>3. ChargesOf(s)' = S
  <2> DEFINE t0 == [job |-> j, sub |-> s]
  <2>1. t0.job = j /\ t0.sub = s
    OBVIOUS
  <2>2. {u \in txns' : u.sub = s} = {u \in txns : u.sub = s} \cup {t0}
    BY <1>2, <2>1
  <2> HIDE DEF t0
  <2>3. {MsgOf[t.job] : t \in {u \in txns' : u.sub = s}}
          = {MsgOf[t.job] : t \in {u \in txns : u.sub = s}} \cup {MsgOf[j]}
    BY <2>1, <2>2
  <2> QED
    BY <2>3 DEF SeenBy, ChargesOf
<1>4. SUFFICES ASSUME Connected(k)
               PROVE  /\ ~Flush(row, j).recurring => OneOffAmong(S)
                      /\ Dated(Flush(row, j), k, S)
  <2> HIDE DEF row, S
  <2>1. Connected(KeyOfSub(s))' = Connected(k)
    BY <1>1, <1>2, KeysAreFixed DEF Connected, AccountsOf
  <2>2. KeyOfSub(s)' = k
    BY <1>1, KeysAreFixed
  <2>3. (~subs[s].recurring => OneOffAmong(ChargesOf(s)))'
          <=> (~Flush(row, j).recurring => OneOffAmong(S))
    BY <1>2, <1>3 DEF OneOffAmong
  <2>4. Dated(subs[s], KeyOfSub(s), ChargesOf(s))' <=> Dated(Flush(row, j), k, S)
    BY <1>2, <1>3, <2>2 DEF Dated, DatesCoincide
  <2> QED
    BY <2>1, <2>3, <2>4 DEF RowHasEvidence
<1>5. HasEvidence(j) /\ Refined(j, S) /\ Dated(loaded[j], k, ReceiptsOf(k))
        /\ (OwnSub(j) => loaded[j] = NewRow(MsgOf[j]))
  BY <1>1, <1>4 DEF EvidenceFacts, EvidenceInv, HasEvidence
<1>6. Dated(row, k, S) /\ (~row.recurring => OneOffAmong(S))
  <2>1. CASE OwnSub(j)
    BY <1>1, <1>5, <2>1, NewRowDated
  <2>2. CASE ~OwnSub(j)
    <3>1. RowHasEvidence(s) /\ row = subs[s]
      BY <1>1, <2>2 DEF EvidenceFacts, EvidenceInv
    <3>2. ChargesOf(s) \subseteq S
      BY DEF SeenBy
    <3> QED
      BY <1>1, <1>4, <3>1, <3>2, EvidenceGrows DEF RowHasEvidence
  <2> QED
    BY <2>1, <2>2
<1> HIDE DEF row
<1>7. /\ Flush(row, j).period =
           IF mem[j].period # loaded[j].period THEN mem[j].period ELSE row.period
      /\ Flush(row, j).next = IF mem[j].next # loaded[j].next THEN mem[j].next ELSE row.next
      /\ Flush(row, j).recurring =
           IF mem[j].recurring # loaded[j].recurring THEN mem[j].recurring ELSE row.recurring
  BY DEF Flush
<1>8. ~Flush(row, j).recurring => OneOffAmong(S)
  BY <1>5, <1>6, <1>7 DEF Refined
<1>9. Dated(Flush(row, j), k, S)
  <2>1. CASE mem[j].period = loaded[j].period /\ mem[j].next = loaded[j].next
    BY <1>6, <1>7, <2>1 DEF Dated
  <2>2. CASE /\ mem[j].period # loaded[j].period
             /\ \E m \in S : mem[j].next = AddPeriod(Day[m], mem[j].period)
    <3>1. mem[j].period \in Periods /\ S \subseteq ReceiptsOf(k)
      <4>1. mem[j] \in Row /\ MsgOf[j] \in ReceiptsOf(k)
        BY MessagesAssumption DEF EvidenceFacts, IInv, TypeOK, ReceiptsOf, Key
      <4>2. ChargesOf(s) \subseteq ReceiptsOf(k)
        BY <1>1, ChargesAreReceipts DEF EvidenceFacts
      <4> QED
        BY <4>1, <4>2 DEF Row, SeenBy
    <3>2. CASE mem[j].next # loaded[j].next
      BY <1>7, <2>2, <3>1, <3>2 DEF Dated
    <3>3. CASE mem[j].next = loaded[j].next
      <4>1. DatesCoincide(k)
        BY <1>5, <2>2, <3>1, <3>3 DEF Dated, DatesCoincide, ReceiptsOf
      <4> QED
        BY <1>6, <1>7, <3>3, <4>1 DEF Dated
    <3> QED
      BY <3>2, <3>3
  <2> QED
    BY <1>5, <2>1, <2>2 DEF Refined
<1> QED
  BY <1>8, <1>9

LEMMA NextEvidence ==
  IInv /\ ChargesHaveTheirSubscription /\ EvidenceInv /\ [Next]_vars => EvidenceInv'
<1> SUFFICES ASSUME EvidenceFacts, [Next]_vars
             PROVE  EvidenceInv'
  BY DEF EvidenceFacts
<1>0. /\ IInv /\ ChargesHaveTheirSubscription
      /\ \A i \in Jobs : HasEvidence(i)
      /\ \A s \in DOMAIN subs \ Manual : RowHasEvidence(s)
  BY DEF EvidenceFacts, EvidenceInv
<1>1. SUFFICES /\ \A i \in Jobs : HasEvidence(i)'
               /\ \A s \in DOMAIN subs' \ Manual : RowHasEvidence(s)'
  BY DEF EvidenceInv
<1>2. ASSUME subs' = subs
      PROVE  \A s \in DOMAIN subs' \ Manual : RowHasEvidence(s)'
  BY <1>0, <1>2, RowStays
<1>3. ASSUME UNCHANGED <<pc, sub, attempt, loaded, mem>>
      PROVE  \A i \in Jobs : HasEvidence(i)'
  BY <1>0, <1>3, EvidenceStays
<1>4. ASSUME NEW j \in Jobs, Step(j) \/ Rerun(j), NEW i \in Jobs
      PROVE  HasEvidence(i)'
  <2>1. CASE i = j
    BY <1>4, <2>1, StepEvidence
  <2>2. CASE i # j
    BY <1>0, <1>4, <2>2, OthersStay, EvidenceStays
  <2> QED
    BY <2>1, <2>2
<1>5. ASSUME NEW j \in Jobs, Step(j) \/ Rerun(j), NEW s \in DOMAIN subs' \ Manual
      PROVE  RowHasEvidence(s)'
  <2>1. CASE ~Commit(j)
    BY <1>2, <1>5, <2>1, QuietSteps
  <2>2. CASE Commit(j) /\ s = sub[j]
    BY <1>5, <2>2, CommitEvidence
  <2>3. CASE Commit(j) /\ s # sub[j]
    <3>1. s \in DOMAIN subs /\ subs'[s] = subs[s]
      BY <1>5, <2>3 DEF Commit
    <3> QED
      BY <1>0, <1>5, <3>1, RowStays
  <2> QED
    BY <2>1, <2>2, <2>3
<1>6. ASSUME NEW a \in Accounts, DisconnectRead(a) \/ DisconnectDelete(a)
      PROVE  subs' = subs /\ UNCHANGED <<pc, sub, attempt, loaded, mem>>
  BY <1>6 DEF DisconnectRead, DisconnectDelete, session, database
<1>7. ASSUME NEW u \in Users, Wipe(u), NEW i \in Jobs
      PROVE  HasEvidence(i)'
  <2>1. CASE i \in Blocked(u)
    <3>1. pc'[i] = "failed"
      BY <1>7, <2>1 DEF Wipe, Forget
    <3> QED
      BY <3>1 DEF HasEvidence
  <2>2. CASE i \notin Blocked(u)
    <3>1. /\ pc'[i] = pc[i] /\ sub'[i] = sub[i] /\ attempt'[i] = attempt[i]
          /\ loaded'[i] = loaded[i] /\ mem'[i] = mem[i]
      BY <1>7, <2>2 DEF Wipe, Forget
    <3> QED
      BY <1>0, <3>1, EvidenceStays
  <2> QED
    BY <2>1, <2>2
<1>8. ASSUME NEW u \in Users, Wipe(u), NEW s \in DOMAIN subs' \ Manual
      PROVE  RowHasEvidence(s)'
  <2>1. s \in DOMAIN subs /\ subs'[s] = subs[s]
    BY <1>8 DEF Wipe, Forget
  <2> QED
    BY <1>0, <1>8, <2>1, RowStays
<1>9. CASE UNCHANGED vars
  BY <1>2, <1>3, <1>9 DEF vars, session, database
<1> QED
  BY <1>2, <1>3, <1>4, <1>5, <1>6, <1>7, <1>8, <1>9 DEF Next, Drained

LEMMA InitEvidence == Init => EvidenceInv
BY InitSubs DEF Init, EvidenceInv, HasEvidence

LEMMA SpecEvidence == Spec => []EvidenceInv
BY InitEvidence, NextEvidence, SpecIInv, NoOrphanCharges, PTL DEF Spec

(* No subscription is called one-off purchases without three charges that   *)
(* look like it, whichever of them the job that said so could see.          *)
THEOREM FlagsHaveEvidence == Spec => []FlagHasEvidence
<1>1. EvidenceInv => FlagHasEvidence
  BY DEF EvidenceInv, RowHasEvidence, FlagHasEvidence, OneOffAmong
<1> QED
  BY <1>1, SpecEvidence, PTL

(* Jobs that measure one subscription at the same time leave a next charge  *)
(* that is a period after a charge: the row's period, unless two periods    *)
(* after two receipts of the key end on one day.                            *)
THEOREM SchedulesAreCoherent == Spec => []ScheduleIsCoherent
<1>1. EvidenceInv => ScheduleIsCoherent
  BY DEF EvidenceInv, RowHasEvidence, ScheduleIsCoherent
<1> QED
  BY <1>1, SpecEvidence, PTL
=============================================================================
