------------------------ MODULE ReceiptPipelineProofs ------------------------
(***************************************************************************)
(* Proofs about ReceiptPipeline, for any number of users, accounts, jobs,   *)
(* messages, keys and subscriptions, and any number of reruns.              *)
(***************************************************************************)
EXTENDS ReceiptPipeline, FiniteSetTheorems, WellFoundedInduction, TLAPS

-----------------------------------------------------------------------------
(* Among finitely many receipts there is a latest one: a smallest set of    *)
(* receipts without one would have a member to remove.  max(t.charged_at)   *)
(* in _refine_period is defined.                                            *)
LEMMA LatestReceiptExists ==
  ASSUME NEW S \in SUBSET Messages, S # {}
  PROVE  \E m \in S : \A n \in S : Day[n] <= Day[m]
<1> DEFINE Latest(T) == \E m \in T : \A n \in T : Day[n] <= Day[m]
           Bad == {T \in FiniteSubsetsOf(Messages) : T # {} /\ ~Latest(T)}
<1>1. SUFFICES ASSUME ~Latest(S) PROVE FALSE
  OBVIOUS
<1>2. S \in Bad
  <2>1. IsFiniteSet(S)
    BY FS_Subset, MessagesAssumption
  <2> QED
    BY <1>1, <2>1 DEF FiniteSubsetsOf
<1>3. PICK T \in Bad :
        \A U \in Bad : <<U, T>> \notin StrictSubsetOrdering(Messages)
  <2>1. IsWellFoundedOn(StrictSubsetOrdering(Messages), FiniteSubsetsOf(Messages))
    BY FS_StrictSubsetOrderingWellFounded
  <2>2. Bad \subseteq FiniteSubsetsOf(Messages) /\ Bad # {}
    BY <1>2
  <2> QED
    BY <2>1, <2>2, WFMin
<1>4. PICK m \in T : TRUE
  OBVIOUS
<1> DEFINE U == T \ {m}
<1>5. T \subseteq Messages /\ IsFiniteSet(T) /\ ~Latest(T)
  BY DEF FiniteSubsetsOf
<1>6. U \in FiniteSubsetsOf(Messages)
  BY <1>5, FS_RemoveElement DEF FiniteSubsetsOf
<1>7. CASE U = {}
  <2>1. \A n \in T : n = m /\ Day[n] \in Nat
    BY <1>5, <1>7, MessagesAssumption
  <2> QED
    BY <1>5, <2>1
<1>8. CASE U # {}
  <2>1. <<U, T>> \in StrictSubsetOrdering(Messages)
    BY <1>5, <1>6 DEF StrictSubsetOrdering, FiniteSubsetsOf
  <2>2. Latest(U)
    BY <1>3, <1>6, <1>8, <2>1
  <2>3. PICK l \in U : \A n \in U : Day[n] <= Day[l]
    BY <2>2
  <2>4. Day[l] \in Nat /\ Day[m] \in Nat /\ \A n \in T : Day[n] \in Nat
    BY <1>5, MessagesAssumption
  <2>5. CASE Day[m] <= Day[l]
    BY <1>5, <2>3, <2>5
  <2>6. CASE Day[l] <= Day[m]
    <3>1. \A n \in T : Day[n] <= Day[m]
      BY <2>3, <2>4, <2>6
    <3> QED
      BY <1>5, <3>1
  <2> QED
    BY <2>4, <2>5, <2>6
<1> QED
  BY <1>7, <1>8

(* InferPeriod always names a period.                                       *)
LEMMA InferPeriodType ==
  ASSUME NEW S
  PROVE  InferPeriod(Day, S) \in Periods
BY DEF InferPeriod, Periods

LEMMA LastDayIsADay ==
  ASSUME NEW S \in SUBSET Messages, S # {}
  PROVE  \E m \in S : LastDay(Day, S) = Day[m]
<1>1. \E d \in {Day[c] : c \in S} : \A c \in S : Day[c] <= d
  BY LatestReceiptExists
<1> QED
  BY <1>1 DEF LastDay

LEMMA NewRowType ==
  ASSUME NEW m \in Messages
  PROVE  NewRow(m) \in Row
<1>1. (IF Stated[m] = NoPeriod THEN "monthly" ELSE Stated[m]) \in Periods
  BY MessagesAssumption DEF Periods
<1> QED
  BY <1>1, CalendarAssumption DEF NewRow, Row

LEMMA RefineType ==
  ASSUME NEW row \in Row, NEW S \in SUBSET Messages, S # {}
  PROVE  RefineFlag(RefinePeriod(row, S), S) \in Row
<1>1. PICK m \in S : LastDay(Day, S) = Day[m]
  BY LastDayIsADay
<1>2. AddPeriod(LastDay(Day, S), InferPeriod(Day, S)) \in Nat
  BY <1>1, InferPeriodType, CalendarAssumption
<1>3. RefinePeriod(row, S) \in Row
  BY <1>2, InferPeriodType DEF RefinePeriod, Row
<1> QED
  BY <1>3 DEF RefineFlag, Row

LEMMA FlushType ==
  ASSUME TypeOK, NEW row \in Row, NEW j \in Jobs
  PROVE  Flush(row, j) \in Row
<1>1. mem[j] \in Row /\ loaded[j] \in Row
  BY DEF TypeOK
<1> QED
  BY <1>1 DEF Flush, Row

-----------------------------------------------------------------------------
(***************************************************************************)
(* The types alone are not inductive: a commit writes the row of the        *)
(* session's subscription, which must be there.  SessionInv says what a     *)
(* job's session holds at each statement, and FreshIds that the id a job    *)
(* is about to insert is new.                                               *)
(***************************************************************************)
SessionInv ==
  \A j \in Jobs :
    /\ pc[j] \in {"findService", "addService"} \/ j \in newSlug
         => Slug(j) # NoSlug
    /\ pc[j] \in {"addTxn", "refine", "commit"} <=> sub[j] # NoSub
    /\ sub[j] # NoSub => KeyOfSub(sub[j]) = Key(j)
    /\ HoldsTxn(j) => ReferencesExist(j)

FreshIds ==
  \A j \in Jobs, n \in Nat :
    <<j, n>> \in DOMAIN subs =>
      n < attempt[j] \/ (n = attempt[j] /\ pc[j] = "recorded")

IInv == TypeOK /\ SessionInv /\ FreshIds

(* "No subscription" is not an id.                                          *)
LEMMA NewIdsAreSubs ==
  ASSUME IInv, NEW j \in Jobs
  PROVE  NewId(j) # NoSub
BY ManualAssumption, BoundsAssumption DEF NewId, IInv, TypeOK

-----------------------------------------------------------------------------
(* Leaving a transaction keeps the session variables in their types.        *)
LEMMA ForgetSessionType ==
  ASSUME TypeOK, NEW j \in Jobs, ForgetSession(j)
  PROVE  /\ sub' \in [Jobs -> SubIds \cup {NoSub}]
         /\ loaded' \in [Jobs -> Row]
         /\ mem' \in [Jobs -> Row]
         /\ newSlug' \subseteq Jobs
<1>1. BlankRow \in Row
  BY DEF BlankRow, Row, Periods
<1> QED
  BY <1>1 DEF TypeOK, ForgetSession

LEMMA AdoptType ==
  ASSUME TypeOK, NEW j \in Jobs, NEW s \in DOMAIN subs, Adopt(j, s)
  PROVE  TypeOK'
<1>1. s \in SubIds /\ subs[s] \in Row
  BY DEF TypeOK
<1> QED
  BY <1>1 DEF TypeOK, Adopt, Goto, InFlight, SubIds, Txn, database, owners, vars

LEMMA LeaveType ==
  ASSUME TypeOK, NEW j \in Jobs, NEW outcome \in Ended,
         Leave(j, outcome), UNCHANGED owners
  PROVE  TypeOK'
BY ForgetSessionType DEF TypeOK, Leave, Goto, SubIds, Txn, database, owners

(* At first there are at most the subscriptions added by hand.              *)
LEMMA InitSubs ==
  ASSUME Init
  PROVE  DOMAIN subs \subseteq Manual /\ subs \in [DOMAIN subs -> Row]
BY ManualAssumption DEF Init, Restrict

LEMMA InitType == Init => TypeOK
<1>1. BlankRow \in Row
  BY DEF BlankRow, Row, Periods
<1> QED
  BY <1>1, InitSubs, BoundsAssumption DEF Init, TypeOK, SubIds

(* Moving the program counter alone.                                        *)
LEMMA GotoType ==
  ASSUME TypeOK, NEW j \in Jobs, NEW to \in InFlight \cup Ended,
         Goto(j, to), UNCHANGED <<session, database, owners>>
  PROVE  TypeOK'
BY DEF TypeOK, Goto, SubIds, Txn, session, database, owners

LEMMA StepType ==
  ASSUME TypeOK, SessionInv, NEW j \in Jobs, Step(j)
  PROVE  TypeOK'
<1>1. CASE Start(j) \/ Check(j) \/ Parse(j) \/ Recheck(j) \/ FindService(j)
  BY <1>1, GotoType DEF Start, Check, Parse, Recheck, FindService, InFlight, Ended
<1>2. CASE AddService(j)
  BY <1>2 DEF AddService, Goto, InFlight, TypeOK, SubIds, Txn, database, owners
<1>3. CASE FindSub(j)
  <2>1. CASE \E s \in SubsWithKey(Key(j)) : Adopt(j, s)
    BY <2>1, AdoptType DEF SubsWithKey
  <2>2. CASE Goto(j, "addSub") /\ UNCHANGED <<session, database, owners>>
    BY <2>2, GotoType DEF InFlight
  <2> QED
    BY <1>3, <2>1, <2>2 DEF FindSub
<1>4. CASE AddSub(j)
  <2>1. CASE InsertSub(j)
    <3>1. NewRow(MsgOf[j]) \in Row
      BY NewRowType, MessagesAssumption
    <3>2. NewId(j) \in SubIds
      BY BoundsAssumption DEF NewId, SubIds, TypeOK
    <3> QED
      BY <2>1, <3>1, <3>2
      DEF InsertSub, Goto, InFlight, TypeOK, SubIds, Txn, database, owners
  <2>2. CASE Goto(j, "rereadSub") /\ UNCHANGED <<session, database, owners>>
    BY <2>2, GotoType DEF InFlight
  <2> QED
    BY <1>4, <2>1, <2>2 DEF AddSub
<1>5. CASE RereadSub(j)
  <2>1. CASE \E s \in SubsWithKey(Key(j)) : Adopt(j, s)
    BY <2>1, AdoptType DEF SubsWithKey
  <2>2. CASE Leave(j, "failed") /\ UNCHANGED owners
    BY <2>2, LeaveType DEF Ended
  <2> QED
    BY <1>5, <2>1, <2>2 DEF RereadSub
<1>6. CASE AddTxn(j)
  <2>1. CASE Goto(j, "refine") /\ UNCHANGED <<session, database, owners>>
    BY <2>1, GotoType DEF InFlight
  <2>2. CASE Leave(j, "failed") /\ UNCHANGED owners
    BY <2>2, LeaveType DEF Ended
  <2> QED
    BY <1>6, <2>1, <2>2 DEF AddTxn
<1>7. CASE Refine(j)
  <2> DEFINE S == ChargesOf(sub[j]) \cup {MsgOf[j]}
  <2>1. S \in SUBSET Messages /\ S # {}
    BY MessagesAssumption DEF ChargesOf, TypeOK, Txn
  <2>2. RefineFlag(RefinePeriod(mem[j], S), S) \in Row
    BY <2>1, RefineType DEF TypeOK
  <2>3. mem' \in [Jobs -> Row]
    BY <1>7, <2>2 DEF Refine, TypeOK
  <2> QED
    BY <1>7, <2>3 DEF Refine, Goto, InFlight, TypeOK, SubIds, Txn, database, owners
<1>8. CASE Commit(j)
  <2>0. sub[j] \in SubIds /\ (OwnSub(j) \/ sub[j] \in DOMAIN subs)
    BY <1>8 DEF Commit, SessionInv, HoldsTxn, ReferencesExist, TypeOK
  <2>1. ASSUME NEW s \in DOMAIN subs'
        PROVE  s \in SubIds /\ subs'[s] \in Row
    <3>1. subs'[s] = IF s # sub[j] THEN subs[s]
                     ELSE Flush(IF OwnSub(j) THEN loaded[j] ELSE subs[s], j)
      BY <1>8 DEF Commit
    <3>2. s \in DOMAIN subs \cup {sub[j]}
      BY <1>8 DEF Commit
    <3>3. (IF OwnSub(j) THEN loaded[j] ELSE subs[sub[j]]) \in Row
      BY <2>0 DEF TypeOK
    <3> QED
      BY <2>0, <3>1, <3>2, <3>3, FlushType DEF TypeOK
  <2>2. subs' \in [DOMAIN subs' -> Row] /\ DOMAIN subs' \subseteq SubIds
    <3>1. subs' = [s \in DOMAIN subs' |-> subs'[s]]
      BY <1>8 DEF Commit
    <3> QED
      BY <2>1, <3>1
  <2>3. services' \subseteq Slugs
    <3>1. j \in newSlug => Slug(j) \in Slugs
      BY MessagesAssumption, CatalogAssumption DEF SessionInv, Slug, Key
    <3> QED
      BY <1>8, <3>1 DEF Commit, TypeOK
  <2>4. txns' \subseteq Txn
    BY <1>8, <2>0 DEF Commit, TypeOK, Txn, SubIds
  <2> QED
    BY <1>8, <2>2, <2>3, <2>4, ForgetSessionType
    DEF Commit, Goto, Ended, TypeOK, SubIds, Txn, owners
<1> QED
  BY <1>1, <1>2, <1>3, <1>4, <1>5, <1>6, <1>7, <1>8 DEF Step

LEMMA RerunType ==
  ASSUME TypeOK, NEW j \in Jobs, Rerun(j)
  PROVE  TypeOK'
BY ForgetSessionType, BoundsAssumption
DEF TypeOK, Rerun, Goto, SubIds, Txn, database, owners

LEMMA DisconnectType ==
  ASSUME TypeOK, NEW a \in Accounts, DisconnectRead(a) \/ DisconnectDelete(a)
  PROVE  TypeOK'
<1>1. CASE DisconnectRead(a)
  BY <1>1 DEF TypeOK, DisconnectRead, session, database, SubIds, Txn
<1>2. CASE DisconnectDelete(a)
  BY <1>2 DEF TypeOK, DisconnectDelete, session, SubIds, Txn
<1> QED
  BY <1>1, <1>2

LEMMA WipeType ==
  ASSUME TypeOK, NEW u \in Users, Wipe(u)
  PROVE  TypeOK'
<1> USE DEF Wipe, Forget
<1>1. BlankRow \in Row
  BY DEF BlankRow, Row, Periods
<1>2. /\ pc' \in [Jobs -> {"queued"} \cup InFlight \cup Ended]
      /\ sub' \in [Jobs -> SubIds \cup {NoSub}]
  BY DEF TypeOK, Ended, SubIds
<1>3. loaded' \in [Jobs -> Row] /\ mem' \in [Jobs -> Row]
  BY <1>1 DEF TypeOK
<1>4. subs' \in [DOMAIN subs' -> Row] /\ DOMAIN subs' \subseteq SubIds
  BY DEF TypeOK, SubIds
<1>5. kept' \in [Accounts -> SUBSET Txn] /\ txns' \subseteq Txn
  BY DEF TypeOK, Txn, SubIds
<1> QED
  BY <1>2, <1>3, <1>4, <1>5 DEF TypeOK, SubIds, Txn

-----------------------------------------------------------------------------
(* What a session holds, action by action.                                  *)
LEMMA AdoptSession ==
  ASSUME IInv, NEW j \in Jobs, NEW s \in SubsWithKey(Key(j)), Adopt(j, s)
  PROVE  SessionInv'
<1>1. s \in DOMAIN subs /\ s \in SubIds /\ KeyOfSub(s) = Key(j) /\ s # NoSub
  BY ManualAssumption DEF SubsWithKey, IInv, TypeOK, SubIds
<1>2. \A i \in Jobs : pc'[i] = IF i = j THEN "addTxn" ELSE pc[i]
  BY DEF Adopt, Goto, IInv, TypeOK
<1>3. \A i \in Jobs : sub'[i] = IF i = j THEN s ELSE sub[i]
  BY DEF Adopt, IInv, TypeOK
<1>4. UNCHANGED <<attempt, newSlug, subs, accounts>>
  BY DEF Adopt, database, owners
<1> QED
  BY <1>1, <1>2, <1>3, <1>4
  DEF IInv, SessionInv, HoldsTxn, ReferencesExist, OwnSub, NewId, Slug, Account,
      Key, KeyOfSub

(* A job that gives its transaction up, for good or to be run again.        *)
LEMMA ForgetSessionSession ==
  ASSUME IInv, NEW j \in Jobs, ForgetSession(j),
         NEW to \in Ended \cup {"queued"}, Goto(j, to),
         \A i \in Jobs \ {j} : attempt'[i] = attempt[i],
         UNCHANGED <<subs, accounts>>
  PROVE  SessionInv'
<1>1. \A i \in Jobs : pc'[i] = IF i = j THEN to ELSE pc[i]
  BY DEF Goto, IInv, TypeOK
<1>2. \A i \in Jobs : sub'[i] = IF i = j THEN NoSub ELSE sub[i]
  BY DEF ForgetSession, IInv, TypeOK
<1>3. newSlug' = newSlug \ {j}
  BY DEF ForgetSession
<1> QED
  BY <1>1, <1>2, <1>3
  DEF IInv, SessionInv, HoldsTxn, ReferencesExist, OwnSub, NewId, Slug, Account,
      Key, KeyOfSub, Ended

LEMMA StepSession ==
  ASSUME IInv, NEW j \in Jobs, Step(j)
  PROVE  SessionInv'
<1> USE DEF IInv, SessionInv, TypeOK, OwnSub, NewId, HoldsTxn, Goto, session,
            database, owners, ReferencesExist, Slug, Account, Key, KeyOfSub
<1>1. CASE Start(j) \/ Check(j) \/ Parse(j)
  BY <1>1 DEF Start, Check, Parse
<1>2. CASE Recheck(j) \/ FindService(j)
  BY <1>2 DEF Recheck, FindService
<1>3. CASE AddService(j)
  BY <1>3 DEF AddService
<1>4. CASE FindSub(j)
  BY <1>4, AdoptSession DEF FindSub
<1>5. CASE AddSub(j)
  <2>1. CASE InsertSub(j)
    <3>1. NewId(j) # NoSub /\ KeyOfSub(NewId(j)) = Key(j)
      BY ManualAssumption, BoundsAssumption
    <3> QED
      BY <2>1, <3>1 DEF InsertSub
  <2>2. CASE Goto(j, "rereadSub") /\ UNCHANGED <<session, database, owners>>
    BY <1>5, <2>2 DEF AddSub
  <2> QED
    BY <1>5, <2>1, <2>2 DEF AddSub
<1>6. CASE RereadSub(j)
  BY <1>6, AdoptSession, ForgetSessionSession DEF RereadSub, Leave, Ended
<1>7. CASE AddTxn(j)
  <2>1. CASE /\ ReferencesExist(j)
             /\ Goto(j, "refine") /\ UNCHANGED <<session, database, owners>>
    <3>1. \A i \in Jobs : pc'[i] = IF i = j THEN "refine" ELSE pc[i]
      BY <2>1
    <3>2. pc[j] = "addTxn" /\ UNCHANGED <<sub, attempt, newSlug, subs, accounts>>
      BY <1>7, <2>1 DEF AddTxn
    <3> QED
      BY <2>1, <3>1, <3>2
  <2>2. CASE Leave(j, "failed") /\ UNCHANGED owners
    BY <2>2, ForgetSessionSession DEF Leave, Ended
  <2> QED
    BY <1>7, <2>1, <2>2 DEF AddTxn
<1>8. CASE Refine(j)
  BY <1>8 DEF Refine
<1>9. CASE Commit(j)
  BY <1>9 DEF Commit, ForgetSession
<1> QED
  BY <1>1, <1>2, <1>3, <1>4, <1>5, <1>6, <1>7, <1>8, <1>9 DEF Step

LEMMA RerunSession ==
  ASSUME IInv, NEW j \in Jobs, Rerun(j)
  PROVE  SessionInv'
BY ForgetSessionSession DEF Rerun, database, owners, IInv, TypeOK

(* The bot never takes away a row an open transaction refers to.            *)
LEMMA DisconnectSession ==
  ASSUME IInv, NEW a \in Accounts, DisconnectRead(a) \/ DisconnectDelete(a)
  PROVE  SessionInv'
BY DEF DisconnectRead, DisconnectDelete, IInv, SessionInv, HoldsTxn,
       ReferencesExist, OwnSub, NewId, session, database, Slug, Account, Key,
       KeyOfSub

LEMMA WipeSession ==
  ASSUME IInv, NEW u \in Users, Wipe(u)
  PROVE  SessionInv'
<1>1. \A j \in Jobs :
        /\ pc'[j] = IF j \in Blocked(u) THEN "failed" ELSE pc[j]
        /\ sub'[j] = IF j \in Blocked(u) THEN NoSub ELSE sub[j]
        /\ j \in newSlug' <=> j \in newSlug /\ j \notin Blocked(u)
        /\ attempt'[j] = attempt[j]
  BY DEF Wipe, Forget
<1>2. ASSUME NEW j \in Jobs, HoldsTxn(j)'
      PROVE  ReferencesExist(j)'
  <2>1. HoldsTxn(j) /\ User(j) # u /\ j \notin Blocked(u)
    BY <1>1, <1>2 DEF HoldsTxn, Wipe, Forget
  <2>2. ReferencesExist(j) /\ KeyOfSub(sub[j]) = Key(j)
    BY <2>1 DEF IInv, SessionInv, HoldsTxn
  <2>3. Account(j) \in accounts'
    BY <2>1, <2>2, MessagesAssumption, OwnersAssumption
    DEF ReferencesExist, Wipe, Forget, AccountsOf, Account, User, Key
  <2>4. sub[j] \in DOMAIN subs => sub[j] \in DOMAIN subs'
    BY <2>1, <2>2 DEF Wipe, Forget, SubsOf, User
  <2> QED
    BY <1>1, <2>1, <2>2, <2>3, <2>4 DEF ReferencesExist, OwnSub, NewId, Account
<1> QED
  BY <1>1, <1>2 DEF IInv, SessionInv, HoldsTxn, Slug, Key, KeyOfSub

-----------------------------------------------------------------------------
(* Ids are new: only Commit adds an id, its own job's of this attempt.      *)
LEMMA NextFreshIds ==
  ASSUME IInv, Next
  PROVE  FreshIds'
<1>1. ASSUME NEW j \in Jobs, Step(j), ~Commit(j)
      PROVE  FreshIds'
  <2>1. UNCHANGED <<attempt, subs>>
    BY <1>1 DEF Step, Start, Check, Parse, Recheck, FindService, AddService, FindSub,
         AddSub, InsertSub, RereadSub, Adopt, AddTxn, Leave, Refine, session,
         database, owners
  <2>2. pc[j] # "recorded" /\ \A i \in Jobs \ {j} : pc'[i] = pc[i]
    BY <1>1 DEF Step, Start, Check, Parse, Recheck, FindService, AddService, FindSub,
         AddSub, InsertSub, RereadSub, Adopt, AddTxn, Leave, Refine, Goto,
         IInv, TypeOK
  <2> QED
    BY <2>1, <2>2 DEF FreshIds, IInv
<1>2. ASSUME NEW j \in Jobs, Commit(j)
      PROVE  FreshIds'
  <2>1. DOMAIN subs' = DOMAIN subs \cup {sub[j]} /\ attempt' = attempt
    BY <1>2 DEF Commit
  <2>2. \A i \in Jobs : pc'[i] = IF i = j THEN "recorded" ELSE pc[i]
    BY <1>2 DEF Commit, Goto, IInv, TypeOK
  <2>3. sub[j] = <<j, attempt[j]>> \/ sub[j] \in DOMAIN subs
    BY <1>2 DEF Commit, IInv, SessionInv, HoldsTxn, ReferencesExist, OwnSub, NewId
  <2>4. pc[j] = "commit"
    BY <1>2 DEF Commit
  <2> QED
    BY <2>1, <2>2, <2>3, <2>4 DEF FreshIds, IInv
<1>3. ASSUME NEW j \in Jobs, Rerun(j)
      PROVE  FreshIds'
  <2>1. attempt[j] \in Nat /\ attempt'[j] = attempt[j] + 1 /\ subs' = subs
    BY <1>3, BoundsAssumption DEF Rerun, IInv, TypeOK, database, owners
  <2>2. \A i \in Jobs \ {j} : pc'[i] = pc[i] /\ attempt'[i] = attempt[i]
    BY <1>3 DEF Rerun, Goto, IInv, TypeOK
  <2> QED
    BY <2>1, <2>2 DEF FreshIds, IInv
<1>4. ASSUME NEW a \in Accounts, DisconnectRead(a) \/ DisconnectDelete(a)
      PROVE  FreshIds'
  BY <1>4 DEF DisconnectRead, DisconnectDelete, session, database, FreshIds, IInv
<1>6. ASSUME NEW u \in Users, Wipe(u)
      PROVE  FreshIds'
  <2>1. \A j \in Blocked(u) : pc[j] # "recorded"
    BY NewIdsAreSubs DEF Blocked, OwnSub, IInv, SessionInv
  <2>2. \A j \in Jobs : pc'[j] = IF j \in Blocked(u) THEN "failed" ELSE pc[j]
    BY <1>6 DEF Wipe, Forget
  <2>3. DOMAIN subs' \subseteq DOMAIN subs /\ attempt' = attempt
    BY <1>6 DEF Wipe, Forget
  <2> QED
    BY <2>1, <2>2, <2>3 DEF FreshIds, IInv
<1>5. ASSUME Drained
      PROVE  FreshIds'
  BY <1>5 DEF Drained, vars, session, database, owners, FreshIds, IInv
<1> QED
  BY <1>1, <1>2, <1>3, <1>4, <1>5, <1>6 DEF Next

LEMMA NextIInv == IInv /\ [Next]_vars => IInv'
<1> SUFFICES ASSUME IInv, [Next]_vars PROVE IInv'
  OBVIOUS
<1>1. ASSUME NEW j \in Jobs, Step(j) PROVE TypeOK' /\ SessionInv'
  BY <1>1, StepType, StepSession DEF IInv
<1>2. ASSUME NEW j \in Jobs, Rerun(j) PROVE TypeOK' /\ SessionInv'
  BY <1>2, RerunType, RerunSession DEF IInv
<1>3. ASSUME NEW a \in Accounts, DisconnectRead(a) \/ DisconnectDelete(a)
      PROVE  TypeOK' /\ SessionInv'
  BY <1>3, DisconnectType, DisconnectSession DEF IInv
<1>5. ASSUME NEW u \in Users, Wipe(u) PROVE TypeOK' /\ SessionInv'
  BY <1>5, WipeType, WipeSession DEF IInv
<1>4. CASE UNCHANGED vars
  BY <1>4 DEF vars, session, database, owners, IInv, TypeOK, SessionInv, FreshIds,
       HoldsTxn, ReferencesExist, OwnSub, NewId, Slug, Account, Key, KeyOfSub,
       SubIds, Txn
<1> QED
  BY <1>1, <1>2, <1>3, <1>4, <1>5, NextFreshIds DEF Next, Drained, IInv

LEMMA InitIInv == Init => IInv
BY InitType, InitSubs, ManualAssumption
DEF Init, IInv, SessionInv, FreshIds, HoldsTxn

(* Every reachable state is well typed.                                     *)
THEOREM TypeCorrect == Spec => []TypeOK
<1>1. IInv => TypeOK
  BY DEF IInv
<1> QED
  BY <1>1, InitIInv, NextIInv, PTL DEF Spec

THEOREM SpecIInv == Spec => []IInv
BY InitIInv, NextIInv, PTL DEF Spec

-----------------------------------------------------------------------------
(***************************************************************************)
(* One transaction per message.  The committed rows alone are not enough:   *)
(* an open insert excludes every other open or committed one.               *)
(***************************************************************************)
OpenInsertsAreAlone ==
  \A j \in Jobs :
    HoldsTxn(j) =>
      /\ \A t \in txns : MsgOf[t.job] # MsgOf[j]
      /\ \A i \in Jobs \ {j} : HoldsTxn(i) => MsgOf[i] # MsgOf[j]

TxnInv == IInv /\ OneChargePerMessage /\ OpenInsertsAreAlone

(* Steps that neither start an insert nor commit one.                       *)
LEMMA QuietStepTxn ==
  ASSUME TxnInv, txns' \subseteq txns, \A i \in Jobs : HoldsTxn(i)' => HoldsTxn(i)
  PROVE  OneChargePerMessage' /\ OpenInsertsAreAlone'
BY DEF TxnInv, OneChargePerMessage, OpenInsertsAreAlone

LEMMA StepTxn ==
  ASSUME TxnInv, NEW j \in Jobs, Step(j)
  PROVE  OneChargePerMessage' /\ OpenInsertsAreAlone'
<1> USE DEF HoldsTxn
<1>0. pc \in [Jobs -> {"queued"} \cup InFlight \cup Ended]
  BY DEF TxnInv, IInv, TypeOK
<1>1. CASE Start(j) \/ Check(j) \/ Parse(j) \/ Recheck(j) \/ FindService(j) \/ AddService(j)
  <2>1. txns' = txns /\ \A i \in Jobs : HoldsTxn(i)' => HoldsTxn(i)
    BY <1>0, <1>1
    DEF Start, Check, Parse, Recheck, FindService, AddService, Goto, database, owners
  <2> QED
    BY <2>1, QuietStepTxn
<1>2. CASE FindSub(j) \/ AddSub(j) \/ RereadSub(j)
  <2>1. txns' = txns /\ \A i \in Jobs : HoldsTxn(i)' => HoldsTxn(i)
    BY <1>0, <1>2
    DEF FindSub, AddSub, InsertSub, RereadSub, Adopt, Leave, Goto, database, owners
  <2> QED
    BY <2>1, QuietStepTxn
<1>3. CASE AddTxn(j)
  <2>1. CASE ~Recorded(MsgOf[j]) /\ ReferencesExist(j) /\ Goto(j, "refine")
             /\ txns' = txns
    <3>1. \A i \in Jobs : pc'[i] = IF i = j THEN "refine" ELSE pc[i]
      BY <1>0, <2>1 DEF Goto
    <3>2. \A i \in Jobs \ {j} : HoldsTxn(i) => MsgOf[i] # MsgOf[j]
      BY <1>3 DEF AddTxn, OpenInsert
    <3>3. \A t \in txns : MsgOf[t.job] # MsgOf[j]
      BY <2>1 DEF Recorded, ReferencesExist, Account
    <3> QED
      BY <2>1, <3>1, <3>2, <3>3
      DEF TxnInv, OneChargePerMessage, OpenInsertsAreAlone
  <2>2. CASE Leave(j, "failed")
    <3>1. txns' = txns /\ \A i \in Jobs : HoldsTxn(i)' => HoldsTxn(i)
      BY <1>0, <2>2 DEF Leave, Goto, database, owners
    <3> QED
      BY <3>1, QuietStepTxn
  <2> QED
    BY <1>3, <2>1, <2>2 DEF AddTxn, database, owners
<1>4. CASE Refine(j)
  <2>1. txns' = txns /\ \A i \in Jobs : HoldsTxn(i)' => HoldsTxn(i)
    BY <1>0, <1>4 DEF Refine, Goto, database, owners
  <2> QED
    BY <2>1, QuietStepTxn
<1>5. CASE Commit(j)
  <2>1. \A i \in Jobs : pc'[i] = IF i = j THEN "recorded" ELSE pc[i]
    BY <1>0, <1>5 DEF Commit, Goto
  <2>2. txns' = txns \cup {[job |-> j, sub |-> sub[j]]} /\ HoldsTxn(j)
    BY <1>5 DEF Commit
  <2> QED
    BY <2>1, <2>2 DEF TxnInv, OneChargePerMessage, OpenInsertsAreAlone
<1> QED
  BY <1>1, <1>2, <1>3, <1>4, <1>5 DEF Step

LEMMA NextTxnInv == TxnInv /\ [Next]_vars => TxnInv'
<1> SUFFICES ASSUME TxnInv, [Next]_vars PROVE TxnInv'
  OBVIOUS
<1>1. IInv'
  BY NextIInv DEF TxnInv
<1>2. ASSUME NEW j \in Jobs, Rerun(j)
      PROVE  OneChargePerMessage' /\ OpenInsertsAreAlone'
  <2>1. txns' = txns /\ \A i \in Jobs : HoldsTxn(i)' => HoldsTxn(i)
    BY <1>2 DEF Rerun, Goto, HoldsTxn, database, owners, TxnInv, IInv, TypeOK
  <2> QED
    BY <2>1, QuietStepTxn
<1>3. ASSUME NEW a \in Accounts, DisconnectRead(a) \/ DisconnectDelete(a)
      PROVE  OneChargePerMessage' /\ OpenInsertsAreAlone'
  BY <1>3, QuietStepTxn DEF DisconnectRead, DisconnectDelete, database, HoldsTxn
<1>5. ASSUME NEW u \in Users, Wipe(u)
      PROVE  OneChargePerMessage' /\ OpenInsertsAreAlone'
  <2>1. txns' \subseteq txns /\ \A i \in Jobs : HoldsTxn(i)' => HoldsTxn(i)
    BY <1>5 DEF Wipe, Forget, HoldsTxn
  <2> QED
    BY <2>1, QuietStepTxn
<1>4. CASE UNCHANGED vars
  BY <1>1, <1>4, QuietStepTxn DEF vars, database, owners, HoldsTxn, TxnInv
<1> QED
  BY <1>1, <1>2, <1>3, <1>4, <1>5, StepTxn DEF Next, Drained, TxnInv

(* A message never has two transactions, whatever jobs carry it and however *)
(* often they are run again.                                                *)
THEOREM RecordedOnce == Spec => []OneChargePerMessage
<1>1. Init => TxnInv
  BY InitIInv DEF Init, TxnInv, OneChargePerMessage, OpenInsertsAreAlone, HoldsTxn
<1>2. TxnInv => OneChargePerMessage
  BY DEF TxnInv
<1> QED
  BY <1>1, <1>2, NextTxnInv, PTL DEF Spec

-----------------------------------------------------------------------------
(* Transactions and their subscriptions come and go together.               *)
LEMMA NextCharges ==
  IInv /\ ChargesHaveTheirSubscription /\ [Next]_vars
    => ChargesHaveTheirSubscription'
<1> SUFFICES ASSUME IInv, ChargesHaveTheirSubscription, [Next]_vars
             PROVE  ChargesHaveTheirSubscription'
  OBVIOUS
<1> USE DEF ChargesHaveTheirSubscription
<1>0. \A s : KeyOfSub(s)' = KeyOfSub(s)
  BY DEF KeyOfSub, Key
<1>1. ASSUME NEW j \in Jobs, Step(j), ~Commit(j)
      PROVE  txns' = txns /\ subs' = subs
  BY <1>1 DEF Step, Start, Check, Parse, Recheck, FindService, AddService, FindSub,
       AddSub, InsertSub, RereadSub, Adopt, AddTxn, Leave, Refine, session,
       database, owners
<1>2. ASSUME NEW j \in Jobs, Commit(j)
      PROVE  ChargesHaveTheirSubscription'
  <2>1. DOMAIN subs' = DOMAIN subs \cup {sub[j]}
    BY <1>2 DEF Commit
  <2>2. txns' = txns \cup {[job |-> j, sub |-> sub[j]]}
    BY <1>2 DEF Commit
  <2>3. KeyOfSub(sub[j]) = Key(j)
    BY <1>2 DEF Commit, IInv, SessionInv
  <2> QED
    BY <1>0, <2>1, <2>2, <2>3 DEF Key
<1>3. ASSUME NEW j \in Jobs, Rerun(j)
      PROVE  txns' = txns /\ subs' = subs
  BY <1>3 DEF Rerun, database, owners
<1>4. ASSUME NEW a \in Accounts, DisconnectRead(a) \/ DisconnectDelete(a)
      PROVE  txns' \subseteq txns /\ subs' = subs
  BY <1>4 DEF DisconnectRead, DisconnectDelete, database
<1>6. ASSUME NEW u \in Users, Wipe(u)
      PROVE  ChargesHaveTheirSubscription'
  BY <1>0, <1>6 DEF Wipe, Forget, Key
<1>5. CASE UNCHANGED vars
  BY <1>5 DEF vars, database, owners, KeyOfSub, Key
<1> QED
  BY <1>0, <1>1, <1>2, <1>3, <1>4, <1>5, <1>6 DEF Next, Drained, Key

(* No orphan transactions, and none under another service or sender.        *)
THEOREM NoOrphanCharges == Spec => []ChargesHaveTheirSubscription
<1>1. Init => ChargesHaveTheirSubscription
  BY DEF Init, ChargesHaveTheirSubscription
<1> QED
  BY <1>1, NextCharges, SpecIInv, PTL DEF Spec

-----------------------------------------------------------------------------
(***************************************************************************)
(* A wiped user stays wiped.  What a job commits belongs to an account that *)
(* still exists, and accounts exist only for users who have not wiped.      *)
(***************************************************************************)
LEMMA CommitNeedsUser ==
  ASSUME IInv, WipeLeavesNothing, NEW j \in Jobs, HoldsTxn(j)
  PROVE  User(j) \in users
<1>1. Account(j) \in accounts
  BY DEF IInv, SessionInv, ReferencesExist
<1> QED
  BY <1>1, MessagesAssumption, OwnersAssumption
  DEF WipeLeavesNothing, Account, User, Key

LEMMA NextWipe ==
  IInv /\ ChargesHaveTheirSubscription /\ WipeLeavesNothing /\ [Next]_vars
    => WipeLeavesNothing'
<1> SUFFICES ASSUME IInv, ChargesHaveTheirSubscription, WipeLeavesNothing,
                    [Next]_vars
             PROVE  WipeLeavesNothing'
  OBVIOUS
<1>0. /\ \A s : KeyOfSub(s)' = KeyOfSub(s)
      /\ \A t : User(t.job)' = User(t.job)
  BY DEF KeyOfSub, User, Key
<1>1. CASE UNCHANGED <<subs, txns, users, accounts>>
  BY <1>0, <1>1 DEF WipeLeavesNothing
<1>2. ASSUME NEW j \in Jobs, Step(j), ~Commit(j)
      PROVE  UNCHANGED <<subs, txns, users, accounts>>
  BY <1>2 DEF Step, Start, Check, Parse, Recheck, FindService, AddService,
       FindSub, AddSub, InsertSub, RereadSub, Adopt, AddTxn, Leave, Refine,
       session, database, owners
<1>3. ASSUME NEW j \in Jobs, Commit(j)
      PROVE  WipeLeavesNothing'
  <2>1. HoldsTxn(j)
    BY <1>3 DEF Commit, HoldsTxn
  <2>2. User(j) \in users /\ KeyOfSub(sub[j]) = Key(j)
    BY <2>1, CommitNeedsUser DEF IInv, SessionInv, HoldsTxn
  <2>3. /\ DOMAIN subs' = DOMAIN subs \cup {sub[j]}
        /\ txns' = txns \cup {[job |-> j, sub |-> sub[j]]}
        /\ users' = users /\ accounts' = accounts
    BY <1>3 DEF Commit, owners
  <2> QED
    BY <1>0, <2>2, <2>3 DEF WipeLeavesNothing, User
<1>4. ASSUME NEW j \in Jobs, Rerun(j)
      PROVE  UNCHANGED <<subs, txns, users, accounts>>
  BY <1>4 DEF Rerun, database, owners
<1>5. ASSUME NEW a \in Accounts, DisconnectRead(a) \/ DisconnectDelete(a)
      PROVE  WipeLeavesNothing'
  <2>1. /\ UNCHANGED <<subs, users>>
        /\ txns' \subseteq txns /\ accounts' \subseteq accounts
    BY <1>5 DEF DisconnectRead, DisconnectDelete, database
  <2> QED
    BY <1>0, <2>1 DEF WipeLeavesNothing
<1>6. ASSUME NEW u \in Users, Wipe(u)
      PROVE  WipeLeavesNothing'
  <2>1. users' = users \ {u}
    BY <1>6 DEF Wipe, Forget
  <2>2. ASSUME NEW s \in DOMAIN subs' PROVE UserOf[KeyOfSub(s)] \in users'
    BY <1>6, <2>1 DEF Wipe, Forget, SubsOf, WipeLeavesNothing
  <2>3. ASSUME NEW a \in accounts' PROVE OwnerOf[a] \in users'
    BY <1>6, <2>1 DEF Wipe, Forget, AccountsOf, WipeLeavesNothing, IInv, TypeOK
  <2>4. ASSUME NEW t \in txns' PROVE User(t.job) \in users'
    BY <1>6, <2>1
    DEF Wipe, Forget, SubsOf, WipeLeavesNothing, ChargesHaveTheirSubscription, User
  <2> QED
    BY <1>0, <2>2, <2>3, <2>4 DEF WipeLeavesNothing
<1> QED
  BY <1>1, <1>2, <1>3, <1>4, <1>5, <1>6
  DEF Next, Drained, vars, database, owners

(* After a wipe nothing of the user is left or comes back, whatever his or  *)
(* her jobs were doing.                                                     *)
THEOREM WipedForGood == Spec => []WipeLeavesNothing
<1>1. Init => WipeLeavesNothing
  BY InitSubs, ManualAssumption, OwnersAssumption
  DEF Init, WipeLeavesNothing, KeyOfSub
<1> QED
  BY <1>1, NextWipe, SpecIInv, NoOrphanCharges, PTL DEF Spec

-----------------------------------------------------------------------------
(***************************************************************************)
(* The flag of a subscription is never cleared: a job can only have set it  *)
(* in its copy, and a commit writes a column only if the job changed it.    *)
(***************************************************************************)
CopiesKeepTheFlag ==
  \A j \in Jobs : ~loaded[j].recurring => ~mem[j].recurring

LEMMA RefineKeepsTheFlag ==
  ASSUME NEW row \in Row, NEW S
  PROVE  ~row.recurring => ~RefineFlag(RefinePeriod(row, S), S).recurring
BY DEF RefineFlag, RefinePeriod, Row

LEMMA NextCopies == IInv /\ CopiesKeepTheFlag /\ [Next]_vars => CopiesKeepTheFlag'
<1> SUFFICES ASSUME IInv, CopiesKeepTheFlag, [Next]_vars
             PROVE  CopiesKeepTheFlag'
  OBVIOUS
<1> USE DEF CopiesKeepTheFlag
<1>0. loaded \in [Jobs -> Row] /\ mem \in [Jobs -> Row]
  BY DEF IInv, TypeOK
<1>1. CASE UNCHANGED <<loaded, mem>>
  BY <1>1
<1>2. ASSUME NEW j \in Jobs, ForgetSession(j)
      PROVE  CopiesKeepTheFlag'
  BY <1>0, <1>2 DEF ForgetSession
<1>3. ASSUME NEW j \in Jobs, NEW s \in DOMAIN subs, Adopt(j, s)
      PROVE  CopiesKeepTheFlag'
  BY <1>0, <1>3 DEF Adopt
<1>4. ASSUME NEW j \in Jobs, InsertSub(j)
      PROVE  CopiesKeepTheFlag'
  BY <1>0, <1>4 DEF InsertSub
<1>5. ASSUME NEW j \in Jobs, Refine(j)
      PROVE  CopiesKeepTheFlag'
  <2> DEFINE S == ChargesOf(sub[j]) \cup {MsgOf[j]}
  <2>1. /\ loaded' = loaded
        /\ mem' = [mem EXCEPT ![j] = RefineFlag(RefinePeriod(mem[j], S), S)]
    BY <1>5 DEF Refine
  <2>2. ~mem[j].recurring => ~RefineFlag(RefinePeriod(mem[j], S), S).recurring
    BY <1>0, RefineKeepsTheFlag
  <2>3. ASSUME NEW i \in Jobs, ~loaded'[i].recurring
        PROVE  ~mem'[i].recurring
    <3>1. CASE i = j
      BY <1>0, <2>1, <2>2, <2>3, <3>1
    <3>2. CASE i # j
      BY <1>0, <2>1, <2>3, <3>2
    <3> QED
      BY <3>1, <3>2
  <2> QED
    BY <2>3
<1>6. ASSUME NEW j \in Jobs, Step(j)
      PROVE  CopiesKeepTheFlag'
  BY <1>1, <1>2, <1>3, <1>4, <1>5, <1>6
  DEF Step, Start, Check, Parse, Recheck, FindService, AddService, FindSub,
      AddSub, RereadSub, SubsWithKey, AddTxn, Leave, Commit, session
<1>7. ASSUME NEW u \in Users, Wipe(u)
      PROVE  CopiesKeepTheFlag'
  BY <1>0, <1>7 DEF Wipe, Forget
<1> QED
  BY <1>1, <1>2, <1>6, <1>7
  DEF Next, Rerun, DisconnectRead, DisconnectDelete, Drained, vars, session

(* What one step does to a committed flag.                                  *)
FlagsStay ==
  \A s \in DOMAIN subs \cap DOMAIN subs' :
    ~subs[s].recurring => ~subs'[s].recurring

LEMMA StepKeepsFlags == IInv /\ CopiesKeepTheFlag /\ [Next]_vars => FlagsStay
<1> SUFFICES ASSUME IInv, CopiesKeepTheFlag, [Next]_vars
             PROVE  FlagsStay
  OBVIOUS
<1>1. CASE subs' = subs
  BY <1>1 DEF FlagsStay
<1>2. ASSUME NEW j \in Jobs, Step(j), ~Commit(j)
      PROVE  subs' = subs
  BY <1>2 DEF Step, Start, Check, Parse, Recheck, FindService, AddService,
       FindSub, AddSub, InsertSub, RereadSub, Adopt, AddTxn, Leave, Refine,
       database
<1>3. ASSUME NEW j \in Jobs, Commit(j)
      PROVE  FlagsStay
  <2>1. SUFFICES ASSUME NEW s \in DOMAIN subs, ~subs[s].recurring
                 PROVE  ~subs'[s].recurring
    BY DEF FlagsStay
  <2>2. subs'[s] = IF s # sub[j] THEN subs[s]
                   ELSE Flush(IF OwnSub(j) THEN loaded[j] ELSE subs[s], j)
    BY <1>3 DEF Commit
  <2>3. CASE s # sub[j]
    BY <2>1, <2>2, <2>3
  <2>4. CASE s = sub[j]
    <3>1. pc[j] = "commit" /\ attempt[j] \in Nat
      BY <1>3, BoundsAssumption DEF Commit, IInv, TypeOK
    <3>2. ~OwnSub(j)
      BY <2>4, <3>1 DEF OwnSub, NewId, IInv, FreshIds
    <3>3. mem[j].recurring \in BOOLEAN /\ loaded[j].recurring \in BOOLEAN
      BY DEF IInv, TypeOK, Row
    <3>4. Flush(subs[s], j).recurring =
            IF mem[j].recurring # loaded[j].recurring
            THEN mem[j].recurring ELSE subs[s].recurring
      BY DEF Flush
    <3> QED
      BY <2>1, <2>2, <2>4, <3>2, <3>3, <3>4 DEF CopiesKeepTheFlag
  <2> QED
    BY <2>3, <2>4
<1>4. ASSUME NEW u \in Users, Wipe(u)
      PROVE  FlagsStay
  BY <1>4 DEF Wipe, Forget, FlagsStay
<1> QED
  BY <1>1, <1>2, <1>3, <1>4
  DEF Next, Rerun, DisconnectRead, DisconnectDelete, Drained, vars, database

(* No job of any number of concurrent ones takes a one-off flag back.       *)
THEOREM FlagsNeverCleared == Spec => FlagNeverClears
<1>1. Init => CopiesKeepTheFlag
  BY DEF Init, CopiesKeepTheFlag
<1>2. FlagsStay =>
        \A s \in DOMAIN subs \cap DOMAIN subs' :
          ~subs[s].recurring => ~subs'[s].recurring
  BY DEF FlagsStay
<1> QED
  BY <1>1, <1>2, NextCopies, StepKeepsFlags, SpecIInv, PTL DEF Spec, FlagNeverClears
=============================================================================
