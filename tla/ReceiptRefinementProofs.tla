----------------------- MODULE ReceiptRefinementProofs -----------------------
(***************************************************************************)
(* The receipt pipeline implements the ledger: initial states are initial   *)
(* states of the ledger, and every step is one of its steps or invisible.   *)
(***************************************************************************)
EXTENDS ReceiptRefinement, ReceiptPipelineProofs

(* What the refinement needs to know of a state.                            *)
LedgerInv == TxnInv /\ ChargesHaveTheirSubscription

(* The ledger's subscriptions, in the state of the pipeline.                *)
Opened == [s \in DOMAIN subs |-> KeyOfSub(s)]

(* The key of a subscription, of a job and of an account do not change.     *)
LEMMA KeysStay ==
  /\ \A s : KeyOfSub(s)' = KeyOfSub(s)
  /\ \A j : Key(j)' = Key(j) /\ Account(j)' = Account(j)
BY DEF KeyOfSub, Key, Account

-----------------------------------------------------------------------------
(* A commit enters the job's message, which nobody else has entered, under  *)
(* its own new subscription or one of its key that is there.                *)
LEMMA CommitEnters ==
  ASSUME LedgerInv, NEW j \in Jobs, Commit(j)
  PROVE  Ledger!Enter(j)
<1> DEFINE s0 == sub[j]
<1>1. /\ HoldsTxn(j) /\ s0 \in SubIds /\ KeyOfSub(s0) = Key(j)
      /\ Account(j) \in accounts /\ accounts' = accounts
  BY DEF Commit, LedgerInv, TxnInv, IInv, TypeOK, SessionInv, HoldsTxn,
         ReferencesExist, owners, SubIds, NewId, OwnSub
<1>2. /\ txns' = txns \cup {[job |-> j, sub |-> s0]}
      /\ DOMAIN subs' = DOMAIN subs \cup {s0}
  BY DEF Commit
<1>3. \A t \in txns : MsgOf[t.job] # MsgOf[j]
  BY <1>1 DEF LedgerInv, TxnInv, OpenInsertsAreAlone
<1>4. s0 \in DOMAIN subs => Opened[s0] = KeyOf[MsgOf[j]]
  BY <1>1 DEF Opened, Key
<1>5. Opened' = [x \in DOMAIN Opened \cup {s0} |->
                   IF x = s0 THEN KeyOf[MsgOf[j]] ELSE Opened[x]]
  BY <1>1, <1>2, KeysStay DEF Opened, Key
<1> HIDE DEF s0
<1> QED
  BY <1>1, <1>2, <1>3, <1>4, <1>5 DEF Ledger!Enter, Opened, Account

(* Deleting an account disconnects it.                                      *)
LEMMA DeleteDisconnects ==
  ASSUME LedgerInv, NEW a \in Accounts, DisconnectDelete(a)
  PROVE  Ledger!Disconnect(a)
<1>1. /\ a \in accounts /\ accounts' = accounts \ {a} /\ subs' = subs
      /\ txns' \subseteq txns
      /\ \A t \in txns : AccountOf[MsgOf[t.job]] # a => t \in txns'
  BY DEF DisconnectDelete, LedgerInv, TxnInv, IInv, TypeOK
<1>2. Opened' = Opened
  BY <1>1, KeysStay DEF Opened
<1> QED
  BY <1>1, <1>2 DEF Ledger!Disconnect, Ledger!Account, Opened

(* A wipe takes every entry and every subscription of the user.             *)
LEMMA WipeWipes ==
  ASSUME LedgerInv, NEW u \in Users, Wipe(u)
  PROVE  Ledger!Wipe(u)
<1>1. /\ accounts' = {a \in accounts : OwnerOf[a] # u}
      /\ DOMAIN subs' = DOMAIN subs \ SubsOf(u)
      /\ txns' = {t \in txns : t.sub \notin SubsOf(u)}
  BY DEF Wipe, Forget, AccountsOf, LedgerInv, TxnInv, IInv, TypeOK
<1>2. \A t \in txns : t.sub \in SubsOf(u) <=> UserOf[KeyOf[MsgOf[t.job]]] = u
  BY DEF LedgerInv, ChargesHaveTheirSubscription, SubsOf, Key
<1>3. txns' = {t \in txns : UserOf[KeyOf[MsgOf[t.job]]] # u}
  BY <1>1, <1>2
<1>4. Opened' = [s \in {x \in DOMAIN Opened : UserOf[Opened[x]] # u} |-> Opened[s]]
  BY <1>1, KeysStay DEF Opened, SubsOf
<1> QED
  BY <1>1, <1>3, <1>4 DEF Ledger!Wipe, Ledger!User, Opened

(* Every other step is invisible.                                           *)
LEMMA OtherStepsStutter ==
  ASSUME UNCHANGED <<subs, txns, accounts>>
  PROVE  UNCHANGED Ledger!vars
<1>1. Opened' = Opened
  BY KeysStay DEF Opened
<1> QED
  BY <1>1 DEF Ledger!vars, Opened

LEMMA NextLedger ==
  ASSUME LedgerInv, [Next]_vars
  PROVE  [Ledger!Next]_(Ledger!vars)
<1>1. ASSUME NEW j \in Jobs, Step(j)
      PROVE  Ledger!Next \/ UNCHANGED Ledger!vars
  <2>1. CASE Commit(j)
    BY <2>1, CommitEnters DEF Ledger!Next
  <2>2. CASE ~Commit(j)
    <3>1. UNCHANGED <<subs, txns, accounts>>
      BY <1>1, <2>2
      DEF Step, Start, Check, Parse, Recheck, FindService, AddService, FindSub, AddSub,
          InsertSub, RereadSub, Adopt, AddTxn, Leave, Refine, session, database, owners
    <3> QED
      BY <3>1, OtherStepsStutter
  <2> QED
    BY <2>1, <2>2
<1>2. ASSUME NEW j \in Jobs, Rerun(j)
      PROVE  UNCHANGED Ledger!vars
  BY <1>2, OtherStepsStutter DEF Rerun, database, owners
<1>3. ASSUME NEW a \in Accounts, DisconnectRead(a)
      PROVE  UNCHANGED Ledger!vars
  BY <1>3, OtherStepsStutter DEF DisconnectRead, database
<1>4. ASSUME NEW a \in Accounts, DisconnectDelete(a)
      PROVE  Ledger!Next
  BY <1>4, DeleteDisconnects DEF Ledger!Next
<1>5. ASSUME NEW u \in Users, Wipe(u)
      PROVE  Ledger!Next
  BY <1>5, WipeWipes DEF Ledger!Next
<1>6. CASE UNCHANGED vars
  BY <1>6, OtherStepsStutter DEF vars, database, owners
<1> QED
  BY <1>1, <1>2, <1>3, <1>4, <1>5, <1>6 DEF Next, Drained

LEMMA InitLedger == Init => Ledger!Init
<1> SUFFICES ASSUME Init PROVE Ledger!Init
  OBVIOUS
<1>1. DOMAIN ManualKey = Manual
  BY ManualAssumption
<1>2. Opened = [s \in DOMAIN Opened |-> ManualKey[s]] /\ DOMAIN Opened \subseteq Manual
  BY InitSubs DEF Opened, KeyOfSub
<1> QED
  BY <1>1, <1>2 DEF Init, Ledger!Init, Opened

(* A dozen interleaved statements, crashes, disconnects and wipes look to   *)
(* the user like a ledger in which a receipt is entered once, at one        *)
(* moment, under a subscription of its key.                                 *)
THEOREM PipelineImplementsLedger == Spec => ImplementsLedger
<1>1. Init => TxnInv /\ ChargesHaveTheirSubscription
  BY InitIInv
  DEF Init, TxnInv, OneChargePerMessage, OpenInsertsAreAlone, HoldsTxn,
      ChargesHaveTheirSubscription
<1>2. TxnInv /\ ChargesHaveTheirSubscription => LedgerInv
  BY DEF LedgerInv
<1>3. TxnInv => IInv
  BY DEF TxnInv
<1> QED
  BY <1>1, <1>2, <1>3, InitLedger, NextLedger, NextTxnInv, NextCharges, PTL
  DEF Spec, ImplementsLedger, Ledger!Spec
=============================================================================
