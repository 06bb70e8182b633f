--------------------------- MODULE MailScanProofs ---------------------------
(***************************************************************************)
(* Proofs about MailScan, for any number of mailboxes, messages, scans,     *)
(* requests, links and failures, and any length of a page.                  *)
(***************************************************************************)
EXTENDS MailScan, FiniteSetTheorems, TLAPS

-----------------------------------------------------------------------------
(* Types.  What a scan holds depends on how far it is.                      *)
Phases == {"idle", "token", "history", "bootstrap", "fetch", "profile", "enqueue", "error"}
ScanType ==
  [pc : Phases, id : Ids \cup {NoId}, row : Row, refreshed : BOOLEAN,
   listed : SUBSET Nat, pos : Nat \cup {NoCursor}, booted : BOOLEAN,
   upto : Nat \cup {NoCursor}, left : SUBSET Nat]
RequestType ==
  [pc : {"idle", "exchange", "insert", "update", "enqueue", "done"},
   url : Urls \cup {0}, box : Boxes, into : Ids \cup {NoId}, over : Boxes,
   was : {"active", "error"}]

Phased(s) ==
  /\ scan[s].left \subseteq scan[s].listed
  /\ scan[s].left # {} => scan[s].pc \in {"profile", "enqueue"}
  /\ scan[s].pc \in {"token", "history"} => ~scan[s].booted
  /\ scan[s].pc = "history" => scan[s].row.cursor \in Nat /\ scan[s].pos \in Nat
  /\ scan[s].pc = "fetch" /\ ~scan[s].booted =>
       scan[s].row.cursor \in Nat /\ scan[s].upto \in Nat
  /\ scan[s].pc = "fetch" /\ scan[s].booted => scan[s].pos \in Nat
  /\ scan[s].pc = "profile" => scan[s].pos \in Nat
  /\ scan[s].pc = "enqueue" => scan[s].upto \in Nat

TypeInv ==
  /\ mail \in [Boxes -> Nat] /\ forgotten \in [Boxes -> Nat]
  /\ urls \in 0..MaxUrls /\ states \subseteq 1..urls
  /\ DOMAIN accounts \subseteq Ids /\ accounts \in [DOMAIN accounts -> Row]
  /\ callback \in [Callbacks -> RequestType]
  /\ leaving \subseteq Ids /\ moved \subseteq Ids /\ raced \in BOOLEAN
  /\ queue \in [Ids -> 0..MaxQueue]
  /\ scan \in [Scanners -> ScanType]
  /\ \A s \in Scanners : Phased(s)
  /\ upsets \in 0..MaxUpsets

LEMMA SomeBoxIsABox == SomeBox \in Boxes
BY MailScanAssumption DEF SomeBox

LEMMA NewRowIsARow ==
  ASSUME NEW b \in Boxes
  PROVE  NewRow(b) \in Row
BY DEF NewRow, Row, Token, NoCursor

LEMMA IdleScan == Idle \in ScanType
BY SomeBoxIsABox, NewRowIsARow DEF Idle, ScanType, Phases, NoCursor

LEMMA MinOfTwo ==
  ASSUME NEW a \in Int, NEW b \in Int
  PROVE  Min({a, b}) = IF a <= b THEN a ELSE b
BY DEF Min

LEMMA EnqueuedType ==
  ASSUME queue \in [Ids -> 0..MaxQueue], NEW S
  PROVE  Enqueued(S) \in [Ids -> 0..MaxQueue]
BY MailScanAssumption DEF Enqueued

LEMMA TypeInvInit == Init => TypeInv
<1> SUFFICES ASSUME Init PROVE TypeInv
  OBVIOUS
<1>1. \A s \in Scanners : scan[s] = Idle
  BY DEF Init
<1>2. \A s \in Scanners : Phased(s)
  BY <1>1 DEF Phased, Idle
<1>3. scan \in [Scanners -> ScanType]
  BY IdleScan DEF Init
<1>4. callback \in [Callbacks -> RequestType]
  BY SomeBoxIsABox DEF Init, Waiting, RequestType
<1>5. queue \in [Ids -> 0..MaxQueue]
  BY MailScanAssumption DEF Init
<1>6. accounts \in [DOMAIN accounts -> Row] /\ DOMAIN accounts = {}
  BY DEF Init
<1>7. mail \in [Boxes -> Nat] /\ forgotten \in [Boxes -> Nat]
  BY DEF Init
<1>8. urls \in 0..MaxUrls /\ states \subseteq 1..urls /\ upsets \in 0..MaxUpsets
  BY MailScanAssumption DEF Init
<1>9. leaving \subseteq Ids /\ moved \subseteq Ids /\ raced \in BOOLEAN
  BY DEF Init
<1> QED
  BY <1>2, <1>3, <1>4, <1>5, <1>6, <1>7, <1>8, <1>9 DEF TypeInv

(* A scan's move keeps the types when its new record has its type.          *)
LEMMA BecomesTyped ==
  ASSUME TypeInv, NEW s \in Scanners, NEW r \in ScanType, Becomes(s, r),
         r.left \subseteq r.listed,
         r.left # {} => r.pc \in {"profile", "enqueue"},
         r.pc \in {"token", "history"} => ~r.booted,
         r.pc = "history" => r.row.cursor \in Nat /\ r.pos \in Nat,
         r.pc = "fetch" /\ ~r.booted => r.row.cursor \in Nat /\ r.upto \in Nat,
         r.pc = "fetch" /\ r.booted => r.pos \in Nat,
         r.pc = "profile" => r.pos \in Nat,
         r.pc = "enqueue" => r.upto \in Nat
  PROVE  scan' \in [Scanners -> ScanType] /\ \A t \in Scanners : Phased(t)'
<1>1. scan'[s] = r /\ \A t \in Scanners : t # s => scan'[t] = scan[t]
  BY DEF Becomes, TypeInv
<1>2. scan' \in [Scanners -> ScanType]
  BY DEF Becomes, TypeInv
<1>3. Phased(s)'
  BY <1>1 DEF Phased
<1>4. \A t \in Scanners : t # s => Phased(t)'
  BY <1>1 DEF Phased, TypeInv
<1> QED
  BY <1>2, <1>3, <1>4

LEMMA BecomesIdle ==
  ASSUME TypeInv, NEW s \in Scanners, Becomes(s, Idle)
  PROVE  scan' \in [Scanners -> ScanType] /\ \A t \in Scanners : Phased(t)'
<1>1. /\ Idle.left = {} /\ Idle.pc = "idle"
  BY DEF Idle
<1> QED
  BY <1>1, IdleScan, BecomesTyped

(* The record a scan is at, after all.                                      *)
LEMMA ScanHasItsType ==
  ASSUME TypeInv, NEW s \in Scanners
  PROVE  /\ scan[s] \in ScanType /\ Phased(s)
         /\ scan[s].row \in Row /\ BoxOf(s) \in Boxes
         /\ mail[BoxOf(s)] \in Nat /\ forgotten[BoxOf(s)] \in Nat
<1>1. scan[s] \in ScanType /\ Phased(s)
  BY DEF TypeInv
<1>2. scan[s].row \in Row
  BY <1>1 DEF ScanType
<1>3. BoxOf(s) \in Boxes
  BY <1>2 DEF BoxOf, Row, Token
<1> QED
  BY <1>1, <1>2, <1>3 DEF TypeInv

ScanTyped == scan' \in [Scanners -> ScanType] /\ \A t \in Scanners : Phased(t)'

LEMMA ListHistoryTyped ==
  ASSUME TypeInv, NEW s \in Scanners, ListHistory(s)
  PROVE  ScanTyped
<1> DEFINE last == Min({scan[s].pos + PageSize, mail[BoxOf(s)]})
           r == [scan[s] EXCEPT
                  !.pc = IF last = mail[BoxOf(s)] THEN "fetch" ELSE "history",
                  !.listed = @ \cup ((scan[s].pos + 1)..last),
                  !.pos = last, !.upto = mail[BoxOf(s)]]
<1>1. /\ scan[s] \in ScanType /\ Phased(s) /\ mail[BoxOf(s)] \in Nat
      /\ scan[s].pc = "history"
  BY ScanHasItsType DEF ListHistory
<1>2. scan[s].pos \in Nat /\ PageSize \in Nat \ {0} /\ ~scan[s].booted
      /\ scan[s].row.cursor \in Nat
  BY <1>1, MailScanAssumption DEF Phased
<1>3. last \in Nat
  BY <1>1, <1>2, MinOfTwo
<1>4. ((scan[s].pos + 1)..last) \subseteq Nat
  BY <1>2, <1>3
<1>5. Becomes(s, r)
  BY DEF ListHistory
<1> HIDE DEF last
<1>6. r \in ScanType
  BY <1>1, <1>3, <1>4 DEF ScanType, Phases
<1>7. /\ r.pc \in {"fetch", "history"} /\ r.booted = scan[s].booted /\ r.row = scan[s].row
      /\ r.pos = last /\ r.upto = mail[BoxOf(s)] /\ r.left = scan[s].left
      /\ r.listed = scan[s].listed \cup ((scan[s].pos + 1)..last)
  BY <1>1 DEF ScanType
<1>8. r.left = {}
  BY <1>1, <1>7 DEF Phased
<1> HIDE DEF r
<1> QED
  BY <1>1, <1>2, <1>3, <1>5, <1>6, <1>7, <1>8, BecomesTyped DEF ScanTyped

LEMMA WorkTyped ==
  ASSUME TypeInv, NEW s \in Scanners, Work(s) \/ ReadFails(s) \/ ScanDies(s)
  PROVE  ScanTyped
<1>0. /\ scan[s] \in ScanType /\ Phased(s) /\ mail[BoxOf(s)] \in Nat
      /\ scan[s].row \in Row
  BY ScanHasItsType
<1>1. CASE GetToken(s)
  <2> DEFINE r == [scan[s] EXCEPT
                    !.pc = IF scan[s].row.cursor = NoCursor THEN "bootstrap" ELSE "history",
                    !.row.token.expired = FALSE, !.refreshed = scan[s].row.token.expired,
                    !.pos = scan[s].row.cursor]
  <2>1. Becomes(s, r)
    BY <1>1 DEF GetToken
  <2>2. /\ scan[s].row.cursor \in Nat \cup {NoCursor}
        /\ scan[s].row.token.expired \in BOOLEAN
    BY <1>0 DEF Row, Token
  <2>3. [scan[s].row EXCEPT !.token.expired = FALSE] \in Row
    BY <1>0 DEF Row, Token
  <2>4. r \in ScanType
    BY <1>0, <2>2, <2>3 DEF ScanType, Phases
  <2>5. /\ r.pc \in {"bootstrap", "history"} /\ r.booted = scan[s].booted
        /\ r.pos = scan[s].row.cursor /\ r.listed = scan[s].listed /\ r.left = scan[s].left
        /\ r.pc = "history" => scan[s].row.cursor # NoCursor
        /\ r.row.cursor = scan[s].row.cursor
    BY <1>0 DEF ScanType, Row
  <2>6. scan[s].pc = "token"
    BY <1>1 DEF GetToken
  <2> HIDE DEF r
  <2> QED
    BY <1>0, <2>1, <2>2, <2>4, <2>5, <2>6, BecomesTyped DEF ScanTyped, Phased
<1>2. CASE ListHistory(s)
  BY <1>2, ListHistoryTyped
<1>3. CASE HistoryGone(s)
  <2> DEFINE r == [scan[s] EXCEPT !.pc = "bootstrap", !.listed = {}]
  <2>1. Becomes(s, r)
    BY <1>3 DEF HistoryGone
  <2>2. r \in ScanType
    BY <1>0 DEF ScanType, Phases
  <2>3. r.pc = "bootstrap" /\ r.listed = {} /\ r.left = scan[s].left
    BY <1>0 DEF ScanType
  <2>4. scan[s].left = {}
    BY <1>0, <1>3 DEF Phased, HistoryGone
  <2> HIDE DEF r
  <2> QED
    BY <2>1, <2>2, <2>3, <2>4, BecomesTyped DEF ScanTyped
<1>4. CASE ListBootstrap(s)
  <2> DEFINE r == [scan[s] EXCEPT !.pc = "fetch", !.booted = TRUE,
                     !.listed = {n \in 1..mail[BoxOf(s)] : <<BoxOf(s), n>> \in Relevant},
                     !.pos = mail[BoxOf(s)]]
  <2>1. Becomes(s, r)
    BY <1>4 DEF ListBootstrap
  <2>2. r \in ScanType
    <3>1. {n \in 1..mail[BoxOf(s)] : <<BoxOf(s), n>> \in Relevant} \subseteq Nat
      BY <1>0
    <3> QED
      BY <1>0, <3>1 DEF ScanType, Phases
  <2>3. r.pc = "fetch" /\ r.booted /\ r.pos = mail[BoxOf(s)] /\ r.left = scan[s].left
    BY <1>0 DEF ScanType
  <2>4. scan[s].left = {}
    BY <1>0, <1>4 DEF Phased, ListBootstrap
  <2> HIDE DEF r
  <2> QED
    BY <1>0, <2>1, <2>2, <2>3, <2>4, BecomesTyped DEF ScanTyped
<1>5. CASE FetchMetadata(s)
  <2> DEFINE r == [scan[s] EXCEPT
                    !.pc = IF scan[s].booted THEN "profile" ELSE "enqueue",
                    !.left = {n \in scan[s].listed : <<BoxOf(s), n>> \in Relevant}]
  <2>1. Becomes(s, r)
    BY <1>5 DEF FetchMetadata
  <2>2. r \in ScanType
    <3>1. {n \in scan[s].listed : <<BoxOf(s), n>> \in Relevant} \subseteq Nat
      BY <1>0 DEF ScanType
    <3> QED
      BY <1>0, <3>1 DEF ScanType, Phases
  <2>3. /\ r.pc = IF scan[s].booted THEN "profile" ELSE "enqueue"
        /\ r.left \subseteq scan[s].listed /\ r.listed = scan[s].listed
        /\ r.pos = scan[s].pos /\ r.upto = scan[s].upto
    BY <1>0 DEF ScanType
  <2>4. scan[s].pc = "fetch"
    BY <1>5 DEF FetchMetadata
  <2> HIDE DEF r
  <2> QED
    BY <1>0, <2>1, <2>2, <2>3, <2>4, BecomesTyped DEF ScanTyped, Phased
<1>6. CASE ReadProfile(s)
  <2> DEFINE r == [scan[s] EXCEPT !.pc = "enqueue", !.upto = mail[BoxOf(s)]]
  <2>1. Becomes(s, r)
    BY <1>6 DEF ReadProfile
  <2>2. r \in ScanType
    BY <1>0 DEF ScanType, Phases
  <2>3. /\ r.pc = "enqueue" /\ r.upto = mail[BoxOf(s)] /\ r.left = scan[s].left
        /\ r.listed = scan[s].listed
    BY <1>0 DEF ScanType
  <2> HIDE DEF r
  <2> QED
    BY <1>0, <2>1, <2>2, <2>3, BecomesTyped DEF ScanTyped, Phased
<1>7. CASE Enqueue(s)
  <2> DEFINE r == [scan[s] EXCEPT !.left = @ \ {NextOf(s)}]
  <2>1. Becomes(s, r)
    BY <1>7 DEF Enqueue, Becomes
  <2>2. r \in ScanType
    <3>1. scan[s].left \ {NextOf(s)} \subseteq Nat
      BY <1>0 DEF ScanType
    <3> QED
      BY <1>0, <3>1 DEF ScanType, Phases
  <2>3. /\ r.pc = "enqueue" /\ r.upto = scan[s].upto /\ r.left \subseteq scan[s].left
        /\ r.listed = scan[s].listed
    BY <1>0, <1>7 DEF ScanType, Enqueue
  <2>4. scan[s].pc = "enqueue"
    BY <1>7 DEF Enqueue
  <2> HIDE DEF r
  <2> QED
    BY <1>0, <2>1, <2>2, <2>3, <2>4, BecomesTyped DEF ScanTyped, Phased
<1>8. CASE SaveCursor(s) \/ SaveError(s) \/ RowGone(s) \/ ScanDies(s)
  BY <1>8, BecomesIdle DEF SaveCursor, SaveError, RowGone, ScanDies, ScanTyped
<1>9. CASE ReadFails(s)
  <2> DEFINE r == [scan[s] EXCEPT !.pc = "error", !.left = {}]
  <2>1. Becomes(s, r)
    BY <1>9 DEF ReadFails
  <2>2. r \in ScanType
    BY <1>0 DEF ScanType, Phases
  <2>3. r.pc = "error" /\ r.left = {}
    BY <1>0 DEF ScanType
  <2> HIDE DEF r
  <2> QED
    BY <2>1, <2>2, <2>3, BecomesTyped DEF ScanTyped
<1> QED
  BY <1>1, <1>2, <1>3, <1>4, <1>5, <1>6, <1>7, <1>8, <1>9 DEF Work

(* What saving does to the table of accounts.                               *)
LEMMA SavedAccountsTyped ==
  ASSUME TypeInv, NEW s \in Scanners, SaveCursor(s) \/ SaveError(s)
  PROVE  accounts' \in [DOMAIN accounts -> Row] /\ DOMAIN accounts' = DOMAIN accounts
<1> DEFINE i == scan[s].id
<1>1. i \in DOMAIN accounts /\ accounts[i] \in Row /\ scan[s].row \in Row
  BY ScanHasItsType DEF SaveCursor, SaveError, TypeInv
<1>2. WithToken(s) \in Row
  BY <1>1 DEF WithToken, Row
<1>3. [WithToken(s) EXCEPT !.status = "error"] \in Row
  BY <1>2 DEF Row
<1>4. SaveCursor(s) => WithCursor(s) \in Row
  <2>1. SaveCursor(s) => scan[s].upto \in Nat
    BY ScanHasItsType DEF SaveCursor, Phased
  <2>2. WithToken(s).cursor \in Nat \cup {NoCursor}
    BY <1>2 DEF Row
  <2> QED
    BY <1>2, <2>1, <2>2 DEF WithCursor, Row
<1>5. \/ accounts' = [accounts EXCEPT ![i] = WithCursor(s)] /\ WithCursor(s) \in Row
      \/ accounts' = [accounts EXCEPT ![i] = [WithToken(s) EXCEPT !.status = "error"]]
  BY <1>4 DEF SaveCursor, SaveError
<1> HIDE DEF i
<1> QED
  BY <1>1, <1>3, <1>5 DEF TypeInv

LEMMA TypeInvStep == TypeInv /\ [Next]_vars => TypeInv'
<1> SUFFICES ASSUME TypeInv, [Next]_vars PROVE TypeInv'
  OBVIOUS
<1> USE DEF gmail, oauth, rows, jobs
<1>0. Boxes' = Boxes /\ Ids \subseteq Callbacks /\ Callbacks \subseteq Ids
  BY DEF Ids
<1>t. ASSUME scan' = scan PROVE ScanTyped
  BY <1>t DEF ScanTyped, Phased, TypeInv
<1>a. ASSUME NEW c \in Callbacks, Answer(c) PROVE callback' \in [Callbacks -> RequestType]
  BY <1>a, SomeBoxIsABox DEF Answer, Waiting, RequestType, TypeInv
<1>1. ASSUME NEW b \in Boxes, Arrive(b) PROVE TypeInv'
  <2>1. mail' \in [Boxes -> Nat]
    BY <1>1 DEF Arrive, TypeInv
  <2> QED
    BY <1>1, <1>t, <2>1 DEF Arrive, TypeInv, ScanTyped
<1>2. ASSUME NEW b \in Boxes, ForgetHistory(b) PROVE TypeInv'
  <2>1. forgotten' \in [Boxes -> Nat] /\ upsets' \in 0..MaxUpsets
    BY <1>2, MailScanAssumption DEF ForgetHistory, Upset, TypeInv
  <2> QED
    BY <1>2, <1>t, <2>1 DEF ForgetHistory, TypeInv, ScanTyped
<1>u. ASSUME Upset PROVE upsets' \in 0..MaxUpsets
  BY <1>u, MailScanAssumption DEF Upset, TypeInv
<1>3. ASSUME NEW i \in Ids, TokenExpires(i) PROVE TypeInv'
  <2>1. accounts' \in [DOMAIN accounts -> Row]
    <3>1. accounts[i] \in Row /\ i \in DOMAIN accounts
      BY <1>3 DEF TokenExpires, TypeInv
    <3>2. [accounts[i] EXCEPT !.token.expired = TRUE] \in Row
      BY <3>1 DEF Row, Token
    <3> QED
      BY <1>3, <3>1, <3>2 DEF TokenExpires, TypeInv
  <2> QED
    BY <1>3, <1>t, <1>u, <2>1 DEF TokenExpires, TypeInv, ScanTyped
<1>4. CASE OpenSettings
  <2>1. urls' \in 0..MaxUrls /\ states' \subseteq 1..urls'
    BY <1>4, MailScanAssumption DEF OpenSettings, TypeInv
  <2> QED
    BY <1>4, <1>t, <2>1 DEF OpenSettings, TypeInv, ScanTyped
<1>5. ASSUME NEW u \in Urls, StateExpires(u) PROVE TypeInv'
  BY <1>5, <1>t, <1>u DEF StateExpires, TypeInv, ScanTyped
<1>6. ASSUME NEW c \in Callbacks, PopState(c) PROVE TypeInv'
  <2>1. callback' \in [Callbacks -> RequestType]
    <3>1. PICK u \in 1..urls, b \in Boxes :
            \/ callback' = [callback EXCEPT
                              ![c] = [@ EXCEPT !.pc = "exchange", !.url = u, !.box = b]]
            \/ Answer(c)
      BY <1>6 DEF PopState
    <3>2. u \in Urls
      BY MailScanAssumption DEF TypeInv, Urls
    <3>3. [callback[c] EXCEPT !.pc = "exchange", !.url = u, !.box = b] \in RequestType
      BY <3>2 DEF TypeInv, RequestType
    <3> QED
      BY <1>a, <3>1, <3>3 DEF TypeInv
  <2> QED
    BY <1>6, <1>t, <2>1 DEF PopState, TypeInv, ScanTyped
<1>7. ASSUME NEW c \in Callbacks, Connect(c) PROVE TypeInv'
  <2>1. callback' \in [Callbacks -> RequestType]
    <3>1. callback[c] \in RequestType
      BY DEF TypeInv
    <3>2. [callback[c] EXCEPT !.pc = "insert"] \in RequestType
      BY <3>1 DEF RequestType
    <3>3. \A i \in DOMAIN accounts :
            [callback[c] EXCEPT !.pc = "update", !.into = i,
                               !.over = accounts[i].box, !.was = accounts[i].status]
              \in RequestType
      <4>1. \A i \in DOMAIN accounts : /\ i \in Ids /\ accounts[i].box \in Boxes
                                       /\ accounts[i].status \in {"active", "error"}
        BY DEF TypeInv, Row
      <4> QED
        BY <3>1, <4>1 DEF RequestType
    <3>4. \/ callback' = [callback EXCEPT ![c] = [callback[c] EXCEPT !.pc = "insert"]]
          \/ \E i \in DOMAIN accounts : callback' = [callback EXCEPT ![c] =
               [callback[c] EXCEPT !.pc = "update", !.into = i,
                               !.over = accounts[i].box, !.was = accounts[i].status]]
          \/ Answer(c)
      BY <1>7 DEF Connect
    <3> QED
      BY <1>a, <3>2, <3>3, <3>4 DEF TypeInv
  <2> QED
    BY <1>7, <1>t, <2>1 DEF Connect, TypeInv, ScanTyped
<1>8. ASSUME NEW c \in Callbacks, InsertAccount(c) PROVE TypeInv'
  <2>1. callback' \in [Callbacks -> RequestType]
    <3>1. [callback[c] EXCEPT !.pc = "enqueue", !.into = c] \in RequestType
      BY <1>0 DEF RequestType, TypeInv
    <3>2. \/ callback' = [callback EXCEPT ![c] =
                 [callback[c] EXCEPT !.pc = "enqueue", !.into = c]]
          \/ Answer(c)
      BY <1>8 DEF InsertAccount, TypeInv
    <3> QED
      BY <1>a, <3>1, <3>2 DEF TypeInv
  <2>2. accounts' \in [DOMAIN accounts' -> Row] /\ DOMAIN accounts' \subseteq Ids
    <3>1. NewRow(callback[c].box) \in Row
      BY NewRowIsARow DEF TypeInv, RequestType
    <3> QED
      BY <1>0, <1>8, <3>1 DEF InsertAccount, Put, TypeInv
  <2> QED
    BY <1>8, <1>t, <2>1, <2>2 DEF InsertAccount, TypeInv, ScanTyped
<1>9. ASSUME NEW c \in Callbacks, UpdateAccount(c) PROVE TypeInv'
  <2> DEFINE i == callback[c].into
             b == callback[c].box
  <2>1. callback' \in [Callbacks -> RequestType]
    <3>1. [callback[c] EXCEPT !.pc = "enqueue"] \in RequestType
      BY DEF RequestType, TypeInv
    <3> QED
      BY <1>9, <1>a, <3>1 DEF UpdateAccount, TypeInv
  <2>2. accounts' \in [DOMAIN accounts -> Row] /\ moved' \subseteq Ids
    <3>1. CASE UNCHANGED <<accounts, moved>>
      BY <3>1 DEF TypeInv
    <3>2. CASE /\ i \in DOMAIN accounts
               /\ accounts' = [accounts EXCEPT ![i] = Reconnected(accounts[i], c)]
               /\ moved' = IF accounts[i].box = b THEN moved ELSE moved \cup {i}
      <4>1. accounts[i] \in Row /\ b \in Boxes
        BY <3>2 DEF TypeInv, RequestType
      <4>2. NewRow(b).token \in Token
        BY <4>1, NewRowIsARow DEF Row
      <4>3. Reconnected(accounts[i], c) \in Row
        BY <4>1, <4>2 DEF Row, Reconnected
      <4> QED
        BY <3>2, <4>3 DEF TypeInv
    <3> QED
      BY <1>9, <3>1, <3>2 DEF UpdateAccount
  <2> QED
    BY <1>9, <1>t, <2>1, <2>2 DEF UpdateAccount, TypeInv, ScanTyped
<1>10. ASSUME NEW c \in Callbacks, EnqueueFirst(c) PROVE TypeInv'
  <2>1. queue' \in [Ids -> 0..MaxQueue] /\ callback' \in [Callbacks -> RequestType]
    BY <1>10, <1>a, EnqueuedType DEF EnqueueFirst, TypeInv
  <2> QED
    BY <1>10, <1>t, <2>1 DEF EnqueueFirst, TypeInv, ScanTyped
<1>11. ASSUME NEW c \in Callbacks, CallbackFails(c) PROVE TypeInv'
  BY <1>11, <1>a, <1>t, <1>u DEF CallbackFails, TypeInv, ScanTyped
<1>12. CASE DisconnectRead
  BY <1>12, <1>t, <1>u DEF DisconnectRead, TypeInv, ScanTyped
<1>13. ASSUME NEW i \in Ids, Disconnect(i) PROVE TypeInv'
  <2>1. accounts' \in [DOMAIN accounts' -> Row] /\ DOMAIN accounts' \subseteq Ids
    BY <1>13 DEF Disconnect, TypeInv
  <2> QED
    BY <1>13, <1>t, <2>1 DEF Disconnect, TypeInv, ScanTyped
<1>14. CASE ScanAll
  <2>1. queue' \in [Ids -> 0..MaxQueue]
    BY <1>14, EnqueuedType DEF ScanAll, TypeInv
  <2> QED
    BY <1>14, <1>t, <2>1 DEF ScanAll, TypeInv, ScanTyped
<1>15. ASSUME NEW s \in Scanners, NEW i \in Ids, Load(s, i) PROVE TypeInv'
  <2>1. queue' \in [Ids -> 0..MaxQueue]
    BY <1>15, MailScanAssumption DEF Load, TypeInv
  <2>2. ScanTyped
    <3>1. CASE scan' = scan
      BY <1>t, <3>1
    <3>2. CASE /\ i \in DOMAIN accounts
               /\ Becomes(s, [Idle EXCEPT !.pc = "token", !.id = i, !.row = accounts[i]])
      <4> DEFINE r == [Idle EXCEPT !.pc = "token", !.id = i, !.row = accounts[i]]
      <4>1. accounts[i] \in Row
        BY <3>2 DEF TypeInv
      <4>2. r \in ScanType /\ r.pc = "token" /\ r.left = {} /\ ~r.booted
        BY <4>1, IdleScan DEF ScanType, Phases, Idle
      <4> HIDE DEF r
      <4> QED
        BY <3>2, <4>2, BecomesTyped DEF ScanTyped, r
    <3> QED
      BY <1>15, <3>1, <3>2 DEF Load
  <2> QED
    BY <1>15, <2>1, <2>2 DEF Load, TypeInv, ScanTyped
<1>16. ASSUME NEW s \in Scanners, SaveCursor(s) \/ SaveError(s) PROVE TypeInv'
  BY <1>16, WorkTyped, SavedAccountsTyped DEF Work, SaveCursor, SaveError, TypeInv, ScanTyped
<1>17. ASSUME NEW s \in Scanners, ReadFails(s) \/ ScanDies(s) PROVE TypeInv'
  <2>1. ScanTyped /\ upsets' \in 0..MaxUpsets /\ queue' \in [Ids -> 0..MaxQueue]
    BY <1>17, <1>u, WorkTyped, EnqueuedType DEF ReadFails, ScanDies, TypeInv
  <2> QED
    BY <1>17, <2>1 DEF ReadFails, ScanDies, TypeInv, ScanTyped
<1>18. ASSUME NEW s \in Scanners, Work(s), ~SaveCursor(s), ~SaveError(s) PROVE TypeInv'
  <2>1. ScanTyped
    BY <1>18, WorkTyped
  <2>2. UNCHANGED <<gmail, oauth, rows, queue, upsets>>
    BY <1>18 DEF Work, GetToken, ListHistory, HistoryGone, ListBootstrap, FetchMetadata,
                 ReadProfile, Enqueue, RowGone
  <2> QED
    BY <2>1, <2>2 DEF TypeInv, ScanTyped
<1>19. CASE UNCHANGED vars
  BY <1>19, <1>t DEF vars, TypeInv, ScanTyped
<1> QED
  BY <1>1, <1>2, <1>3, <1>4, <1>5, <1>6, <1>7, <1>8, <1>9, <1>10, <1>11, <1>12, <1>13,
     <1>14, <1>15, <1>16, <1>17, <1>18, <1>19 DEF Next, Request

-----------------------------------------------------------------------------
(* Which accounts there are changes by one INSERT and one DELETE.           *)
LEMMA AccountsComeByInsert ==
  ASSUME TypeInv, [Next]_vars, NEW i \in DOMAIN accounts', i \notin DOMAIN accounts
  PROVE  i \in Callbacks /\ InsertAccount(i) /\ callback[i].pc = "insert"
<1> USE DEF gmail, oauth, rows, jobs
<1>1. ASSUME NEW c \in Callbacks, InsertAccount(c)
      PROVE  i = c /\ callback[c].pc = "insert"
  BY <1>1 DEF InsertAccount, Put
<1>2. ASSUME NEW c \in Callbacks, UpdateAccount(c) PROVE FALSE
  BY <1>2 DEF UpdateAccount
<1>3. ASSUME NEW j \in Ids, TokenExpires(j) \/ Disconnect(j) PROVE FALSE
  BY <1>3 DEF TokenExpires, Disconnect
<1>4. ASSUME NEW s \in Scanners, SaveCursor(s) \/ SaveError(s) PROVE FALSE
  BY <1>4, SavedAccountsTyped
<1>5. accounts' # accounts
  OBVIOUS
<1>6. ASSUME NEW b \in Boxes, Arrive(b) \/ ForgetHistory(b) PROVE FALSE
  BY <1>5, <1>6 DEF Arrive, ForgetHistory
<1>7. ASSUME NEW c \in Callbacks, PopState(c) \/ Connect(c) \/ EnqueueFirst(c) \/ CallbackFails(c)
      PROVE  FALSE
  BY <1>5, <1>7 DEF PopState, Connect, EnqueueFirst, CallbackFails
<1>8. CASE OpenSettings \/ DisconnectRead \/ ScanAll \/ UNCHANGED vars
  BY <1>5, <1>8 DEF OpenSettings, DisconnectRead, ScanAll, vars
<1>9. ASSUME NEW s \in Scanners, NEW j \in Ids, Load(s, j) PROVE FALSE
  BY <1>5, <1>9 DEF Load
<1>10. ASSUME NEW u \in Urls, StateExpires(u) PROVE FALSE
  BY <1>5, <1>10 DEF StateExpires
<1>11. ASSUME NEW s \in Scanners, Work(s) \/ ReadFails(s) \/ ScanDies(s) PROVE FALSE
  BY <1>4, <1>5, <1>11 DEF Work, ReadFails, ScanDies, GetToken, ListHistory, HistoryGone,
     ListBootstrap, FetchMetadata, ReadProfile, Enqueue, RowGone
<1> QED
  BY <1>1, <1>2, <1>3, <1>6, <1>7, <1>8, <1>9, <1>10, <1>11 DEF Next, Request

-----------------------------------------------------------------------------
(* A scan holds the rest of what it will skip.                              *)
Seen(i, b, n) == <<b, n>> \in Relevant => <<i, b, n>> \in offered \cup blind

Held(s) ==
  LET Known(n) == Seen(scan[s].id, BoxOf(s), n) IN
  /\ \A n \in 1..scan[s].row.cursor : Known(n)
  /\ scan[s].pc = "history" => \A n \in 1..scan[s].pos : Known(n) \/ n \in scan[s].listed
  /\ scan[s].pc = "fetch" =>
       \A n \in 1..(IF scan[s].booted THEN scan[s].pos ELSE scan[s].upto) :
          Known(n) \/ n \in scan[s].listed
  /\ scan[s].pc = "profile" => \A n \in 1..scan[s].pos : Known(n) \/ n \in scan[s].left
  /\ scan[s].pc = "enqueue" => \A n \in 1..scan[s].upto : Known(n) \/ n \in scan[s].left

(* What a step of a scan leaves of its record.                              *)
Carries(s) == /\ scan'[s].id = scan[s].id
              /\ scan'[s].row.cursor = scan[s].row.cursor
              /\ BoxOf(s)' = BoxOf(s)

LEMMA HistoryHeld ==
  ASSUME TypeInv, NEW s \in Scanners, Held(s), ListHistory(s)
  PROVE  Carries(s) /\ Held(s)'
<1> DEFINE last == Min({scan[s].pos + PageSize, mail[BoxOf(s)]})
<1>1. /\ scan[s] \in ScanType /\ Phased(s) /\ mail[BoxOf(s)] \in Nat
      /\ scan[s].pc = "history"
  BY ScanHasItsType DEF ListHistory
<1>2. scan[s].pos \in Nat /\ PageSize \in Nat \ {0} /\ ~scan[s].booted
  BY <1>1, MailScanAssumption DEF Phased
<1>3. last \in Nat
  BY <1>1, <1>2, MinOfTwo
<1> HIDE DEF last
<1>4. scan'[s] = [scan[s] EXCEPT
                    !.pc = IF last = mail[BoxOf(s)] THEN "fetch" ELSE "history",
                    !.listed = scan[s].listed \cup ((scan[s].pos + 1)..last),
                    !.pos = last, !.upto = mail[BoxOf(s)]]
  BY DEF ListHistory, Becomes, TypeInv, last
<1>5. /\ scan'[s].pc = IF last = mail[BoxOf(s)] THEN "fetch" ELSE "history"
      /\ scan'[s].listed = scan[s].listed \cup ((scan[s].pos + 1)..last)
      /\ scan'[s].pos = last /\ scan'[s].upto = mail[BoxOf(s)] /\ ~scan'[s].booted
      /\ scan'[s].id = scan[s].id /\ scan'[s].row = scan[s].row
  BY <1>1, <1>2, <1>4 DEF ScanType
<1>6. Carries(s)
  BY <1>5 DEF Carries, BoxOf
<1>7. offered' = offered /\ blind' = blind
  BY DEF ListHistory
<1>8. \A n \in 1..last : n \in 1..scan[s].pos \/ n \in (scan[s].pos + 1)..last
  BY <1>2, <1>3
<1>9. \A n \in 1..last : Seen(scan[s].id, BoxOf(s), n)' \/ n \in scan'[s].listed
  BY <1>1, <1>5, <1>6, <1>7, <1>8 DEF Held, Seen, Carries
<1> QED
  BY <1>5, <1>6, <1>7, <1>9 DEF Held, Seen, Carries

LEMMA WorkHeld ==
  ASSUME TypeInv, NEW s \in Scanners, Work(s) \/ ReadFails(s) \/ ScanDies(s), Held(s)
  PROVE  scan'[s].pc = "idle" \/ (Carries(s) /\ Held(s)')
<1>0. /\ scan[s] \in ScanType /\ Phased(s) /\ mail[BoxOf(s)] \in Nat
      /\ scan[s].row \in Row
  BY ScanHasItsType
<1>1. CASE GetToken(s)
  <2>1. scan'[s] = [scan[s] EXCEPT
                    !.pc = IF scan[s].row.cursor = NoCursor THEN "bootstrap" ELSE "history",
                    !.row.token.expired = FALSE, !.refreshed = scan[s].row.token.expired,
                    !.pos = scan[s].row.cursor]
    BY <1>1 DEF GetToken, Becomes, TypeInv
  <2>2. /\ scan'[s].pc \in {"bootstrap", "history"} /\ scan'[s].pos = scan[s].row.cursor
        /\ scan'[s].id = scan[s].id
        /\ scan'[s].row = [scan[s].row EXCEPT !.token.expired = FALSE]
    BY <1>0, <2>1 DEF ScanType
  <2>3. scan'[s].row.cursor = scan[s].row.cursor /\ scan'[s].row.token.box = scan[s].row.token.box
    BY <1>0, <2>2 DEF Row, Token
  <2>4. Carries(s)
    BY <2>2, <2>3 DEF Carries, BoxOf
  <2>5. offered' = offered /\ blind' = blind
    BY <1>1 DEF GetToken
  <2> QED
    BY <2>2, <2>4, <2>5 DEF Held, Seen, Carries
<1>2. CASE ListHistory(s)
  BY <1>2, HistoryHeld
<1>3. CASE HistoryGone(s) \/ ReadFails(s)
  <2>1. /\ scan'[s].pc \in {"bootstrap", "error"}
        /\ scan'[s].id = scan[s].id /\ scan'[s].row = scan[s].row
    <3>1. \/ scan'[s] = [scan[s] EXCEPT !.pc = "bootstrap", !.listed = {}]
          \/ scan'[s] = [scan[s] EXCEPT !.pc = "error", !.left = {}]
      BY <1>3 DEF HistoryGone, ReadFails, Becomes, TypeInv
    <3> QED
      BY <1>0, <3>1 DEF ScanType
  <2>2. offered' = offered /\ blind' = blind
    BY <1>3 DEF HistoryGone, ReadFails
  <2>3. Carries(s)
    BY <2>1 DEF Carries, BoxOf
  <2> QED
    BY <2>1, <2>2, <2>3 DEF Held, Seen, Carries
<1>4. CASE ListBootstrap(s)
  <2>1. /\ scan'[s].pc = "fetch" /\ scan'[s].booted
        /\ scan'[s].listed = {n \in 1..mail[BoxOf(s)] : <<BoxOf(s), n>> \in Relevant}
        /\ scan'[s].pos = mail[BoxOf(s)]
        /\ scan'[s].id = scan[s].id /\ scan'[s].row = scan[s].row
    BY <1>0, <1>4 DEF ListBootstrap, Becomes, TypeInv, ScanType
  <2>2. offered' = offered /\ blind' = blind
    BY <1>4 DEF ListBootstrap
  <2>3. Carries(s)
    BY <2>1 DEF Carries, BoxOf
  <2> QED
    BY <2>1, <2>2, <2>3 DEF Held, Seen, Carries
<1>5. CASE FetchMetadata(s)
  <2>1. /\ scan[s].pc = "fetch"
        /\ scan'[s].pc = IF scan[s].booted THEN "profile" ELSE "enqueue"
        /\ scan'[s].left = {n \in scan[s].listed : <<BoxOf(s), n>> \in Relevant}
        /\ scan'[s].pos = scan[s].pos /\ scan'[s].upto = scan[s].upto
        /\ scan'[s].id = scan[s].id /\ scan'[s].row = scan[s].row
    BY <1>0, <1>5 DEF FetchMetadata, Becomes, TypeInv, ScanType
  <2>2. offered' = offered /\ blind' = blind
    BY <1>5 DEF FetchMetadata
  <2>3. Carries(s)
    BY <2>1 DEF Carries, BoxOf
  <2> QED
    BY <2>1, <2>2, <2>3 DEF Held, Seen, Carries
<1>6. CASE ReadProfile(s)
  <2>1. /\ scan[s].pc = "profile" /\ scan'[s].pc = "enqueue"
        /\ scan'[s].upto = mail[BoxOf(s)] /\ scan'[s].left = scan[s].left
        /\ scan'[s].id = scan[s].id /\ scan'[s].row = scan[s].row
    BY <1>0, <1>6 DEF ReadProfile, Becomes, TypeInv, ScanType
  <2>2. /\ offered' = offered
        /\ blind' = blind \cup {<<scan[s].id, BoxOf(s), n>> :
                                   n \in (scan[s].pos + 1)..mail[BoxOf(s)]}
    BY <1>6 DEF ReadProfile
  <2>3. Carries(s)
    BY <2>1 DEF Carries, BoxOf
  <2>4. \A n \in 1..mail[BoxOf(s)] :
          n \in 1..scan[s].pos \/ n \in (scan[s].pos + 1)..mail[BoxOf(s)]
    BY <1>0, <2>1 DEF Phased
  <2>5. \A n \in 1..mail[BoxOf(s)] : Seen(scan[s].id, BoxOf(s), n)' \/ n \in scan'[s].left
    BY <2>1, <2>2, <2>3, <2>4 DEF Held, Seen, Carries
  <2>6. \A n \in 1..scan'[s].row.cursor : Seen(scan[s].id, BoxOf(s), n)'
    BY <2>1, <2>2, <2>3 DEF Held, Seen, Carries
  <2> QED
    BY <2>1, <2>3, <2>5, <2>6 DEF Held, Carries
<1>7. CASE Enqueue(s)
  <2>1. /\ scan[s].pc = "enqueue" /\ scan'[s].pc = "enqueue"
        /\ scan'[s].upto = scan[s].upto /\ scan'[s].left = scan[s].left \ {NextOf(s)}
        /\ scan'[s].id = scan[s].id /\ scan'[s].row = scan[s].row
    BY <1>0, <1>7 DEF Enqueue, TypeInv, ScanType
  <2>2. /\ blind' = blind
        /\ offered' = offered \cup {<<scan[s].id, BoxOf(s), NextOf(s)>>}
    BY <1>7 DEF Enqueue
  <2>3. Carries(s)
    BY <2>1 DEF Carries, BoxOf
  <2>5. \A n \in 1..scan[s].upto : Seen(scan[s].id, BoxOf(s), n)' \/ n \in scan'[s].left
    BY <2>1, <2>2, <2>3 DEF Held, Seen, Carries
  <2>6. \A n \in 1..scan'[s].row.cursor : Seen(scan[s].id, BoxOf(s), n)'
    BY <2>1, <2>2, <2>3 DEF Held, Seen, Carries
  <2> QED
    BY <2>1, <2>3, <2>5, <2>6 DEF Held, Carries
<1>8. CASE SaveCursor(s) \/ SaveError(s) \/ RowGone(s) \/ ScanDies(s)
  <2>1. scan'[s] = Idle
    BY <1>8 DEF SaveCursor, SaveError, RowGone, ScanDies, Becomes, TypeInv
  <2> QED
    BY <2>1 DEF Idle
<1> QED
  BY <1>1, <1>2, <1>3, <1>4, <1>5, <1>6, <1>7, <1>8 DEF Work

-----------------------------------------------------------------------------
(* The invariant: account and scans cover what is before their cursors, and *)
(* an account that is still to be inserted has no scan.                     *)
Fresh(i) ==
  callback[i].pc \in {"idle", "exchange", "insert"} =>
    /\ i \notin DOMAIN accounts
    /\ \A s \in Scanners : scan[s].pc # "idle" => scan[s].id # i

Counts(i) == i \in DOMAIN accounts \ moved

AccountCovers(i) ==
  Counts(i) => /\ accounts[i].token.box = accounts[i].box
               /\ \A n \in 1..accounts[i].cursor : Seen(i, accounts[i].box, n)

ScanCovers(s) ==
  scan[s].pc # "idle" /\ Counts(scan[s].id) =>
    accounts[scan[s].id].box = BoxOf(s) /\ Held(s)

Covers ==
  /\ \A i \in Ids : Fresh(i) /\ AccountCovers(i)
  /\ \A s \in Scanners : ScanCovers(s)

(* Offers are never taken back.                                             *)
LEMMA OffersGrow ==
  ASSUME [Next]_vars
  PROVE  offered \subseteq offered' /\ blind \subseteq blind'
BY DEF Next, vars, Request, Work, Arrive, ForgetHistory, TokenExpires, OpenSettings,
  StateExpires, PopState, Connect, InsertAccount, UpdateAccount, EnqueueFirst,
  CallbackFails, DisconnectRead, Disconnect, ScanAll, Load, GetToken, ListHistory,
  HistoryGone, ListBootstrap, FetchMetadata, ReadProfile, Enqueue, SaveCursor, SaveError,
  RowGone, ReadFails, ScanDies

LEMMA SeenStays ==
  ASSUME offered \subseteq offered', blind \subseteq blind', NEW i, NEW b, NEW n, Seen(i, b, n)
  PROVE  Seen(i, b, n)'
BY DEF Seen

(* A scan that does nothing is covered while its account keeps its address. *)
LEMMA ScanKept ==
  ASSUME NEW s \in Scanners, ScanCovers(s), scan'[s] = scan[s],
         offered \subseteq offered', blind \subseteq blind',
         scan[s].pc # "idle" /\ Counts(scan[s].id)' =>
           Counts(scan[s].id) /\ accounts'[scan[s].id].box = accounts[scan[s].id].box
  PROVE  ScanCovers(s)'
<1>1. BoxOf(s)' = BoxOf(s)
  BY DEF BoxOf
<1>2. Held(s) => Held(s)'
  BY <1>1 DEF Held, Seen
<1> QED
  BY <1>1, <1>2 DEF ScanCovers, Counts

LEMMA AccountKept ==
  ASSUME NEW i \in Ids, AccountCovers(i), offered \subseteq offered', blind \subseteq blind',
         Counts(i)' =>
           /\ Counts(i) /\ accounts'[i].box = accounts[i].box
           /\ accounts'[i].token.box = accounts[i].token.box
           /\ accounts'[i].cursor = accounts[i].cursor
  PROVE  AccountCovers(i)'
BY SeenStays DEF AccountCovers, Counts

(* A step of a scan is its own, and stays with its account.                 *)
LEMMA WorkMoves ==
  ASSUME TypeInv, NEW s \in Scanners, Work(s) \/ ReadFails(s) \/ ScanDies(s)
  PROVE  /\ scan[s].pc # "idle"
         /\ \A t \in Scanners : t # s => scan'[t] = scan[t]
         /\ scan'[s] = Idle \/ scan'[s].id = scan[s].id
<1>0. scan[s] \in ScanType
  BY ScanHasItsType
<1>1. scan[s].pc # "idle"
  BY DEF Work, ReadFails, ScanDies, GetToken, ListHistory, HistoryGone,
     ListBootstrap, FetchMetadata, ReadProfile, Enqueue, SaveCursor, SaveError, RowGone
<1>2. /\ \A t \in Scanners : t # s => scan'[t] = scan[t]
      /\ scan'[s] = Idle \/ scan'[s].id = scan[s].id
  <2>1. CASE GetToken(s)
    BY <1>0, <2>1 DEF GetToken, Becomes, TypeInv, ScanType
  <2>2. CASE ListHistory(s)
    BY <1>0, <2>2 DEF ListHistory, Becomes, TypeInv, ScanType
  <2>3. CASE HistoryGone(s)
    BY <1>0, <2>3 DEF HistoryGone, Becomes, TypeInv, ScanType
  <2>4. CASE ListBootstrap(s)
    BY <1>0, <2>4 DEF ListBootstrap, Becomes, TypeInv, ScanType
  <2>5. CASE FetchMetadata(s)
    BY <1>0, <2>5 DEF FetchMetadata, Becomes, TypeInv, ScanType
  <2>6. CASE ReadProfile(s)
    BY <1>0, <2>6 DEF ReadProfile, Becomes, TypeInv, ScanType
  <2>7. CASE Enqueue(s)
    BY <1>0, <2>7 DEF Enqueue, Becomes, TypeInv, ScanType
  <2>8. CASE ReadFails(s)
    BY <1>0, <2>8 DEF ReadFails, Becomes, TypeInv, ScanType
  <2>9. CASE SaveCursor(s) \/ SaveError(s) \/ RowGone(s) \/ ScanDies(s)
    BY <2>9 DEF SaveCursor, SaveError, RowGone, ScanDies, Becomes, TypeInv
  <2> QED
    BY <2>1, <2>2, <2>3, <2>4, <2>5, <2>6, <2>7, <2>8, <2>9 DEF Work
<1> QED
  BY <1>1, <1>2

LEMMA FreshStep ==
  ASSUME TypeInv, [Next]_vars, NEW i \in Ids, Fresh(i)
  PROVE  Fresh(i)'
<1> USE DEF gmail, oauth, rows, jobs
<1>0. i \in Callbacks
  BY DEF Ids
<1>1. SUFFICES ASSUME callback'[i].pc \in {"idle", "exchange", "insert"}
               PROVE  /\ i \notin DOMAIN accounts'
                      /\ \A s \in Scanners : scan'[s].pc # "idle" => scan'[s].id # i
  BY DEF Fresh
<1>2. ~InsertAccount(i) /\ callback[i].pc \in {"idle", "exchange", "insert"}
  <2>1. \/ callback' = callback
        \/ \E c \in Callbacks : \/ PopState(c) \/ Connect(c) \/ InsertAccount(c)
                               \/ UpdateAccount(c) \/ EnqueueFirst(c) \/ CallbackFails(c)
    BY DEF Next, vars, Request, Work, Arrive, ForgetHistory, TokenExpires, OpenSettings,
       StateExpires, DisconnectRead, Disconnect, ScanAll, Load, GetToken, ListHistory,
       HistoryGone, ListBootstrap, FetchMetadata, ReadProfile, Enqueue, SaveCursor,
       SaveError, RowGone, ReadFails, ScanDies
  <2>2. ASSUME NEW c \in Callbacks, PopState(c) \/ Connect(c)
        PROVE  callback[i].pc \in {"idle", "exchange", "insert"}
    BY <1>0, <1>1, <2>2 DEF PopState, Connect, Answer, Waiting, TypeInv, RequestType
  <2>3. ASSUME NEW c \in Callbacks,
               InsertAccount(c) \/ UpdateAccount(c) \/ EnqueueFirst(c) \/ CallbackFails(c)
        PROVE  callback[i].pc \in {"idle", "exchange", "insert"} /\ c # i
    <3>1. callback'[c].pc \in {"enqueue", "done"} /\ (i # c => callback'[i] = callback[i])
      BY <1>0, <2>3 DEF InsertAccount, UpdateAccount, EnqueueFirst, CallbackFails, Answer,
         Waiting, TypeInv, RequestType
    <3> QED
      BY <1>1, <3>1
  <2>4. InsertAccount(i) => FALSE
    BY <1>0, <2>3
  <2> QED
    BY <1>1, <2>1, <2>2, <2>3, <2>4
<1>3. /\ i \notin DOMAIN accounts
      /\ \A s \in Scanners : scan[s].pc # "idle" => scan[s].id # i
  BY <1>2 DEF Fresh
<1>4. i \notin DOMAIN accounts'
  BY <1>2, <1>3, AccountsComeByInsert
<1>5. ASSUME NEW s \in Scanners, scan'[s].pc # "idle" PROVE scan'[s].id # i
  <2>1. ASSUME NEW t \in Scanners, Work(t) \/ ReadFails(t) \/ ScanDies(t)
        PROVE  scan'[s].id # i
    BY <1>3, <1>5, <2>1, WorkMoves DEF Idle
  <2>2. ASSUME NEW t \in Scanners, NEW j \in Ids, Load(t, j) PROVE scan'[s].id # i
    <3>1. \/ scan' = scan
          \/ /\ j \in DOMAIN accounts
             /\ Becomes(t, [Idle EXCEPT !.pc = "token", !.id = j, !.row = accounts[j]])
      BY <2>2 DEF Load
    <3> QED
      BY <1>3, <1>5, <3>1 DEF Becomes, Idle, TypeInv
  <2>3. CASE scan' = scan
    BY <1>3, <1>5, <2>3
  <2> QED
    BY <2>1, <2>2, <2>3 DEF Next, vars, Request, Arrive, ForgetHistory, TokenExpires,
       OpenSettings, StateExpires, PopState, Connect, InsertAccount, UpdateAccount,
       EnqueueFirst, CallbackFails, DisconnectRead, Disconnect, ScanAll
<1> QED
  BY <1>4, <1>5

(* What a save writes: for a covered scan, an account that is covered.      *)
LEMMA SaveCovers ==
  ASSUME TypeInv, NEW s \in Scanners, SaveCursor(s) \/ SaveError(s),
         ScanCovers(s), NEW i \in Ids, i = scan[s].id, AccountCovers(i)
  PROVE  AccountCovers(i)' /\ accounts'[i].box = accounts[i].box
<1>1. /\ i \in DOMAIN accounts /\ accounts[i] \in Row /\ scan[s].row \in Row
      /\ scan[s].pc \in {"enqueue", "error"} /\ scan[s] \in ScanType /\ Phased(s)
      /\ moved' = moved /\ offered' = offered /\ blind' = blind
  BY ScanHasItsType DEF SaveCursor, SaveError, TypeInv, rows
<1>2. /\ WithToken(s) \in Row /\ WithToken(s).box = accounts[i].box
      /\ WithToken(s).cursor = accounts[i].cursor
      /\ WithToken(s).token \in {accounts[i].token, scan[s].row.token}
  BY <1>1 DEF WithToken, Row
<1>3. CASE SaveCursor(s)
  <2>1. accounts'[i] = WithCursor(s) /\ scan[s].left = {} /\ scan[s].pc = "enqueue"
    BY <1>1, <1>3 DEF SaveCursor, TypeInv
  <2>2. /\ accounts'[i].box = accounts[i].box
        /\ accounts'[i].token = WithToken(s).token
        /\ accounts'[i].cursor \in {accounts[i].cursor, scan[s].upto}
    BY <1>2, <2>1 DEF WithCursor, Row
  <2>3. ASSUME Counts(i)', NEW b, b = accounts[i].box
        PROVE  /\ accounts'[i].token.box = b
               /\ \A n \in 1..accounts'[i].cursor : Seen(i, b, n)'
    <3>1. Counts(i) /\ accounts[i].box = BoxOf(s) /\ Held(s)
      BY <1>1, <2>1, <2>3 DEF Counts, ScanCovers
    <3>2. accounts[i].token.box = accounts[i].box /\ scan[s].row.token.box = accounts[i].box
      BY <3>1 DEF AccountCovers, BoxOf
    <3>3. \A n \in 1..accounts[i].cursor : Seen(i, accounts[i].box, n)
      BY <3>1 DEF AccountCovers
    <3>4. \A n \in 1..scan[s].upto : Seen(i, accounts[i].box, n)
      BY <2>1, <3>1 DEF Held
    <3>5. \A n : Seen(i, b, n) => Seen(i, b, n)'
      BY <1>1 DEF Seen
    <3> QED
      BY <1>2, <2>2, <2>3, <3>2, <3>3, <3>4, <3>5
  <2> QED
    BY <2>2, <2>3 DEF AccountCovers, Seen
<1>4. CASE SaveError(s)
  <2>1. accounts'[i] = [WithToken(s) EXCEPT !.status = "error"]
    BY <1>1, <1>4 DEF SaveError, TypeInv
  <2>2. /\ accounts'[i].box = accounts[i].box
        /\ accounts'[i].token = WithToken(s).token
        /\ accounts'[i].cursor = accounts[i].cursor
    BY <1>2, <2>1 DEF Row
  <2>3. ASSUME Counts(i)', NEW b, b = accounts[i].box
        PROVE  /\ accounts'[i].token.box = b
               /\ \A n \in 1..accounts'[i].cursor : Seen(i, b, n)'
    <3>1. Counts(i) /\ accounts[i].box = BoxOf(s)
      BY <1>1, <2>3 DEF Counts, ScanCovers
    <3>2. accounts[i].token.box = accounts[i].box /\ scan[s].row.token.box = accounts[i].box
      BY <3>1 DEF AccountCovers, BoxOf
    <3>3. \A n \in 1..accounts[i].cursor : Seen(i, accounts[i].box, n)
      BY <3>1 DEF AccountCovers
    <3>5. \A n : Seen(i, b, n) => Seen(i, b, n)'
      BY <1>1 DEF Seen
    <3> QED
      BY <1>2, <2>2, <2>3, <3>2, <3>3, <3>5
  <2> QED
    BY <2>2, <2>3 DEF AccountCovers, Seen
<1> QED
  BY <1>3, <1>4

LEMMA CoversStep ==
  ASSUME TypeInv, TypeInv', Covers, [Next]_vars
  PROVE  Covers'
<1> USE DEF gmail, oauth, rows, jobs
<1>0. /\ offered \subseteq offered' /\ blind \subseteq blind'
      /\ \A i \in Ids : Fresh(i)'
  BY OffersGrow, FreshStep DEF Covers
<1>t. \A s \in Scanners : scan[s].pc # "idle" /\ Counts(scan[s].id) => scan[s].id \in Ids
  BY DEF Counts, TypeInv
<1>1. CASE accounts' = accounts /\ moved' = moved /\ scan' = scan
  <2>1. \A i \in Ids : AccountCovers(i)'
    BY <1>0, <1>1, AccountKept DEF Covers, Counts
  <2>2. \A s \in Scanners : ScanCovers(s)'
    BY <1>0, <1>1, ScanKept DEF Covers, Counts
  <2> QED
    BY <1>0, <2>1, <2>2 DEF Covers
<1>2. ASSUME NEW j \in Ids, TokenExpires(j) \/ Disconnect(j) PROVE Covers'
  <2>1. /\ moved' = moved /\ scan' = scan /\ DOMAIN accounts' \subseteq DOMAIN accounts
        /\ \A i \in DOMAIN accounts' : /\ accounts'[i].box = accounts[i].box
                                      /\ accounts'[i].token.box = accounts[i].token.box
                                      /\ accounts'[i].cursor = accounts[i].cursor
    <3>1. CASE TokenExpires(j)
      <4>1. j \in DOMAIN accounts /\ accounts[j] \in Row
        BY <3>1 DEF TokenExpires, TypeInv
      <4>2. accounts' = [accounts EXCEPT ![j] = [accounts[j] EXCEPT !.token.expired = TRUE]]
        BY <3>1 DEF TokenExpires
      <4>3. LET r == [accounts[j] EXCEPT !.token.expired = TRUE] IN
            /\ r.box = accounts[j].box /\ r.token.box = accounts[j].token.box
            /\ r.cursor = accounts[j].cursor
        BY <4>1 DEF Row, Token
      <4> QED
        BY <3>1, <4>1, <4>2, <4>3 DEF TokenExpires, TypeInv
    <3>2. CASE Disconnect(j)
      BY <3>2 DEF Disconnect
    <3> QED
      BY <1>2, <3>1, <3>2
  <2>2. \A i \in Ids : AccountCovers(i)'
    BY <1>0, <2>1, AccountKept DEF Covers, Counts
  <2>3. \A s \in Scanners : ScanCovers(s)'
    BY <1>0, <2>1, ScanKept DEF Covers, Counts
  <2> QED
    BY <1>0, <2>2, <2>3 DEF Covers
<1>3. ASSUME NEW c \in Callbacks, InsertAccount(c) PROVE Covers'
  <2>1. CASE accounts' = accounts
    BY <1>1, <1>3, <2>1 DEF InsertAccount
  <2>2. CASE accounts' = Put(accounts, c, NewRow(callback[c].box))
    <3>1. /\ DOMAIN accounts' = DOMAIN accounts \cup {c} /\ moved' = moved /\ scan' = scan
          /\ accounts'[c] = NewRow(callback[c].box)
          /\ \A i \in DOMAIN accounts : i # c => accounts'[i] = accounts[i]
      BY <1>3, <2>2 DEF InsertAccount, Put
    <3>2. \A s \in Scanners : scan[s].pc # "idle" => scan[s].id # c
      BY <1>3 DEF Covers, Fresh, InsertAccount, Ids
    <3>3. \A i \in Ids \ {c} : AccountCovers(i)'
      BY <1>0, <3>1, AccountKept DEF Covers, Counts
    <3>4. AccountCovers(c)'
      BY <3>1 DEF AccountCovers, NewRow, NoCursor
    <3>5. \A s \in Scanners : ScanCovers(s)'
      BY <1>0, <3>1, <3>2, ScanKept DEF Covers, Counts
    <3> QED
      BY <1>0, <3>3, <3>4, <3>5 DEF Covers
  <2> QED
    BY <1>3, <2>1, <2>2 DEF InsertAccount
<1>4. ASSUME NEW c \in Callbacks, UpdateAccount(c) PROVE Covers'
  <2> DEFINE j == callback[c].into
  <2>1. CASE accounts' = accounts /\ moved' = moved
    BY <1>1, <1>4, <2>1 DEF UpdateAccount
  <2>2. CASE /\ j \in DOMAIN accounts
             /\ accounts' = [accounts EXCEPT ![j] = Reconnected(accounts[j], c)]
             /\ moved' = IF accounts[j].box = callback[c].box THEN moved ELSE moved \cup {j}
    <3>1. accounts[j] \in Row
      BY <2>2 DEF TypeInv
    <3>2. /\ accounts[j].box = callback[c].box =>
               Reconnected(accounts[j], c).box = callback[c].box
          /\ Reconnected(accounts[j], c).token.box = callback[c].box
          /\ Reconnected(accounts[j], c).cursor = accounts[j].cursor
      BY <3>1 DEF Reconnected, Renames, NewRow, Row
    <3>3. /\ DOMAIN accounts' = DOMAIN accounts /\ accounts'[j] = Reconnected(accounts[j], c)
          /\ \A i \in DOMAIN accounts : i # j => accounts'[i] = accounts[i]
      BY <2>2 DEF TypeInv
    <3>4. scan' = scan
      BY <1>4 DEF UpdateAccount
    <3> HIDE DEF j
    <3>5. \A i \in Ids : Counts(i)' => Counts(i) /\ (i = j => accounts[j].box = callback[c].box)
      BY <2>2, <3>3 DEF Counts
    <3>6. \A i \in Ids : AccountCovers(i)'
      <4> SUFFICES ASSUME NEW i \in Ids PROVE AccountCovers(i)'
        OBVIOUS
      <4>1. CASE i # j
        BY <1>0, <3>3, <3>5, <4>1, AccountKept DEF Covers, Counts
      <4>2. CASE i = j
        <5>1. Counts(i)' => /\ Counts(i) /\ accounts'[i].box = accounts[i].box
                           /\ accounts[i].token.box = accounts[i].box
          BY <3>2, <3>3, <3>5, <4>2 DEF Covers, AccountCovers
        <5> QED
          BY <1>0, <3>2, <3>3, <3>5, <4>2, <5>1, AccountKept DEF Covers
      <4> QED
        BY <4>1, <4>2
    <3>7. \A s \in Scanners : ScanCovers(s)'
      <4> SUFFICES ASSUME NEW s \in Scanners PROVE ScanCovers(s)'
        OBVIOUS
      <4>1. scan[s].pc # "idle" /\ Counts(scan[s].id)' =>
              Counts(scan[s].id) /\ accounts'[scan[s].id].box = accounts[scan[s].id].box
        <5>1. Counts(scan[s].id)' => scan[s].id \in Ids /\ scan[s].id \in DOMAIN accounts
          BY <3>3, <3>4 DEF Counts, TypeInv
        <5> QED
          BY <3>2, <3>3, <3>4, <3>5, <5>1 DEF Counts
      <4> QED
        BY <1>0, <3>4, <4>1, ScanKept DEF Covers
    <3> QED
      BY <1>0, <3>6, <3>7 DEF Covers
  <2> QED
    BY <1>4, <2>1, <2>2 DEF UpdateAccount
<1>5. ASSUME NEW s \in Scanners, NEW i \in Ids, Load(s, i) PROVE Covers'
  <2>1. accounts' = accounts /\ moved' = moved
    BY <1>5 DEF Load
  <2>2. CASE scan' = scan
    BY <1>1, <2>1, <2>2
  <2>3. CASE /\ i \in DOMAIN accounts
             /\ Becomes(s, [Idle EXCEPT !.pc = "token", !.id = i, !.row = accounts[i]])
    <3>1. /\ scan'[s].pc = "token" /\ scan'[s].id = i /\ scan'[s].row = accounts[i]
          /\ \A t \in Scanners : t # s => scan'[t] = scan[t]
      BY <2>3 DEF Becomes, Idle, TypeInv
    <3>2. \A j \in Ids : AccountCovers(j)'
      BY <1>0, <2>1, AccountKept DEF Covers, Counts
    <3>3. ScanCovers(s)'
      <4> SUFFICES ASSUME Counts(i)' PROVE accounts'[i].box = BoxOf(s)' /\ Held(s)'
        BY <3>1 DEF ScanCovers
      <4>1. AccountCovers(i)' /\ BoxOf(s)' = accounts'[i].token.box
        BY <2>1, <3>1, <3>2 DEF BoxOf
      <4>2. accounts'[i].box = BoxOf(s)' /\ scan'[s].row.cursor = accounts'[i].cursor
        BY <2>1, <3>1, <4>1 DEF AccountCovers
      <4> QED
        BY <3>1, <4>1, <4>2 DEF AccountCovers, Held, Seen
    <3>4. \A t \in Scanners \ {s} : ScanCovers(t)'
      BY <1>0, <2>1, <3>1, ScanKept DEF Covers, Counts
    <3> QED
      BY <1>0, <3>2, <3>3, <3>4 DEF Covers
  <2> QED
    BY <1>5, <2>2, <2>3 DEF Load
<1>6. ASSUME NEW s \in Scanners, Work(s) \/ ReadFails(s) \/ ScanDies(s) PROVE Covers'
  <2>1. scan[s].pc # "idle" /\ \A t \in Scanners : t # s => scan'[t] = scan[t]
    BY <1>6, WorkMoves
  <2>2. CASE SaveCursor(s) \/ SaveError(s)
    <3>0. PICK i \in Ids : i = scan[s].id /\ i \in DOMAIN accounts
      BY <2>2 DEF SaveCursor, SaveError, TypeInv
    <3>1. /\ i \in DOMAIN accounts /\ i \in Ids /\ DOMAIN accounts' = DOMAIN accounts
          /\ moved' = moved /\ scan'[s] = Idle
          /\ \A k \in DOMAIN accounts : k # i => accounts'[k] = accounts[k]
      <4>1. \E r : accounts' = [accounts EXCEPT ![i] = r]
        BY <2>2, <3>0 DEF SaveCursor, SaveError
      <4>2. \A k \in DOMAIN accounts : k # i => accounts'[k] = accounts[k]
        BY <4>1 DEF TypeInv
      <4>3. i \in DOMAIN accounts /\ moved' = moved /\ scan'[s] = Idle
        BY <2>2, <3>0 DEF SaveCursor, SaveError, Becomes, TypeInv
      <4> QED
        BY <2>2, <3>0, <4>2, <4>3, SavedAccountsTyped DEF TypeInv
    <3>2. AccountCovers(i)' /\ accounts'[i].box = accounts[i].box
      BY <2>2, <3>0, <3>1, SaveCovers DEF Covers
    <3>3. \A k \in Ids \ {i} : AccountCovers(k)'
      BY <1>0, <3>1, AccountKept DEF Covers, Counts
    <3>4. \A t \in Scanners \ {s} : ScanCovers(t)'
      BY <1>0, <2>1, <3>0, <3>1, <3>2, ScanKept DEF Covers, Counts
    <3>5. ScanCovers(s)'
      BY <3>1 DEF ScanCovers, Idle
    <3> QED
      BY <1>0, <3>2, <3>3, <3>4, <3>5 DEF Covers
  <2>3. CASE ~SaveCursor(s) /\ ~SaveError(s)
    <3>1. accounts' = accounts /\ moved' = moved
      BY <1>6, <2>3 DEF Work, ReadFails, ScanDies, GetToken, ListHistory, HistoryGone,
         ListBootstrap, FetchMetadata, ReadProfile, Enqueue, RowGone
    <3>2. \A k \in Ids : AccountCovers(k)'
      BY <1>0, <3>1, AccountKept DEF Covers, Counts
    <3>3. \A t \in Scanners \ {s} : ScanCovers(t)'
      BY <1>0, <2>1, <3>1, ScanKept DEF Covers, Counts
    <3>4. ScanCovers(s)'
      <4>1. scan'[s].pc = "idle" \/ (Held(s) => Carries(s) /\ Held(s)')
        BY <1>6, WorkHeld
      <4>2. scan'[s].pc = "idle" \/ scan'[s].id = scan[s].id
        BY <1>6, WorkMoves DEF Idle
      <4> QED
        BY <2>1, <3>1, <4>1, <4>2 DEF Covers, ScanCovers, Counts, Carries
    <3> QED
      BY <1>0, <3>2, <3>3, <3>4 DEF Covers
  <2> QED
    BY <2>2, <2>3
<1>7. ASSUME \/ OpenSettings \/ DisconnectRead \/ ScanAll \/ UNCHANGED vars
             \/ \E b \in Boxes : Arrive(b) \/ ForgetHistory(b)
             \/ \E u \in Urls : StateExpires(u)
             \/ \E c \in Callbacks : PopState(c) \/ Connect(c) \/ EnqueueFirst(c) \/ CallbackFails(c)
      PROVE  Covers'
  BY <1>1, <1>7 DEF OpenSettings, DisconnectRead, ScanAll, vars, Arrive, ForgetHistory,
     StateExpires, PopState, Connect, EnqueueFirst, CallbackFails
<1> QED
  BY <1>2, <1>3, <1>4, <1>5, <1>6, <1>7 DEF Next, Request

-----------------------------------------------------------------------------
(* One account, unless two links raced.  A state is taken by one request.   *)
Open(c) == callback[c].pc \in {"exchange", "insert"}

LinksAreTaken ==
  /\ \A c \in Callbacks : Open(c) => callback[c].url \in 1..urls \ states
  /\ \A c, d \in Callbacks : Open(c) /\ Open(d) /\ c # d => callback[c].url # callback[d].url

Alone ==
  ~raced =>
    /\ \A c, d \in Callbacks : callback[c].pc = "insert" /\ callback[d].pc = "insert" => c = d
    /\ \A c \in Callbacks : callback[c].pc = "insert" => DOMAIN accounts = {}
    /\ \A i, j \in DOMAIN accounts : i = j

(* The steps that no request takes.                                         *)
LEMMA NoRequest ==
  ASSUME TypeInv, [Next]_vars,
         ~\E c \in Callbacks : PopState(c) \/ Request(c) \/ CallbackFails(c)
  PROVE  /\ callback' = callback /\ raced' = raced
         /\ \/ urls' = urls /\ states' \subseteq states
            \/ urls' = urls + 1 /\ states' = states \cup {urls + 1}
<1> USE DEF gmail, oauth, rows, jobs
<1>1. CASE OpenSettings
  BY <1>1 DEF OpenSettings
<1>2. CASE \/ DisconnectRead \/ ScanAll \/ UNCHANGED vars
           \/ \E b \in Boxes : Arrive(b) \/ ForgetHistory(b)
           \/ \E i \in Ids : TokenExpires(i) \/ Disconnect(i)
           \/ \E u \in Urls : StateExpires(u)
           \/ \E s \in Scanners, i \in Ids : Load(s, i)
           \/ \E s \in Scanners : ReadFails(s) \/ ScanDies(s)
  BY <1>2 DEF DisconnectRead, ScanAll, vars, Arrive, ForgetHistory, TokenExpires, Disconnect,
     StateExpires, Load, ReadFails, ScanDies
<1>3. CASE \E s \in Scanners : Work(s)
  BY <1>3 DEF Work, GetToken, ListHistory, HistoryGone, ListBootstrap, FetchMetadata,
     ReadProfile, Enqueue, SaveCursor, SaveError, RowGone
<1> QED
  BY <1>1, <1>2, <1>3 DEF Next

LEMMA LinksAreTakenStep ==
  ASSUME TypeInv, LinksAreTaken, [Next]_vars
  PROVE  LinksAreTaken'
<1>0. urls \in Nat /\ states \subseteq 1..urls
  BY DEF TypeInv
<1>1. CASE ~\E c \in Callbacks : PopState(c) \/ Request(c) \/ CallbackFails(c)
  <2>1. /\ callback' = callback
        /\ \/ urls' = urls /\ states' \subseteq states
           \/ urls' = urls + 1 /\ states' = states \cup {urls + 1}
    BY <1>1, NoRequest
  <2> QED
    BY <1>0, <2>1 DEF LinksAreTaken, Open
<1>2. ASSUME NEW c \in Callbacks, PopState(c) PROVE LinksAreTaken'
  <2>1. PICK u \in 1..urls, b \in Boxes :
          /\ \/ /\ u \in states
                /\ callback' = [callback EXCEPT
                      ![c] = [@ EXCEPT !.pc = "exchange", !.url = u, !.box = b]]
             \/ Answer(c)
          /\ states' = states \ {u} /\ urls' = urls
    BY <1>2 DEF PopState
  <2>2. CASE Answer(c)
    BY <2>1, <2>2 DEF Answer, Waiting, LinksAreTaken, Open, TypeInv
  <2>3. CASE u \in states /\ callback' = [callback EXCEPT
                      ![c] = [@ EXCEPT !.pc = "exchange", !.url = u, !.box = b]]
    <3>1. /\ callback'[c].url = u
          /\ \A d \in Callbacks : d # c => callback'[d] = callback[d]
      BY <2>3 DEF TypeInv, RequestType
    <3> QED
      BY <2>1, <2>3, <3>1 DEF LinksAreTaken, Open
  <2> QED
    BY <2>1, <2>2, <2>3
<1>3. ASSUME NEW c \in Callbacks, Request(c) \/ CallbackFails(c) PROVE LinksAreTaken'
  <2>1. states' = states /\ urls' = urls
    BY <1>3 DEF Request, Connect, InsertAccount, UpdateAccount, EnqueueFirst, CallbackFails
  <2>2. \A d \in Callbacks : d # c => callback'[d] = callback[d]
    BY <1>3 DEF Request, Connect, InsertAccount, UpdateAccount, EnqueueFirst, CallbackFails,
       Answer, TypeInv
  <2>3. Open(c)' => Open(c) /\ callback'[c].url = callback[c].url
    <3>1. callback[c] \in RequestType
      BY DEF TypeInv
    <3>2. CASE Connect(c)
      <4>1. callback[c].pc = "exchange"
        BY <3>2 DEF Connect
      <4>2. Open(c)
        BY <4>1 DEF Open
      <4>3. CASE callback' = [callback EXCEPT ![c].pc = "insert"]
        BY <3>1, <4>2, <4>3 DEF TypeInv, RequestType
      <4>4. ASSUME NEW i \in DOMAIN accounts,
                   callback' = [callback EXCEPT ![c] =
                     [@ EXCEPT !.pc = "update", !.into = i,
                               !.over = accounts[i].box, !.was = accounts[i].status]]
            PROVE  callback'[c].url = callback[c].url
        BY <3>1, <4>4 DEF TypeInv, RequestType
      <4>5. CASE Answer(c)
        BY <3>1, <4>5 DEF Answer, Waiting, Open, TypeInv, RequestType
      <4> QED
        BY <3>2, <4>2, <4>3, <4>4, <4>5 DEF Connect
    <3>3. CASE InsertAccount(c) \/ UpdateAccount(c) \/ EnqueueFirst(c) \/ CallbackFails(c)
      BY <3>1, <3>3 DEF InsertAccount, UpdateAccount, EnqueueFirst, CallbackFails, Answer,
         Waiting, Open, TypeInv, RequestType
    <3> QED
      BY <1>3, <3>2, <3>3 DEF Request
  <2> QED
    BY <2>1, <2>2, <2>3 DEF LinksAreTaken, Open
<1> QED
  BY <1>1, <1>2, <1>3

LEMMA AloneStep ==
  ASSUME TypeInv, LinksAreTaken, Alone, [Next]_vars
  PROVE  Alone'
<1>1. ASSUME NEW i \in DOMAIN accounts', i \notin DOMAIN accounts
      PROVE  i \in Callbacks /\ InsertAccount(i) /\ callback[i].pc = "insert"
  BY <1>1, AccountsComeByInsert
<1>2. CASE \E c \in Callbacks : InsertAccount(c)
  <2>1. PICK c \in Callbacks : InsertAccount(c)
    BY <1>2
  <2>2. /\ callback[c].pc = "insert" /\ raced' = raced
        /\ callback'[c].pc # "insert"
        /\ \A d \in Callbacks : d # c => callback'[d] = callback[d]
        /\ DOMAIN accounts' \subseteq DOMAIN accounts \cup {c}
    BY <2>1 DEF InsertAccount, Answer, Waiting, Put, TypeInv, RequestType
  <2> QED
    BY <2>2 DEF Alone
<1>3. CASE ~\E c \in Callbacks : InsertAccount(c)
  <2>1. DOMAIN accounts' \subseteq DOMAIN accounts
    BY <1>1, <1>3
  <2>2. CASE ~\E c \in Callbacks : PopState(c) \/ Request(c) \/ CallbackFails(c)
    BY <2>1, <2>2, NoRequest DEF Alone
  <2>3. ASSUME NEW c \in Callbacks, Connect(c) PROVE Alone'
    <3>1. /\ callback[c].pc = "exchange"
          /\ \A d \in Callbacks : d # c => callback'[d] = callback[d]
          /\ callback'[c].pc = "insert" => DOMAIN accounts = {}
          /\ ~raced' => ~raced
      BY <2>3 DEF Connect, Answer, Waiting, TypeInv, RequestType
    <3>2. ~raced' /\ DOMAIN accounts = {} =>
            \A d \in Callbacks : callback[d].pc = "insert" => callback[d].url = callback[c].url
      BY <2>3 DEF Connect
    <3>3. ~raced' /\ DOMAIN accounts = {} => \A d \in Callbacks : callback[d].pc # "insert"
      BY <3>1, <3>2 DEF LinksAreTaken, Open
    <3> QED
      BY <2>1, <3>1, <3>3 DEF Alone
  <2>4. ASSUME NEW c \in Callbacks,
               PopState(c) \/ UpdateAccount(c) \/ EnqueueFirst(c) \/ CallbackFails(c)
        PROVE  Alone'
    <3>1. /\ raced' = raced /\ callback'[c].pc # "insert"
          /\ \A d \in Callbacks : d # c => callback'[d] = callback[d]
      <4>1. callback[c] \in RequestType
        BY DEF TypeInv
      <4>2. ASSUME Answer(c)
            PROVE  /\ callback'[c].pc # "insert"
                   /\ \A d \in Callbacks : d # c => callback'[d] = callback[d]
        BY <4>2 DEF Answer, Waiting, TypeInv
      <4>3. CASE PopState(c)
        <5>1. PICK u \in 1..urls, b \in Boxes :
                \/ callback' = [callback EXCEPT
                      ![c] = [@ EXCEPT !.pc = "exchange", !.url = u, !.box = b]]
                \/ Answer(c)
          BY <4>3 DEF PopState
        <5>2. CASE callback' = [callback EXCEPT
                      ![c] = [@ EXCEPT !.pc = "exchange", !.url = u, !.box = b]]
          BY <4>1, <4>3, <5>2 DEF PopState, TypeInv, RequestType
        <5> QED
          BY <4>2, <4>3, <5>1, <5>2 DEF PopState
      <4>4. CASE UpdateAccount(c)
        <5>1. CASE callback' = [callback EXCEPT ![c].pc = "enqueue"]
          BY <4>1, <4>4, <5>1 DEF UpdateAccount, TypeInv, RequestType
        <5> QED
          BY <4>2, <4>4, <5>1 DEF UpdateAccount
      <4>5. CASE EnqueueFirst(c) \/ CallbackFails(c)
        BY <4>2, <4>5 DEF EnqueueFirst, CallbackFails
      <4> QED
        BY <2>4, <4>3, <4>4, <4>5
    <3> QED
      BY <2>1, <3>1 DEF Alone
  <2> QED
    BY <1>3, <2>2, <2>3, <2>4 DEF Request
<1> QED
  BY <1>2, <1>3

-----------------------------------------------------------------------------
IInv == TypeInv /\ Covers /\ LinksAreTaken /\ Alone

LEMMA IInvInit == Init => IInv
<1> SUFFICES ASSUME Init PROVE IInv
  OBVIOUS
<1>1. /\ DOMAIN accounts = {}
      /\ \A s \in Scanners : scan[s].pc = "idle"
      /\ \A c \in Callbacks : callback[c].pc = "idle"
  BY DEF Init, Idle, Waiting
<1>2. Covers
  BY <1>1 DEF Covers, Fresh, AccountCovers, ScanCovers, Counts
<1>3. LinksAreTaken /\ Alone
  BY <1>1 DEF LinksAreTaken, Alone, Open
<1> QED
  BY <1>2, <1>3, TypeInvInit DEF IInv

LEMMA IInvStep == IInv /\ [Next]_vars => IInv'
BY TypeInvStep, CoversStep, LinksAreTakenStep, AloneStep DEF IInv

LEMMA IInvHolds == Spec => []IInv
BY IInvInit, IInvStep, PTL DEF Spec

LEMMA IInvImplies == IInv => TypeOK /\ CursorCovers /\ OneAccountPerUser
<1> SUFFICES ASSUME IInv PROVE TypeOK /\ CursorCovers /\ OneAccountPerUser
  OBVIOUS
<1>0. TypeInv /\ Covers /\ Alone
  BY DEF IInv
<1>1. TypeOK
  <2>1. \A s \in Scanners : scan[s] \in ScanType /\ Phased(s)
    BY <1>0, ScanHasItsType
  <2>2. \A s \in Scanners :
          /\ scan[s].pc \in {"idle", "token", "history", "bootstrap", "fetch",
                             "profile", "enqueue", "error"}
          /\ scan[s].id \in Ids \cup {NoId} /\ scan[s].row \in Row
          /\ scan[s].left \subseteq scan[s].listed
          /\ scan[s].pc = "enqueue" => scan[s].upto \in Nat
    BY <2>1 DEF ScanType, Phases, Phased
  <2>3. \A i \in DOMAIN accounts : accounts[i] \in Row
    BY <1>0 DEF TypeInv
  <2> QED
    BY <1>0, <2>2, <2>3 DEF TypeInv, TypeOK, RequestType
<1>2. CursorCovers
  BY <1>0 DEF Covers, AccountCovers, Counts, CursorCovers, Seen, TypeInv
<1>3. OneAccountPerUser
  <2>1. CASE raced \/ DOMAIN accounts = {}
    BY <2>1, FS_EmptySet DEF OneAccountPerUser
  <2>2. CASE ~raced /\ DOMAIN accounts # {}
    <3>1. PICK i \in DOMAIN accounts : DOMAIN accounts = {i}
      BY <1>0, <2>2 DEF Alone
    <3>2. Cardinality({i}) = 1
      BY FS_Singleton
    <3> QED
      BY <3>1, <3>2 DEF OneAccountPerUser
  <2> QED
    BY <2>1, <2>2
<1> QED
  BY <1>1, <1>2, <1>3

(* Every variable has its type, and a scan about to commit has a cursor.    *)
THEOREM TypeCorrect == Spec => []TypeOK
BY IInvHolds, IInvImplies, PTL

(* No message is passed over: the cursor a scan commits never gets ahead of *)
(* what was handed to the parser, whatever scans, reconnects, failures and  *)
(* deaths of workers came in between (workers/scan.py commits after the     *)
(* last enqueue_job).                                                       *)
THEOREM NothingIsPassedOver == Spec => []CursorCovers
BY IInvHolds, IInvImplies, PTL

(* GETDEL lets one request through for a link, so only requests for two     *)
(* links can open two accounts.                                             *)
THEOREM OneAccountWithoutRace == Spec => []OneAccountPerUser
BY IInvHolds, IInvImplies, PTL

(* A deleted account is never written back, by a scan that holds it in its  *)
(* session or by a request that read it.                                    *)
THEOREM DisconnectedStaysAway == Spec => DisconnectedForGood
<1>1. ASSUME TypeInv, [Next]_vars
      PROVE  [\A i \in Ids :
                callback[i].pc \in {"enqueue", "done"} /\ i \notin DOMAIN accounts
                  => i \notin DOMAIN accounts']_vars
  BY <1>1, AccountsComeByInsert
<1>2. IInv => TypeInv
  BY DEF IInv
<1> QED
  BY <1>1, <1>2, IInvHolds, PTL DEF Spec, DisconnectedForGood
=============================================================================
