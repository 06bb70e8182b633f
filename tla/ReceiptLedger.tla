---------------------------- MODULE ReceiptLedger ----------------------------
(***************************************************************************)
(* What the receipt pipeline promises, without statements, sessions and     *)
(* crashes: a ledger in which a job enters its message in one step, while   *)
(* the message's account is connected and nobody has entered it yet, under  *)
(* a subscription of the receipt's own key that is open or is opened by     *)
(* this very entry; entries leave only when the user disconnects their      *)
(* account or wipes everything, subscriptions only by a wipe.  A key may    *)
(* have several open subscriptions: nothing in the database forbids it.     *)
(***************************************************************************)
CONSTANTS Jobs, MsgOf, Users, Accounts, OwnerOf, AccountOf, Keys, KeyOf, UserOf,
          SubIds,    \* what subscriptions are named by
          FirstOpen  \* the key of each the user may have added by hand

VARIABLES
  connected, \* accounts that are connected
  entries,   \* the receipts entered: which job's, under which subscription
  open       \* the key of each subscription

vars == <<connected, entries, open>>

Init ==
  /\ connected = Accounts
  /\ entries = {}
  /\ DOMAIN open \subseteq DOMAIN FirstOpen
  /\ open = [s \in DOMAIN open |-> FirstOpen[s]]

Account(e) == AccountOf[MsgOf[e.job]]
User(e) == UserOf[KeyOf[MsgOf[e.job]]]

Enter(j) == \E s \in SubIds :
  /\ AccountOf[MsgOf[j]] \in connected
  /\ \A e \in entries : MsgOf[e.job] # MsgOf[j]
  /\ s \in DOMAIN open => open[s] = KeyOf[MsgOf[j]]
  /\ entries' = entries \cup {[job |-> j, sub |-> s]}
  /\ open' = [x \in DOMAIN open \cup {s} |->
                IF x = s THEN KeyOf[MsgOf[j]] ELSE open[x]]
  /\ UNCHANGED connected

(* The user disconnects an account; some entries may go with it, the        *)
(* subscriptions stay.                                                      *)
Disconnect(a) ==
  /\ a \in connected
  /\ connected' = connected \ {a}
  /\ entries' \subseteq entries
  /\ \A e \in entries : Account(e) # a => e \in entries'
  /\ UNCHANGED open

(* The user wipes everything.                                               *)
Wipe(u) ==
  /\ connected' = {a \in connected : OwnerOf[a] # u}
  /\ entries' = {e \in entries : User(e) # u}
  /\ open' = [s \in {x \in DOMAIN open : UserOf[open[x]] # u} |-> open[s]]

Next ==
  \/ \E j \in Jobs : Enter(j)
  \/ \E a \in Accounts : Disconnect(a)
  \/ \E u \in Users : Wipe(u)

Spec == Init /\ [][Next]_vars
=============================================================================
