------------------------------- MODULE Screens -------------------------------
(***************************************************************************)
(* What the bot shows of one user's subscriptions: the list and its pages   *)
(* (bot/handlers/subscriptions.py, bot/keyboards.py), its totals            *)
(* (services/subscriptions.py) and the analytics (services/analytics.py),   *)
(* while receipts arrive in any order, subscriptions are added, cancelled   *)
(* and repriced, and time passes.  Days and amounts are those of Calendar   *)
(* and Billing; the base currency of the user is "USD".                     *)
(***************************************************************************)
EXTENDS Billing, Calendar, Sequences

CONSTANTS
  Days,        \* days on which something happens
  Amounts, Currencies, Stated,  \* amounts, currencies, periods of receipts
  Senders,     \* names receipts come under
  CategoryOf,  \* category of a sender's service, "other" if it has none
  PageSize,
  MaxSubs, MaxCharges   \* bounds

ASSUME ScreensAssumption ==
  /\ Days \subseteq Nat /\ Amounts \subseteq Nat /\ Stated \subseteq Periods
  /\ PageSize \in Nat \ {0} /\ MaxSubs \in Nat /\ MaxCharges \in Nat

VARIABLES
  today,
  subs,      \* the user's subscriptions in the order they were created
  charges,   \* transactions in the order they were recorded
  offered    \* pages that buttons in the chat lead to

vars == <<today, subs, charges, offered>>

Base == "USD"
Subs == DOMAIN subs
Put(s, r) == subs' = [subs EXCEPT ![s] = r]
-----------------------------------------------------------------------------
(* S in a list, where upTo[s] are the members up to and including s.        *)
InOrder(S, upTo) ==
  [i \in 1..Cardinality(S) |-> CHOOSE s \in S : Cardinality(upTo[s]) = i]

(* list_visible, and the page of it a button asks for.                      *)
IsVisible(s) == subs[s].status # "cancelled" /\ subs[s].recurring
Visible == {s \in Subs : IsVisible(s)}
ListVisible == InOrder(Visible, [s \in Visible |-> {t \in Visible : t <= s}])
TotalPages == Max({1, (Len(ListVisible) + PageSize - 1) \div PageSize})

(* A mutation: one page more.                                               *)
ClampLate(page) == Max({0, Min({page, TotalPages})})
Clamp(page) == Max({0, Min({page, TotalPages - 1})})
PageItems(page) ==
  SubSeq(ListVisible, Clamp(page) * PageSize + 1,
         Min({(Clamp(page) + 1) * PageSize, Len(ListVisible)}))

(* A mutation: there is always a next page.                                 *)
NavRowOpen(page) == {p \in {page - 1, page + 1} : 0 <= p /\ p <= TotalPages}
(* subscriptions_list_keyboard                                              *)
NavRow(page) == {p \in {page - 1, page + 1} : 0 <= p /\ p < TotalPages}

(* monthly_equivalent, yearly_equivalent: half a minor unit is rounded up.  *)
RoundHalfUp(n, d) == (2 * n + d) \div (2 * d)
MonthlyEquivalent(amount, period) ==
  CASE period = "weekly"    -> RoundHalfUp(amount * 52, 12)
    [] period = "monthly"   -> amount
    [] period = "quarterly" -> RoundHalfUp(amount, 3)
    [] period = "yearly"    -> RoundHalfUp(amount, 12)
PerYear == [weekly |-> 52, monthly |-> 12, quarterly |-> 4, yearly |-> 1]
YearlyEquivalent(amount, period) == amount * PerYear[period]

Monthly == [s \in Subs |-> MonthlyEquivalent(subs[s].amount, subs[s].period)]
Yearly == [s \in Subs |-> YearlyEquivalent(subs[s].amount, subs[s].period)]
Summed == {s \in Visible : subs[s].currency = Base}
MonthlyTotal == SumFunctionOnSet(Monthly, Summed)
YearlyTotal == SumFunctionOnSet(Yearly, Summed)

(* _active_in_base_currency, top_spending, category_breakdown               *)
ActiveOfAnyKind ==
  {s \in Subs : subs[s].status = "active" /\ subs[s].currency = Base}
ActiveInBaseCurrency ==
  {s \in Subs : /\ subs[s].status = "active" /\ subs[s].currency = Base
                /\ subs[s].recurring}
TopSpending ==
  LET upTo == [s \in ActiveInBaseCurrency |->
                 {t \in ActiveInBaseCurrency :
                    \/ Monthly[t] > Monthly[s]
                    \/ Monthly[t] = Monthly[s] /\ t <= s}]
      byAmount == InOrder(ActiveInBaseCurrency, upTo)
  IN  SubSeq(byAmount, 1, Min({5, Len(byAmount)}))
Categories == {subs[s].category : s \in ActiveInBaseCurrency}
CategoryTotal ==
  [c \in Categories |->
     SumFunctionOnSet(Monthly, {s \in ActiveInBaseCurrency : subs[s].category = c})]

(* monthly_trend: the keys of six months, counted back from now.            *)
KeyOfDay(day) == [year |-> 2026 + MonthOf(day) \div 12, month |-> (MonthOf(day) % 12) + 1]
(* A mutation: the year stays.                                              *)
BeforeInYear(key) == [key EXCEPT !.month = IF @ = 1 THEN 12 ELSE @ - 1]
Before(key) == IF key.month = 1 THEN [year |-> key.year - 1, month |-> 12]
               ELSE [key EXCEPT !.month = @ - 1]
KeyBack[i \in 0..5] == IF i = 0 THEN KeyOfDay(today) ELSE Before(KeyBack[i - 1])
MonthKeys == {KeyBack[i] : i \in 0..5}

(* The query takes the charges since the first day of the oldest key, no    *)
(* day being before day 0; the loop then counts them by key.                *)
FirstDayOf(key) == LET m == 12 * (key.year - 2026) + key.month - 1 IN
  IF m < 0 THEN 0 ELSE MonthStart[m]
ListByUserSince == LET cutoff == FirstDayOf(KeyBack[5]) IN
  {c \in DOMAIN charges : charges[c].day >= cutoff}
Amount == [c \in DOMAIN charges |-> charges[c].amount]
Trend == LET transactions == ListByUserSince IN
  [key \in MonthKeys |->
     SumFunctionOnSet(Amount,
       {c \in transactions : /\ charges[c].currency = Base
                             /\ KeyOfDay(charges[c].day) = key})]

(* find_dormant: two periods have passed since the latest charge.           *)
ChargesOf(s) == {c \in DOMAIN charges : charges[c].sub = s}
Day == [c \in DOMAIN charges |-> charges[c].day]
(* A mutation: the charge recorded last.                                    *)
LastRecorded(s) == Day[Max(ChargesOf(s))]
LastCharge(s) == LastDay(Day, ChargesOf(s))
FindDormant ==
  {s \in Subs :
     /\ subs[s].status = "active" /\ subs[s].email /\ subs[s].recurring
     /\ ChargesOf(s) # {}
     /\ today > CalendarAddPeriod(CalendarAddPeriod(LastCharge(s), subs[s].period),
                                  subs[s].period)}
-----------------------------------------------------------------------------
Init ==
  /\ today \in Days /\ \A d \in Days : today <= d
  /\ subs = <<>> /\ charges = <<>> /\ offered = {}

(* SubscriptionService.create                                               *)
Create == \E a \in Amounts, cur \in Currencies, p \in Stated :
  /\ Len(subs) < MaxSubs
  /\ subs' = Append(subs, [period |-> p, status |-> "active", amount |-> a,
                           currency |-> cur, email |-> FALSE, recurring |-> TRUE,
                           sender |-> "none", category |-> "other"])
  /\ UNCHANGED <<today, charges, offered>>

(* record_receipt: a charge of the sender's email subscription, whatever    *)
(* its status; the history then decides on period and flag (ReceiptPipeline *)
(* has the details).                                                        *)
Refined(sub, s, history) ==
  LET own == {c \in DOMAIN history : history[c].sub = s}
      day == [c \in DOMAIN history |-> history[c].day]
      amount == [c \in DOMAIN history |-> history[c].amount]
  IN  [sub EXCEPT
        !.period = IF Cardinality(own) < 2 THEN @ ELSE InferPeriod(day, own),
        !.recurring = @ /\ (Cardinality(own) >= 3 => ~LooksOneOff(day, amount, own))]

Receipt == \E k \in Senders, d \in Days, a \in Amounts, cur \in Currencies, p \in Stated :
  LET known == {s \in Subs : subs[s].email /\ subs[s].sender = k}
      s == IF known = {} THEN Len(subs) + 1 ELSE Min(known)
      charge == [sub |-> s, day |-> d, amount |-> a, currency |-> cur]
  IN
  /\ Len(charges) < MaxCharges /\ d <= today
  /\ charges' = Append(charges, charge)
  /\ \/ /\ known = {} /\ Len(subs) < MaxSubs
        /\ subs' = Append(subs, [period |-> p, status |-> "active", amount |-> a,
                                 currency |-> cur, email |-> TRUE, recurring |-> TRUE,
                                 sender |-> k, category |-> CategoryOf[k]])
     \/ known # {} /\ Put(s, Refined(subs[s], s, charges'))
  /\ UNCHANGED <<today, offered>>

(* SubscriptionService.update of amount and currency; delete.               *)
Reprice == \E s \in Subs, a \in Amounts, cur \in Currencies :
  /\ Put(s, [subs[s] EXCEPT !.amount = a, !.currency = cur])
  /\ UNCHANGED <<today, charges, offered>>
Cancel == \E s \in Subs :
  /\ Put(s, [subs[s] EXCEPT !.status = "cancelled"])
  /\ UNCHANGED <<today, charges, offered>>

(* The list from the menu, and a page from any list still in the chat.      *)
OpenList == /\ offered' = offered \cup NavRow(0)
            /\ UNCHANGED <<today, subs, charges>>
Paginate == \E p \in offered :
  /\ offered' = offered \cup NavRow(Clamp(p))
  /\ UNCHANGED <<today, subs, charges>>

NextDay == /\ \E d \in Days : today < d
           /\ today' = Min({d \in Days : today < d})
           /\ UNCHANGED <<subs, charges, offered>>

Next == Create \/ Receipt \/ Reprice \/ Cancel \/ OpenList \/ Paginate \/ NextDay
Spec == Init /\ [][Next]_vars
-----------------------------------------------------------------------------
Subscription ==
  [period : Periods, status : {"active", "cancelled"}, amount : Amounts,
   currency : Currencies, email : BOOLEAN, recurring : BOOLEAN,
   sender : Senders \cup {"none"}, category : {CategoryOf[k] : k \in Senders} \cup {"other"}]
Transaction == [sub : Nat, day : Days, amount : Amounts, currency : Currencies]

(* Every variable has its type, and every button led to a page.  No code    *)
(* sets SubscriptionStatus.PAUSED.                                          *)
TypeOK ==
  /\ today \in Days
  /\ subs \in Seq(Subscription) /\ Len(subs) <= MaxSubs
  /\ charges \in Seq(Transaction) /\ Len(charges) <= MaxCharges
  /\ \A c \in DOMAIN charges : charges[c].sub \in Subs /\ charges[c].day <= today
  /\ offered \subseteq 0..((MaxSubs - 1) \div PageSize)

(* The pages hold every visible subscription once, and a button of an older *)
(* list, pressed after subscriptions were cancelled or flagged, still leads *)
(* to a page that is not empty.                                             *)
PagesCover ==
  /\ \A s \in Subs : IsVisible(s) =>
       Cardinality({p \in 0..(TotalPages - 1) : s \in Range(PageItems(p))}) = 1
  /\ ListVisible # <<>> => \A p \in offered : PageItems(p) # <<>>

(* The list and the analytics tell the same story: the monthly total is the *)
(* sum of the categories, and that of the top while it is not cut off; and  *)
(* a year is twelve months but for half a minor unit a month and            *)
(* subscription.                                                            *)
ScreensAgree ==
  /\ MonthlyTotal = SumFunction(CategoryTotal)
  /\ LET top == TopSpending IN
       Len(top) < 5 =>
         MonthlyTotal = SumFunction([i \in DOMAIN top |-> Monthly[top[i]]])
  /\ 12 * MonthlyTotal - YearlyTotal \in
       -(6 * Cardinality(Summed))..(6 * Cardinality(Summed))

(* The trend counts every charge of the last six calendar months, also over *)
(* the turn of the year, and no other.                                      *)
TrendIsComplete ==
  SumFunction(Trend) =
    SumFunctionOnSet(Amount,
      {c \in DOMAIN charges : /\ charges[c].currency = Base
                              /\ MonthOf(today) - MonthOf(Day[c]) \in 0..5})

(* A subscription sleeps when none of its charges, recorded in whatever     *)
(* order, is of the last two periods; and when the last one is a month      *)
(* older than that it does sleep.                                           *)
DormantMeansSilent ==
  \A s \in {t \in Subs : subs[t].email /\ subs[t].period # "weekly"} :
    LET latest == MonthOf(today) - 2 * MonthsPerPeriod[subs[s].period] IN
    /\ s \in FindDormant => \A c \in ChargesOf(s) : MonthOf(Day[c]) <= latest
    /\ (subs[s].status = "active" /\ subs[s].recurring
         /\ \A c \in ChargesOf(s) : MonthOf(Day[c]) < latest)
         => s \in FindDormant
=============================================================================
