------------------------------ MODULE Calendar ------------------------------
(***************************************************************************)
(* The proleptic Gregorian calendar, as far as add_period (utils/dates.py)  *)
(* needs it.  Days and months are numbered from 1 January 2026 = day 0 of   *)
(* month 0.                                                                 *)
(***************************************************************************)
EXTENDS Integers, FiniteSetsExt

IsLeap(year) == year % 4 = 0 /\ (year % 100 # 0 \/ year % 400 = 0)

(* calendar.monthrange(year, month)[1] *)
DaysInMonth(m) ==
  CASE m % 12 = 1               -> IF IsLeap(2026 + m \div 12) THEN 29 ELSE 28
    [] m % 12 \in {3, 5, 8, 10} -> 30
    [] OTHER                    -> 31

(* the first day of a month                                                 *)
MonthStart[m \in Nat] ==
  IF m = 0 THEN 0 ELSE MonthStart[m - 1] + DaysInMonth(m - 1)

(* No month has more than 31 days, and none fewer than 28.                  *)
MonthOf(day) ==
  CHOOSE m \in (day \div 31)..(day \div 28) :
    MonthStart[m] <= day /\ day < MonthStart[m + 1]

(* day of the month, counted from 0 *)
DayInMonth(day) == day - MonthStart[MonthOf(day)]

MonthsPerPeriod == [monthly |-> 1, quarterly |-> 3, yearly |-> 12]

(***************************************************************************)
(* add_period: seven days, or the same day of a later month, clamped to the *)
(* last day that month has.                                                 *)
(***************************************************************************)
CalendarAddPeriod(day, period) ==
  IF period = "weekly" THEN day + 7
  ELSE LET target == MonthOf(day) + MonthsPerPeriod[period]
       IN  MonthStart[target] + Min({DayInMonth(day), DaysInMonth(target) - 1})
=============================================================================
