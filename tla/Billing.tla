------------------------------- MODULE Billing -------------------------------
(***************************************************************************)
(* The arithmetic of charges: LeakyWallet/utils/dates.py and utils/money.py *)
(* A date is a day number (day 0 is 1 January 2026) and an amount a number  *)
(* of minor units, so that Decimal("2.99") is 299.  A set of charges is a   *)
(* finite set of names S with functions giving the day and amount of each.  *)
(***************************************************************************)
EXTENDS Integers, FiniteSets, Functions

Periods == {"weekly", "monthly", "quarterly", "yearly"}

FirstDay(day, S) ==
  CHOOSE d \in {day[c] : c \in S} : \A c \in S : d <= day[c]
LastDay(day, S) ==
  CHOOSE d \in {day[c] : c \in S} : \A c \in S : day[c] <= d

(***************************************************************************)
(* infer_period_from_intervals: the gaps between consecutive charges sum to *)
(* the distance from the first to the last, so "average gap <= b" is        *)
(* "distance <= b * number of gaps".                                        *)
(***************************************************************************)
AverageGapAtMost(bound, day, S) ==
  LastDay(day, S) - FirstDay(day, S) <= bound * (Cardinality(S) - 1)

InferPeriod(day, S) ==
  CASE AverageGapAtMost(10, day, S)  -> "weekly"
    [] ~AverageGapAtMost(10, day, S) /\ AverageGapAtMost(45, day, S)
         -> "monthly"
    [] ~AverageGapAtMost(45, day, S) /\ AverageGapAtMost(120, day, S)
         -> "quarterly"
    [] OTHER -> "yearly"

(* has_same_day_repeat *)
SameDayRepeat(day, S) == \E c, d \in S : c # d /\ day[c] = day[d]

(***************************************************************************)
(* amounts_are_consistent: stddev / mean <= 0.5.  With n charges, sum s and *)
(* sum of squares q this is 4 * (n*q - s^2) <= s^2, which also holds when   *)
(* every amount is 0 (the code's early return on a zero mean).              *)
(***************************************************************************)
AmountsConsistent(amount, S) ==
  LET s == SumFunctionOnSet(amount, S)
      q == SumFunctionOnSet([c \in S |-> amount[c] * amount[c]], S)
  IN  4 * (Cardinality(S) * q - s * s) <= s * s

(* The condition under which _refine_recurring_flag clears the flag.        *)
LooksOneOff(day, amount, S) ==
  SameDayRepeat(day, S) \/ ~AmountsConsistent(amount, S)
=============================================================================
