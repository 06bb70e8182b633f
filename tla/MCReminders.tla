----------------------------- MODULE MCReminders -----------------------------
(***************************************************************************)
(* Instances of Reminders for TLC.  The configurations give the calendar: a *)
(* week of two or three hours, a month of two to four, and a digest at hour *)
(* one of each.                                                             *)
(***************************************************************************)
EXTENDS Reminders, TLC

OneZone == {0}
OneRecompute == {"recompute"}
OneSend == {"send"}
SendsAlike == Permutations(Sends)
NoHandlers == {}
NobodyClicks == [h \in {} |-> "ann"]

(* One user with one subscription or none and at most one handler.          *)
AnnOnly == {"ann"}
OneSub == {1}
AnnsSub == [s \in OneSub |-> "ann"]
NoSubs == {}
NobodysSubs == [s \in {} |-> "ann"]
OneHandler == {"h1"}
AnnClicksOnce == [h \in OneHandler |-> "ann"]
AnnDaysBefore == "ann" :> "days_before"
AnnMonthly == "ann" :> "monthly_report"
AnnWeekly == "ann" :> "weekly_digest"
=============================================================================
