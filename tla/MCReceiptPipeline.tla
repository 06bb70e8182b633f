-------------------------- MODULE MCReceiptPipeline --------------------------
(***************************************************************************)
(* Instances of ReceiptPipeline for TLC.  Keys are catalogue keys of two    *)
(* users that share one services row ("ann.tv", "bob.tv") and the name of a *)
(* sender outside the catalogue ("ann.gym").                                *)
(***************************************************************************)
EXTENDS ReceiptRefinement, Calendar, TLC

CONSTANT s0   \* the subscription added by hand

MCUsers == {"ann", "bob"}
MCAccounts == {"ann@", "bob@"}
MCOwnerOf == ("ann@" :> "ann") @@ ("bob@" :> "bob")
MCKeys == {"ann.tv", "bob.tv", "ann.gym"}
MCUserOf == [k \in MCKeys |-> IF k = "bob.tv" THEN "bob" ELSE "ann"]
MCSlugs == {"tv"}
MCNoSlug == "none"
MCSlugOf == [k \in MCKeys |-> IF k = "ann.gym" THEN "none" ELSE "tv"]
MCNoPeriod == "unstated"

(* The same world without bob.                                              *)
AnnUsers == {"ann"}
AnnAccounts == {"ann@"}
AnnOwnerOf == "ann@" :> "ann"
AnnKeys == {"ann.tv", "ann.gym"}
AnnUserOf == [k \in AnnKeys |-> "ann"]
AnnSlugOf == [k \in AnnKeys |-> MCSlugOf[k]]

(* Two jobs carry one message (a scan enqueued it twice); a third job has   *)
(* bob's receipt of the same service.                                       *)
DupJobs == 1..3
DupMessages == {"m1", "m2"}
DupMsgOf == <<"m1", "m1", "m2">>
DupKeyOf == [m1 |-> "ann.tv", m2 |-> "bob.tv"]
DupAccountOf == [m1 |-> "ann@", m2 |-> "bob@"]
DupDay == [m1 |-> 30, m2 |-> 58]
DupAmount == [m \in DupMessages |-> 299]
DupStated == [m1 |-> "unstated", m2 |-> "yearly"]
FirstAndLast == {1, 3}
NoJobs == {}
NoManual == {}
NoManualKey == [s \in {} |-> "ann.gym"]
NoManualRow == [s \in {} |-> BlankRow]

(* The first two receipts of one service.                                   *)
RaceJobs == 1..2
RaceMessages == {"m1", "m2"}
RaceMsgOf == <<"m1", "m2">>
RaceKeyOf == [m \in RaceMessages |-> "ann.tv"]
RaceAccountOf == [m \in RaceMessages |-> "ann@"]
RaceDay == [m1 |-> 0, m2 |-> 7]
RaceAmount == [m \in RaceMessages |-> 299]
RaceStated == [m1 |-> "unstated", m2 |-> "yearly"]

(* Four receipts of one sender: two on one day, one a quarter later, one of *)
(* a very different amount, so that every subset suggests something else.   *)
(* A subscription added by hand may have the sender's name.                 *)
RunJobs == 1..4
RunMessages == {"m1", "m2", "m3", "m4"}
RunMsgOf == <<"m1", "m2", "m3", "m4">>
RunKeyOf == [m \in RunMessages |-> "ann.gym"]
RunAccountOf == [m \in RunMessages |-> "ann@"]
RunDay == [m1 |-> 10, m2 |-> 10, m3 |-> 100, m4 |-> 130]
RunAmount == [m1 |-> 299, m2 |-> 299, m3 |-> 299, m4 |-> 9900]
RunStated == [m \in RunMessages |-> "unstated"]
OneManual == {s0}
OneManualKey == [s \in {s0} |-> "ann.gym"]
OneManualRow ==
  [s \in {s0} |-> [period |-> "monthly", next |-> 20, recurring |-> TRUE]]
=============================================================================
