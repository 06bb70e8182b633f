----------------------------- MODULE MCScreens -----------------------------
EXTENDS Screens

(* 31 August and 31 December 2026, 31 January and 31 March 2027.            *)
OverNewYear == {242, 364, 395, 454}
TwoCurrencies == {"USD", "RUB"}
MonthlyOrYearly == {"monthly", "yearly"}
CategoryOfSenders == [tv |-> "streaming"]
=============================================================================
