\* Two subscriptions on pages of one, three receipts around New Year.
SPECIFICATION Spec
CONSTANTS
  Days <- OverNewYear
  Amounts = {6}
  Currencies <- TwoCurrencies
  Stated <- MonthlyOrYearly
  Senders = {"tv"}
  CategoryOf <- CategoryOfSenders
  PageSize = 1
  MaxSubs = 2
  MaxCharges = 3
INVARIANTS TypeOK PagesCover ScreensAgree TrendIsComplete DormantMeansSilent
