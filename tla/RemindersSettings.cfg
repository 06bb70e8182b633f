SPECIFICATION FairSpec
CONSTANTS
  Users <- AnnOnly
  Subs <- OneSub
  OwnerOf <- AnnsSub
  Recomputes <- OneRecompute
  Sends <- OneSend
  Handlers <- OneHandler
  UserOf <- AnnClicksOnce
  Week = 2
  Month = 2
  DigestHour = 1
  Zones <- OneZone
  FirstPolicy <- AnnWeekly
  Punctual = TRUE
  MaxLead = 1
  MaxClicks = 1
  MaxFails = 1
PROPERTIES TransactionsEnd PolicyPrevails WeeklyComesDue
