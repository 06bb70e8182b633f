SPECIFICATION FairSpec
CONSTANTS
  Users <- AnnOnly
  Subs <- NoSubs
  OwnerOf <- NobodysSubs
  Recomputes <- OneRecompute
  Sends <- OneSend
  Handlers <- NoHandlers
  UserOf <- NobodyClicks
  Week = 3
  Month = 4
  DigestHour = 1
  Zones <- OneZone
  FirstPolicy <- AnnMonthly
  Punctual = TRUE
  MaxLead = 0
  MaxClicks = 0
  MaxFails = 0
PROPERTIES MonthlyComesDue
