SPECIFICATION Spec
CONSTANTS
  Users <- AnnOnly
  Subs <- OneSub
  OwnerOf <- AnnsSub
  Recomputes <- OneRecompute
  Sends = {send1, send2}
  Handlers <- OneHandler
  UserOf <- AnnClicksOnce
  Week = 2
  Month = 2
  DigestHour = 1
  Zones <- OneZone
  FirstPolicy <- AnnDaysBefore
  Punctual = FALSE
  MaxLead = 1
  MaxClicks = 1
  MaxFails = 0
INVARIANTS TypeOK
PROPERTIES SentIsFinal ToldOnce RecomputeRepairs
SYMMETRY SendsAlike
