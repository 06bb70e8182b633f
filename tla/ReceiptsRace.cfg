SPECIFICATION Spec
CONSTANTS
  Jobs <- RaceJobs
  Messages <- RaceMessages
  MsgOf <- RaceMsgOf
  Keys <- AnnKeys
  UserOf <- AnnUserOf
  Users <- AnnUsers
  Accounts <- AnnAccounts
  OwnerOf <- AnnOwnerOf
  AccountOf <- RaceAccountOf
  KeyOf <- RaceKeyOf
  Day <- RaceDay
  Amount <- RaceAmount
  Stated <- RaceStated
  NoPeriod <- MCNoPeriod
  Slugs <- MCSlugs
  NoSlug <- MCNoSlug
  SlugOf <- AnnSlugOf
  Manual <- NoManual
  ManualKey <- NoManualKey
  ManualRow <- NoManualRow
  NoSub = NoSub
  s0 = s0
  AddPeriod <- CalendarAddPeriod
  Rerunnable <- NoJobs
  MaxReruns = 0
INVARIANTS OneEmailSubscriptionPerKey
