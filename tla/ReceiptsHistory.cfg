SPECIFICATION FairSpec
CONSTANTS
  Jobs <- RunJobs
  Messages <- RunMessages
  MsgOf <- RunMsgOf
  Keys <- AnnKeys
  UserOf <- AnnUserOf
  Users <- AnnUsers
  Accounts <- AnnAccounts
  OwnerOf <- AnnOwnerOf
  AccountOf <- RunAccountOf
  KeyOf <- RunKeyOf
  Day <- RunDay
  Amount <- RunAmount
  Stated <- RunStated
  NoPeriod <- MCNoPeriod
  Slugs <- MCSlugs
  NoSlug <- MCNoSlug
  SlugOf <- AnnSlugOf
  Manual <- OneManual
  ManualKey <- OneManualKey
  ManualRow <- OneManualRow
  NoSub = NoSub
  s0 = s0
  AddPeriod <- CalendarAddPeriod
  Rerunnable <- NoJobs
  MaxReruns = 0
INVARIANTS EmailSubscriptionsHaveCharges FlagHasEvidence ScheduleIsCoherent
PROPERTIES FlagNeverClears ImplementsLedger
