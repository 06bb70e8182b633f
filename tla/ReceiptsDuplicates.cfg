SPECIFICATION FairSpec
CONSTANTS
  Jobs <- DupJobs
  Messages <- DupMessages
  MsgOf <- DupMsgOf
  Keys <- MCKeys
  UserOf <- MCUserOf
  Users <- MCUsers
  Accounts <- MCAccounts
  OwnerOf <- MCOwnerOf
  AccountOf <- DupAccountOf
  KeyOf <- DupKeyOf
  Day <- DupDay
  Amount <- DupAmount
  Stated <- DupStated
  NoPeriod <- MCNoPeriod
  Slugs <- MCSlugs
  NoSlug <- MCNoSlug
  SlugOf <- MCSlugOf
  Manual <- NoManual
  ManualKey <- NoManualKey
  ManualRow <- NoManualRow
  NoSub = NoSub
  s0 = s0
  AddPeriod <- CalendarAddPeriod
  Rerunnable <- FirstAndLast
  MaxReruns = 1
INVARIANTS TypeOK OneChargePerMessage ChargesHaveTheirSubscription EmailSubscriptionsHaveCharges NoReceiptLost WipeLeavesNothing
PROPERTIES EveryJobEnds ImplementsLedger
