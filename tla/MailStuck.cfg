\* One mailbox, one message and one failed scan.
SPECIFICATION FairSpec
CONSTANTS
  A = A  B = B  s1 = s1  s2 = s2  c1 = c1  c2 = c2  c3 = c3  NoId = NoId
  Boxes <- OneBox
  MaxMail <- OneMessage
  Relevant <- RelevantInOneBox
  Scanners = {s1}
  Callbacks = {c1}
  MaxUrls = 1
  PageSize = 1
  MaxQueue = 1
  MaxUpsets = 1
PROPERTIES FailedScanIsRetried
