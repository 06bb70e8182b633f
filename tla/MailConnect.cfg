\* Three requests for three links and two mailboxes, beside a scan.
SPECIFICATION Spec
CONSTANTS
  A = A  B = B  s1 = s1  s2 = s2  c1 = c1  c2 = c2  c3 = c3  NoId = NoId
  Boxes <- TwoBoxes
  MaxMail <- OneMessage
  Relevant <- RelevantInTwoBoxes
  Scanners = {s1}
  Callbacks = {c1, c2, c3}
  MaxUrls = 3
  PageSize = 1
  MaxQueue = 1
  MaxUpsets = 1
INVARIANTS OneAccountPerUser
PROPERTIES DisconnectedForGood
SYMMETRY RequestsAreAlike
VIEW LinksAreAlike
