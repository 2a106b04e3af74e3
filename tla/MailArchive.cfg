SPECIFICATION FairSpec
CONSTANTS
  m1 = m1
  m2 = m2
  p1 = p1
  Mails <- MCMails
  Photos <- MCPhotos
  Date <- MCDate
  Exported <- MCExported
  Overlap = 1
  MaxNames = 5
  MaxFailures = 1
  MaxCalls = 1
CHECK_DEADLOCK FALSE
INVARIANTS
  MailIsKept
PROPERTIES
  OkMeansIndexed
  EveryMailIsSaved
