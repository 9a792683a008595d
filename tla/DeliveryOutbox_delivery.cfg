SPECIFICATION FairSpec
CONSTANTS
  s1 = s1
  s2 = s2
  Uploads = {s1, s2}
  Device <- OneDevice
  Rank <- KeyOrder
  Body <- BodyOf
  QueueLimit = 1
  MaxFaults = 3
INVARIANTS ReceiptGenuine IdentityDurable IncidentHasCause
PROPERTIES SealedEnds
\* With every delivery settled the worker only polls.
CHECK_DEADLOCK FALSE
